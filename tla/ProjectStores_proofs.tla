-------------------------- MODULE ProjectStores_proofs --------------------------
(* Proofs about ProjectStores, for any projects, companies and files, any  *)
(* number of requests and of failures; the last section is about           *)
(* AccountDeletion, the other deletion across stores.                      *)
EXTENDS ProjectStores, AccountDeletion, FiniteSetTheorems, TLAPS

Removing(r) == req[r] \in Move /\ req[r].phase = "remove"

\* A project never moves from a company to itself, and one transfer at a time
\* is between copying and removing.
Apart == \A r \in Request : req[r] \in Move => req[r].from # req[r].to
OneRemoves == \A q, r \in Request : Removing(q) /\ Removing(r) => q = r

\* What is in a collection was written, what is being written was not.
PointsWritten == \A c \in Company : points[c] \subseteq written
WritesNew ==
    \A w \in writes :
        /\ <<w.project, w.piece>> \notin written
        /\ \A v \in writes : v.project = w.project /\ v.piece = w.piece => v = w

\* A point in two collections is on its way from one to the other, or its
\* removal failed.
Between(r, i, c, d) ==
    Removing(r) /\ req[r].project = i[1] /\ {c, d} = {req[r].from, req[r].to}
OnePlace ==
    \A i \in Item : \A c, d \in Company :
        i \in points[c] /\ i \in points[d] /\ c # d
            => i[1] \in halved \/ \E r \in Request : Between(r, i, c, d)

Orderly == Apart /\ OneRemoves
Kept == TypeOK /\ Orderly /\ PointsWritten /\ WritesNew /\ OnePlace

Requests == Creation \cup Move \cup Deletion \cup Drop \cup Addition

-----------------------------------------------------------------------------
USE DEF postgres, neo4j, qdrant, marks, history, vars, Idle, Owner, Item, Finish, Go,
        Fault, KeepMarks, KeepRest

\* What a request is, told from its kind.
LEMMA RequestType ==
  ASSUME TypeOK, NEW r \in Request, req[r] # Idle
  PROVE  /\ req[r] \in Requests
         /\ req[r].kind = "create" => req[r] \in Creation
         /\ req[r].kind = "transfer" => req[r] \in Move
         /\ req[r].kind = "delete" => req[r] \in Deletion
         /\ req[r].kind = "drop company" => req[r] \in Drop
         /\ req[r].kind = "add company" => req[r] \in Addition
         /\ req[r].phase = "remove" => req[r] \in Move
  BY DEF TypeOK, Requests, Creation, Move, Deletion, Drop, Addition

\* What a request or write touches are projects and companies.
LEMMA WorkType ==
  ASSUME TypeOK, NEW w \in Requests \cup Storing
  PROVE  Projects(w) \subseteq Project /\ Companies(w) \subseteq Company
  BY DEF Projects, Companies, Requests, Creation, Move, Deletion, Drop, Addition, Storing

LEMMA WorkSet == TypeOK => Work \subseteq Requests \cup Storing
  BY RequestType DEF Work, Active, TypeOK

\* Marking keeps the types of the marks.
LEMMA MarkType ==
  ASSUME TypeOK, NEW ws \in SUBSET (Requests \cup Storing), Mark(ws)
  PROVE  disturbed' \subseteq Project /\ shaken' \subseteq Company
  BY WorkType DEF Mark, TypeOK

LEMMA MarkRivalsType ==
  ASSUME TypeOK, NEW w \in Requests \cup Storing, MarkRivals(w)
  PROVE  disturbed' \subseteq Project /\ shaken' \subseteq Company
<1>1. Rivals(w) \cup {w} \subseteq Requests \cup Storing
  BY WorkSet DEF Rivals
<1> QED
  BY <1>1, MarkType DEF MarkRivals, TypeOK

\* A failure stays within its bound.
LEMMA FaultType == TypeOK /\ Fault => faults' \in 0 .. MaxFaults
  BY ConstantsAssumption DEF TypeOK

LEMMA ShakeType ==
  ASSUME TypeOK, NEW r \in Request, req[r] # Idle, Shake(r)
  PROVE  /\ faults' \in 0 .. MaxFaults
         /\ disturbed' \subseteq Project /\ shaken' \subseteq Company
<1>1. req[r] \in Requests
  BY RequestType
<1> QED
  BY <1>1, FaultType, MarkType DEF Shake

\* A request that starts.
LEMMA StartType ==
  ASSUME TypeOK, NEW r \in Request, NEW w \in Requests, Start(r, w)
  PROVE  TypeOK'
<1>1. disturbed' \subseteq Project /\ shaken' \subseteq Company
  BY MarkRivalsType DEF Start
<1>2. Projects(w) \subseteq Project
  BY WorkType
<1>3. w.kind = "delete" => w.project \in Project
  BY DEF Requests, Creation, Move, Deletion, Drop, Addition
<1>4. cleared' \subseteq Project
  BY <1>1, <1>2, <1>3 DEF Start, Clears, TypeOK
<1>5. requests' \in 0 .. MaxRequests
  BY ConstantsAssumption DEF Start, TypeOK
<1>6. req' \in [Request -> {Idle} \cup Requests]
  BY DEF Start, TypeOK, Requests
<1> QED
  BY <1>1, <1>4, <1>5, <1>6 DEF Start, TypeOK, Requests

\* A request that goes on.
LEMMA GoType ==
  ASSUME TypeOK, NEW r \in Request, NEW phase, Go(r, phase),
         \/ req[r] \in Creation /\ phase \in {"row", "node", "undo"}
         \/ req[r] \in Move /\ phase \in {"copy", "remove", "graph", "docs", "row"}
         \/ req[r] \in Deletion \cup Drop /\ phase \in {"points", "graph", "row"}
         \/ req[r] \in Addition
            /\ phase \in {"row", "node", "collection", "undo row", "undo both", "undo node"}
  PROVE  req' \in [Request -> {Idle} \cup Creation \cup Move \cup Deletion \cup Drop
                              \cup Addition]
<1> DEFINE w == [req[r] EXCEPT !.phase = phase]
<1>1. CASE req[r] \in Creation /\ phase \in {"row", "node", "undo"}
  BY <1>1 DEF TypeOK, Creation
<1>2. CASE req[r] \in Move /\ phase \in {"copy", "remove", "graph", "docs", "row"}
  BY <1>2 DEF TypeOK, Move
<1>3. CASE req[r] \in Deletion /\ phase \in {"points", "graph", "row"}
  BY <1>3 DEF TypeOK, Deletion
<1>4. CASE req[r] \in Drop /\ phase \in {"points", "graph", "row"}
  BY <1>4 DEF TypeOK, Drop
<1>5. CASE req[r] \in Addition
           /\ phase \in {"row", "node", "collection", "undo row", "undo both", "undo node"}
  BY <1>5 DEF TypeOK, Addition
<1> QED
  BY <1>1, <1>2, <1>3, <1>4, <1>5

LEMMA FinishType ==
  ASSUME TypeOK, NEW r \in Request, Finish(r)
  PROVE  req' \in [Request -> {Idle} \cup Creation \cup Move \cup Deletion \cup Drop
                              \cup Addition]
  BY DEF TypeOK

\* Creating, moving, deleting a project and a company keeps the types.
LEMMA CreateStepType ==
  ASSUME TypeOK, NEW r \in Request,
         CreateRow(r) \/ CreateNode(r) \/ NodeFails(r) \/ UndoCreate(r) \/ UndoFails(r)
  PROVE  TypeOK'
<1> USE DEF At, TypeOK
<1>1. req[r] # Idle /\ req[r] \in Creation /\ req[r].project \in Project /\ req[r].to \in Company
  <2>1. req[r] # Idle /\ req[r].kind = "create"
    BY DEF CreateRow, CreateNode, NodeFails, UndoCreate, UndoFails
  <2> QED
    BY <2>1, RequestType DEF Creation
<1>2. CASE CreateRow(r)
  <2>1. row' \in [Project -> Owner]
    BY <1>1, <1>2 DEF CreateRow
  <2> QED
    BY <1>1, <1>2, <2>1, GoType, FinishType DEF CreateRow
<1>3. CASE CreateNode(r)
  <2>1. <<req[r].project, 0>> \in Item
    BY <1>1, ConstantsAssumption
  <2>2. graph' \in [Item -> Owner]
    BY <1>1, <1>3, <2>1 DEF CreateNode
  <2>3. owns' \subseteq Company \X Project /\ root' \subseteq Company
    BY <1>1, <1>3 DEF CreateNode
  <2> QED
    BY <1>3, <2>2, <2>3, FinishType DEF CreateNode
<1>4. CASE NodeFails(r)
  BY <1>1, <1>4, GoType, FaultType DEF NodeFails
<1>5. CASE UndoCreate(r)
  <2>1. row' \in [Project -> Owner]
    BY <1>1, <1>5 DEF UndoCreate
  <2> QED
    BY <1>5, <2>1, FinishType DEF UndoCreate
<1>6. CASE UndoFails(r)
  BY <1>1, <1>6, ShakeType, FinishType DEF UndoFails
<1> QED
  BY <1>2, <1>3, <1>4, <1>5, <1>6

LEMMA TransferStepType ==
  ASSUME TypeOK, NEW r \in Request, TransferStep(r)
  PROVE  TypeOK'
<1> USE DEF At, TypeOK
<1>1. /\ req[r] # Idle /\ req[r] \in Move /\ req[r].project \in Project
      /\ req[r].from \in Company /\ req[r].to \in Company
  <2>1. req[r] # Idle /\ req[r].kind = "transfer"
    BY DEF TransferStep, CopyPoints, RemovePoints, MoveGraph, MoveDocs, MoveRow, RowRefused,
           CopyFails, MoveFails
  <2> QED
    BY <2>1, RequestType DEF Move
<1>2. CASE CopyPoints(r)
  <2>1. points' \in [Company -> SUBSET Item] /\ collections' \subseteq Company
    BY <1>1, <1>2 DEF CopyPoints, Leaving
  <2> QED
    BY <1>1, <1>2, <2>1, GoType DEF CopyPoints
<1>3. CASE RemovePoints(r)
  <2>1. points' \in [Company -> SUBSET Item]
    BY <1>1, <1>3 DEF RemovePoints, Leaving
  <2> QED
    BY <1>1, <1>3, <2>1, GoType DEF RemovePoints
<1>4. CASE MoveGraph(r)
  <2>1. graph' \in [Item -> Owner]
    BY <1>1, <1>4 DEF MoveGraph
  <2>2. owns' \subseteq Company \X Project /\ root' \subseteq Company
    BY <1>1, <1>4 DEF MoveGraph
  <2> QED
    BY <1>1, <1>4, <2>1, <2>2, GoType DEF MoveGraph
<1>5. CASE MoveDocs(r)
  <2>1. docs' \in [Project -> Owner]
    BY <1>1, <1>5 DEF MoveDocs
  <2> QED
    BY <1>1, <1>5, <2>1, GoType, FinishType DEF MoveDocs, AfterDocs
<1>6. CASE MoveRow(r)
  <2>1. row' \in [Project -> Owner]
    BY <1>1, <1>6 DEF MoveRow
  <2> QED
    BY <1>6, <2>1, FinishType DEF MoveRow
<1>7. CASE RowRefused(r)
  <2>1. Back(req[r]) \in Move
    BY <1>1 DEF Back, Move
  <2>2. faults' \in 0 .. MaxFaults
    BY <1>7, FaultType DEF RowRefused
  <2> QED
    BY <1>7, <2>1, <2>2 DEF RowRefused
<1>8. CASE CopyFails(r)
  <2>1. points' \in [Company -> SUBSET Item] /\ collections' \subseteq Company
    BY <1>1, <1>8 DEF CopyFails, Leaving
  <2>2. halved' \subseteq Project
    BY <1>1, <1>8 DEF CopyFails
  <2> QED
    BY <1>1, <1>8, <2>1, <2>2, GoType, FinishType, ShakeType DEF CopyFails, GoOn, Later
<1>9. CASE MoveFails(r)
  <2>1. halved' \subseteq Project
    BY <1>1, <1>9 DEF MoveFails, Halving
  <2>2. PICK phase \in {"copy", "remove", "graph", "docs"} : Shake(r) /\ GoOn(r, phase)
    BY <1>9 DEF MoveFails
  <2> QED
    BY <1>1, <1>9, <2>1, <2>2, GoType, FinishType, ShakeType DEF MoveFails, GoOn, Later
<1> QED
  BY <1>2, <1>3, <1>4, <1>5, <1>6, <1>7, <1>8, <1>9 DEF TransferStep

LEMMA DeletionStepType ==
  ASSUME TypeOK, NEW r \in Request, DeletionStep(r)
  PROVE  TypeOK'
<1> USE DEF At, TypeOK
<1>1. req[r] # Idle /\ req[r] \in Deletion \cup Drop
  <2>1. req[r] # Idle /\ req[r].kind \in {"delete", "drop company"}
    BY DEF DeletionStep, DeletePoints, DeleteGraph, DeleteRow, DropCollection, DropGraph,
           DropRow, DeletionFails
  <2> QED
    BY <2>1, RequestType
<1>2. CASE DeletePoints(r)
  <2>1. points' \in [Company -> SUBSET Item]
    BY <1>2 DEF DeletePoints
  <2> QED
    BY <1>1, <1>2, <2>1, GoType DEF DeletePoints
<1>3. CASE DeleteGraph(r)
  BY <1>1, <1>3, GoType DEF DeleteGraph
<1>4. CASE DeleteRow(r)
  BY <1>1, <1>4, FinishType DEF DeleteRow
<1>5. CASE DropCollection(r)
  <2>1. points' \in [Company -> SUBSET Item]
    BY <1>5 DEF DropCollection
  <2> QED
    BY <1>1, <1>5, <2>1, GoType DEF DropCollection
<1>6. CASE DropGraph(r)
  BY <1>1, <1>6, GoType DEF DropGraph
<1>7. CASE DropRow(r)
  BY <1>1, <1>7, FinishType DEF DropRow
<1>8. CASE DeletionFails(r)
  <2>1. Shake(r) /\ (Finish(r) \/ Go(r, "graph") \/ Go(r, "row"))
    BY <1>8 DEF DeletionFails
  <2> QED
    BY <1>1, <1>8, <2>1, GoType, FinishType, ShakeType DEF DeletionFails
<1> QED
  BY <1>2, <1>3, <1>4, <1>5, <1>6, <1>7, <1>8 DEF DeletionStep

LEMMA AddStepType ==
  ASSUME TypeOK, NEW r \in Request, AddStep(r)
  PROVE  TypeOK'
<1> USE DEF At, TypeOK
<1>1. req[r] # Idle /\ req[r] \in Addition /\ req[r].to \in Company
  <2>1. req[r] # Idle /\ req[r].kind = "add company"
    BY DEF AddStep, AddRow, AddNode, AddCollection, AddFails, UndoRow, UndoNode, AddAbandoned
  <2> QED
    BY <2>1, RequestType DEF Addition
<1>2. CASE AddRow(r)
  BY <1>1, <1>2, GoType DEF AddRow
<1>3. CASE AddNode(r)
  BY <1>1, <1>3, GoType DEF AddNode
<1>4. CASE AddCollection(r)
  BY <1>1, <1>4, FinishType DEF AddCollection
<1>5. CASE AddFails(r)
  BY <1>1, <1>5, GoType, FaultType DEF AddFails
<1>6. CASE UndoRow(r)
  <2>1. Finish(r) \/ Go(r, "undo node")
    BY <1>6 DEF UndoRow
  <2>2. row' \in [Project -> Owner] /\ companies' \subseteq Company
    BY <1>6 DEF UndoRow
  <2> QED
    BY <1>1, <1>6, <2>1, <2>2, GoType, FinishType DEF UndoRow
<1>7. CASE UndoNode(r)
  BY <1>7, FinishType DEF UndoNode
<1>8. CASE AddAbandoned(r)
  BY <1>1, <1>8, FinishType, ShakeType DEF AddAbandoned
<1> QED
  BY <1>2, <1>3, <1>4, <1>5, <1>6, <1>7, <1>8 DEF AddStep

\* So do a request that starts, a file that is stored and a crash.
LEMMA BeginType ==
  ASSUME TypeOK, NEW r \in Request, Begin(r)
  PROVE  TypeOK'
<1>1. ASSUME NEW p \in Project, Delete(r, p) PROVE TypeOK'
  BY <1>1, StartType DEF Delete, Requests, Deletion, TypeOK
<1>2. ASSUME NEW p \in Project, NEW c \in Company, Create(r, p, c) PROVE TypeOK'
  BY <1>2, StartType DEF Create, Requests, Creation
<1>3. ASSUME NEW p \in Project, NEW c \in Company, Transfer(r, p, c) PROVE TypeOK'
  BY <1>3, StartType DEF Transfer, Requests, Move, TypeOK
<1>4. ASSUME NEW c \in Company, AddCompany(r, c) PROVE TypeOK'
  BY <1>4, StartType DEF AddCompany, Requests, Addition
<1>5. ASSUME NEW c \in Company, DropCompany(r, c) PROVE TypeOK'
  BY <1>5, StartType DEF DropCompany, Requests, Drop
<1> QED
  BY <1>1, <1>2, <1>3, <1>4, <1>5 DEF Begin

LEMMA WriteType == TypeOK /\ Write => TypeOK'
<1> SUFFICES ASSUME TypeOK, Write PROVE TypeOK'
  OBVIOUS
<1>1. ASSUME NEW p \in Project, NEW n \in 1 .. Pieces, WriteBegins(p, n) PROVE TypeOK'
  <2> DEFINE w == [kind |-> "write", phase |-> "node", project |-> p, piece |-> n,
                   from |-> row[p], to |-> row[p]]
  <2>1. w \in Storing
    BY <1>1 DEF WriteBegins, Storing, TypeOK
  <2>2. disturbed' \subseteq Project /\ shaken' \subseteq Company
    BY <1>1, <2>1, MarkRivalsType DEF WriteBegins
  <2> QED
    BY <1>1, <2>1, <2>2 DEF WriteBegins, TypeOK
<1>2. ASSUME NEW w \in writes, WriteNode(w) \/ WritePoint(w) PROVE TypeOK'
  <2>1. w \in Storing /\ <<w.project, w.piece>> \in Item /\ w.to \in Company
    BY ConstantsAssumption DEF TypeOK, Storing
  <2>2. CASE WriteNode(w)
    <3>1. [w EXCEPT !.phase = "point"] \in Storing
      BY <2>1 DEF Storing
    <3>2. graph' \in [Item -> Owner]
      BY <2>1, <2>2 DEF WriteNode, TypeOK
    <3> QED
      BY <2>2, <3>1, <3>2 DEF WriteNode, TypeOK
  <2>3. CASE WritePoint(w)
    BY <2>1, <2>3 DEF WritePoint, TypeOK
  <2> QED
    BY <1>2, <2>2, <2>3
<1> QED
  BY <1>1, <1>2 DEF Write

LEMMA CrashType == TypeOK /\ Crash => TypeOK'
<1> SUFFICES ASSUME TypeOK, Crash PROVE TypeOK'
  OBVIOUS
<1>1. {req[r] : r \in Active} \subseteq Requests
  BY RequestType DEF Active
<1>2. disturbed' \subseteq Project /\ shaken' \subseteq Company
  BY <1>1, MarkType DEF Crash
<1>3. halved' \subseteq Project
  <2>1. \A r \in Active : req[r].phase = "remove" => req[r].project \in Project
    BY RequestType DEF Active, Move
  <2>2. Halving({req[r] : r \in Active}) \subseteq Project
    BY <2>1 DEF Halving
  <2> QED
    BY <2>2 DEF Crash, TypeOK
<1>4. req' \in [Request -> {Idle}] /\ faults' \in 0 .. MaxFaults
  BY FaultType DEF Crash
<1> QED
  BY <1>2, <1>3, <1>4 DEF Crash, TypeOK

\* Every step keeps every variable in its type.
LEMMA TypeStep == TypeOK /\ [Next]_vars => TypeOK'
<1> SUFFICES ASSUME TypeOK, [Next]_vars PROVE TypeOK'
  OBVIOUS
<1>1. CASE UNCHANGED vars
  BY <1>1 DEF TypeOK
<1> QED
  BY <1>1, CreateStepType, TransferStepType, DeletionStepType, AddStepType, BeginType,
     WriteType, CrashType DEF Next, Step, Rests

LEMMA TypeInit == Init => TypeOK
<1> SUFFICES ASSUME Init PROVE TypeOK
  OBVIOUS
<1>1. requests \in 0 .. MaxRequests /\ faults \in 0 .. MaxFaults
  BY ConstantsAssumption DEF Init
<1>2. Existing \subseteq Company /\ Home \in [Project -> Owner]
  BY ConstantsAssumption
<1> QED
  BY <1>1, <1>2 DEF Init, TypeOK

-----------------------------------------------------------------------------
\* A request only goes on while no other one is between copying and removing.
LEMMA NoneRemoves ==
  ASSUME TypeOK, NEW r \in Request, NEW kind, NEW phase, At(r, kind, phase),
         phase # "remove", NEW q \in Request
  PROVE  ~Removing(q)
<1>1. Removing(q) => q \in Active
  BY DEF Removing, Active, Move
<1> QED
  BY <1>1 DEF At, Removing

\* What a request may have become when it took a step but not to remove.
Steady(r) ==
    /\ \A q \in Request : q # r => req'[q] = req[q]
    /\ req'[r] \in Move => req'[r].from # req'[r].to /\ req'[r].phase # "remove"

LEMMA GoSteady ==
  ASSUME TypeOK, Apart, NEW r \in Request, req[r] # Idle, NEW phase, phase # "remove",
         Go(r, phase) \/ Finish(r)
  PROVE  Steady(r)
<1>1. CASE Finish(r)
  BY <1>1 DEF Steady, Move, TypeOK
<1>2. CASE Go(r, phase)
  <2>1. req'[r] = [req[r] EXCEPT !.phase = phase] /\ \A q \in Request : q # r => req'[q] = req[q]
    BY <1>2 DEF TypeOK
  <2>2. CASE req[r] \in Move
    BY <2>1, <2>2 DEF Steady, Apart, Move
  <2>3. CASE req[r] \in Creation \cup Deletion \cup Drop \cup Addition
    <3>1. req'[r].kind # "transfer"
      BY <2>1, <2>3 DEF Creation, Deletion, Drop, Addition
    <3> QED
      BY <2>1, <3>1 DEF Steady, Move
  <2> QED
    BY <2>2, <2>3, RequestType DEF Requests
<1> QED
  BY <1>1, <1>2

\* A step that only takes points away keeps them in one place.
LEMMA PlainStep ==
  ASSUME Kept, TypeOK', NEW r \in Request, Steady(r),
         \A q \in Request : ~Removing(q),
         \A c \in Company : points'[c] \subseteq points[c],
         halved \subseteq halved', UNCHANGED <<written, writes>>
  PROVE  Kept'
<1>1. \A q \in Request : ~Removing(q)'
  BY DEF Steady, Removing
<1>2. OneRemoves'
  BY <1>1 DEF OneRemoves
<1>3. Apart'
  BY DEF Kept, Orderly, Apart, Steady
<1>4. PointsWritten' /\ WritesNew'
  BY DEF Kept, PointsWritten, WritesNew
<1>5. OnePlace'
  BY DEF Kept, OnePlace, Between
<1> QED
  BY <1>2, <1>3, <1>4, <1>5 DEF Kept, Orderly

\* Creation, deletion and addition are such steps.
LEMMA CreateStepKeeps ==
  ASSUME Kept, NEW r \in Request,
         CreateRow(r) \/ CreateNode(r) \/ NodeFails(r) \/ UndoCreate(r) \/ UndoFails(r)
  PROVE  Kept'
<1> USE DEF CreateRow, CreateNode, NodeFails, UndoCreate, UndoFails
<1>1. TypeOK' /\ TypeOK /\ Apart
  BY CreateStepType DEF Kept, Orderly
<1>2. \E phase \in {"row", "node", "undo"} : At(r, "create", phase)
  OBVIOUS
<1>3. \A q \in Request : ~Removing(q)
  BY <1>1, <1>2, NoneRemoves
<1>4. req[r] # Idle /\ (Finish(r) \/ Go(r, "node") \/ Go(r, "undo"))
  BY DEF At
<1>5. Steady(r)
  BY <1>1, <1>4, GoSteady
<1> QED
  BY <1>1, <1>3, <1>5, PlainStep

LEMMA DeletionStepKeeps ==
  ASSUME Kept, NEW r \in Request, DeletionStep(r)
  PROVE  Kept'
<1>1. TypeOK' /\ TypeOK /\ Apart
  BY DeletionStepType DEF Kept, Orderly
<1>2. \E kind \in {"delete", "drop company"}, phase \in {"points", "graph", "row"} :
          At(r, kind, phase)
  BY DEF DeletionStep, DeletePoints, DeleteGraph, DeleteRow, DropCollection, DropGraph,
         DropRow, DeletionFails
<1>3. \A q \in Request : ~Removing(q)
  BY <1>1, <1>2, NoneRemoves
<1>4. req[r] # Idle /\ (Finish(r) \/ Go(r, "graph") \/ Go(r, "row"))
  BY DEF At, DeletionStep, DeletePoints, DeleteGraph, DeleteRow, DropCollection, DropGraph,
         DropRow, DeletionFails
<1>5. Steady(r)
  BY <1>1, <1>4, GoSteady
<1>6. \A c \in Company : points'[c] \subseteq points[c]
  <2>1. CASE UNCHANGED points
    BY <2>1
  <2>2. CASE DeletePoints(r) \/ DropCollection(r)
    <3>1. PICK d, S : points' = [points EXCEPT ![d] = @ \ S] \/ points' = [points EXCEPT ![d] = {}]
      BY <2>2 DEF DeletePoints, DropCollection
    <3>2. DOMAIN points = Company
      BY <1>1 DEF TypeOK
    <3> QED
      BY <3>1, <3>2
  <2>3. CASE DeleteGraph(r) \/ DeleteRow(r) \/ DropGraph(r) \/ DropRow(r) \/ DeletionFails(r)
    BY <2>1, <2>3 DEF DeleteGraph, DeleteRow, DropGraph, DropRow, DeletionFails
  <2> QED
    BY <2>2, <2>3 DEF DeletionStep
<1>7. halved' = halved /\ UNCHANGED <<written, writes>>
  BY DEF DeletionStep, DeletePoints, DeleteGraph, DeleteRow, DropCollection, DropGraph,
         DropRow, DeletionFails
<1> QED
  BY <1>1, <1>3, <1>5, <1>6, <1>7, PlainStep

LEMMA AddStepKeeps ==
  ASSUME Kept, NEW r \in Request, AddStep(r)
  PROVE  Kept'
<1>1. TypeOK' /\ TypeOK /\ Apart
  BY AddStepType DEF Kept, Orderly
<1>2. \E phase \in {"row", "node", "collection", "undo row", "undo both", "undo node"} :
          At(r, "add company", phase)
  BY DEF AddStep, AddRow, AddNode, AddCollection, AddFails, UndoRow, UndoNode,
         AddAbandoned
<1>3. \A q \in Request : ~Removing(q)
  BY <1>1, <1>2, NoneRemoves
<1>4. PICK phase \in {"node", "collection", "undo row", "undo both", "undo node"} :
        req[r] # Idle /\ (Finish(r) \/ Go(r, phase))
  BY DEF At, AddStep, AddRow, AddNode, AddCollection, AddFails, UndoRow, UndoNode,
         AddAbandoned
<1>5. Steady(r)
  <2>1. phase # "remove"
    OBVIOUS
  <2> QED
    BY <1>1, <1>4, <2>1, GoSteady
<1>6. UNCHANGED <<points, halved, written, writes>>
  BY DEF AddStep, AddRow, AddNode, AddCollection, AddFails, UndoRow, UndoNode,
         AddAbandoned
<1> QED
  BY <1>1, <1>3, <1>5, <1>6, PlainStep

-----------------------------------------------------------------------------
\* The steps of a transfer.
LEMMA TransferStepKeeps ==
  ASSUME Kept, NEW r \in Request, TransferStep(r)
  PROVE  Kept'
<1> DEFINE w == req[r]
<1>1. TypeOK' /\ TypeOK /\ Apart /\ OneRemoves
  BY TransferStepType DEF Kept, Orderly
<1>2. /\ w # Idle /\ w \in Move /\ w.from \in Company /\ w.to \in Company
      /\ w.from # w.to
  <2>1. w # Idle /\ w.kind = "transfer"
    BY DEF TransferStep, CopyPoints, RemovePoints, MoveGraph, MoveDocs, MoveRow, RowRefused,
           CopyFails, MoveFails, At
  <2> QED
    BY <1>1, <2>1, RequestType DEF Move, Apart
<1>3. CASE MoveGraph(r) \/ MoveDocs(r) \/ MoveRow(r)
  <2>1. \E phase \in {"graph", "docs", "row"} : At(r, "transfer", phase)
    BY <1>3 DEF MoveGraph, MoveDocs, MoveRow
  <2>2. \A q \in Request : ~Removing(q)
    BY <1>1, <2>1, NoneRemoves
  <2>3. Steady(r)
    BY <1>1, <1>2, <1>3, GoSteady DEF MoveGraph, MoveDocs, MoveRow, AfterDocs
  <2>4. UNCHANGED <<points, halved, written, writes>>
    BY <1>3 DEF MoveGraph, MoveDocs, MoveRow
  <2> QED
    BY <1>1, <2>2, <2>3, <2>4, PlainStep
<1>4. CASE RowRefused(r)
  <2>1. \A q \in Request : ~Removing(q)
    BY <1>1, <1>4, NoneRemoves DEF RowRefused
  <2>2. Steady(r)
    BY <1>1, <1>2, <1>4 DEF RowRefused, Back, Steady, Move, TypeOK
  <2>3. UNCHANGED <<points, halved, written, writes>>
    BY <1>4 DEF RowRefused
  <2> QED
    BY <1>1, <2>1, <2>2, <2>3, PlainStep
<1>5. CASE CopyPoints(r)
  <2>1. At(r, "transfer", "copy") /\ \A q \in Request : ~Removing(q)
    BY <1>1, <1>5, NoneRemoves DEF CopyPoints
  <2>2. CASE w.from \notin collections
    <3>1. Steady(r)
      BY <1>1, <1>2, <1>5, <2>2, GoSteady DEF CopyPoints
    <3>2. UNCHANGED <<points, halved, written, writes>>
      BY <1>5, <2>2 DEF CopyPoints
    <3> QED
      BY <1>1, <2>1, <3>1, <3>2, PlainStep
  <2>3. CASE w.from \in collections
    <3>1. /\ points' = [points EXCEPT ![w.to] = @ \cup Leaving(w)]
          /\ Go(r, "remove") /\ UNCHANGED <<halved, written, writes>>
      BY <1>5, <2>3 DEF CopyPoints
    <3>2. /\ req'[r] = [w EXCEPT !.phase = "remove"]
          /\ \A q \in Request \ {r} : req'[q] = req[q]
      BY <1>1, <3>1 DEF TypeOK
    <3>3. /\ Removing(r)' /\ req'[r].from = w.from /\ req'[r].to = w.to
          /\ req'[r].project = w.project
      BY <1>2, <3>2 DEF Removing, Move
    <3>4. Orderly'
      BY <1>1, <1>2, <2>1, <3>2, <3>3 DEF Orderly, Apart, OneRemoves, Removing
    <3>5. \A i \in Leaving(w) : i \in points[w.from] /\ i[1] = w.project
      BY DEF Leaving
    <3>6. PointsWritten' /\ WritesNew'
      BY <1>1, <1>2, <3>1, <3>5 DEF Kept, PointsWritten, WritesNew, TypeOK
    <3>7. ASSUME NEW i \in Item, NEW c \in Company, NEW d \in Company,
                 i \in points'[c], i \in points'[d], c # d, i[1] \notin halved'
          PROVE  Between(r, i, c, d)'
      <4>1. \A e \in Company : i \in points'[e] =>
                i \in points[e] \/ (e = w.to /\ i \in Leaving(w))
        BY <1>1, <3>1 DEF TypeOK
      <4>2. \A e, f \in Company : i \in points[e] /\ i \in points[f] => e = f
        BY <2>1, <3>1, <3>7 DEF Kept, OnePlace, Between
      <4>3. i[1] = w.project /\ {c, d} = {w.from, w.to}
        BY <1>2, <3>5, <3>7, <4>1, <4>2
      <4> QED
        BY <3>3, <4>3 DEF Between
    <3>8. OnePlace'
      BY <3>7 DEF OnePlace
    <3> QED
      BY <1>1, <3>4, <3>6, <3>8 DEF Kept
  <2> QED
    BY <2>2, <2>3
<1>6. CASE RemovePoints(r)
  <2>1. /\ Removing(r) /\ Go(r, "graph")
        /\ points' = [points EXCEPT ![w.from] = @ \ Leaving(w)]
        /\ UNCHANGED <<halved, written, writes>>
    BY <1>2, <1>6 DEF RemovePoints, At, Removing
  <2>2. Steady(r)
    BY <1>1, <1>2, <2>1, GoSteady
  <2>3. \A q \in Request : ~Removing(q)'
    BY <1>1, <2>1, <2>2 DEF Steady, OneRemoves, Removing
  <2>4. Orderly'
    BY <1>1, <2>2, <2>3 DEF Orderly, OneRemoves, Apart, Steady
  <2>5. \A c \in Company : points'[c] \subseteq points[c]
    BY <1>1, <2>1 DEF TypeOK
  <2>6. PointsWritten' /\ WritesNew'
    BY <2>1, <2>5 DEF Kept, PointsWritten, WritesNew
  <2>7. ASSUME NEW i \in Item, NEW c \in Company, NEW d \in Company,
               i \in points'[c], i \in points'[d], c # d
        PROVE  i[1] \in halved'
    <3>1. i \in points[c] /\ i \in points[d]
      BY <2>5, <2>7
    <3>2. ~Between(r, i, c, d)
      <4>1. i \notin Leaving(w) \/ (c # w.from /\ d # w.from)
        BY <1>1, <2>1, <2>7 DEF TypeOK
      <4> QED
        BY <2>7, <3>1, <4>1 DEF Between, Leaving
    <3>3. \A q \in Request : ~Between(q, i, c, d)
      BY <1>1, <2>1, <3>2 DEF Between, OneRemoves
    <3> QED
      BY <2>1, <2>7, <3>1, <3>3 DEF Kept, OnePlace
  <2>8. OnePlace'
    BY <2>7 DEF OnePlace
  <2> QED
    BY <1>1, <2>4, <2>6, <2>8 DEF Kept
<1>7. CASE CopyFails(r)
  <2>1. At(r, "transfer", "copy") /\ \A q \in Request : ~Removing(q)
    BY <1>1, <1>7, NoneRemoves DEF CopyFails
  <2>2. PICK part \in SUBSET Leaving(w) :
          /\ points' = [points EXCEPT ![w.to] = @ \cup part]
          /\ halved' = IF part = {} THEN halved ELSE halved \cup {w.project}
    BY <1>7 DEF CopyFails
  <2>3. Steady(r)
    BY <1>1, <1>2, <1>7, GoSteady DEF CopyFails, GoOn, Later
  <2>4. \A q \in Request : ~Removing(q)'
    BY <2>1, <2>3 DEF Steady, Removing
  <2>5. Orderly'
    BY <1>1, <2>3, <2>4 DEF Orderly, OneRemoves, Apart, Steady
  <2>6. UNCHANGED <<written, writes>>
    BY <1>7 DEF CopyFails
  <2>7. \A c \in Company, i \in Item : i \in points'[c] =>
            i \in points[c] \/ (i \in points[w.from] /\ i[1] \in halved')
    BY <1>1, <2>2 DEF TypeOK, Leaving
  <2>8. PointsWritten' /\ WritesNew'
    BY <1>1, <1>2, <2>6, <2>7 DEF Kept, PointsWritten, WritesNew, TypeOK
  <2>9. halved \subseteq halved'
    BY <2>2
  <2>10. OnePlace'
    BY <2>1, <2>7, <2>9 DEF Kept, OnePlace, Between
  <2> QED
    BY <1>1, <2>5, <2>8, <2>10 DEF Kept
<1>8. CASE MoveFails(r)
  <2>1. PICK phase \in {"copy", "remove", "graph", "docs"} :
          At(r, "transfer", phase) /\ GoOn(r, phase)
    BY <1>8 DEF MoveFails
  <2>2. /\ halved' = halved \cup Halving({w}) /\ UNCHANGED <<points, written, writes>>
    BY <1>8 DEF MoveFails
  <2>3. Steady(r)
    BY <1>1, <1>2, <2>1, GoSteady DEF GoOn, Later
  <2>4. CASE phase # "remove"
    <3>1. \A q \in Request : ~Removing(q)
      BY <1>1, <2>1, <2>4, NoneRemoves
    <3> QED
      BY <1>1, <2>2, <2>3, <3>1, PlainStep
  <2>5. CASE phase = "remove"
    <3>1. Removing(r) /\ w.project \in halved'
      BY <1>2, <2>1, <2>2, <2>5 DEF Removing, At, Halving
    <3>2. \A q \in Request : ~Removing(q)'
      BY <1>1, <2>3, <3>1 DEF Steady, OneRemoves, Removing
    <3>3. Orderly'
      BY <1>1, <2>3, <3>2 DEF Orderly, OneRemoves, Apart, Steady
    <3>4. PointsWritten' /\ WritesNew'
      BY <2>2 DEF Kept, PointsWritten, WritesNew
    <3>5. OnePlace'
      BY <1>1, <2>2, <3>1 DEF Kept, OnePlace, Between, OneRemoves
    <3> QED
      BY <1>1, <3>3, <3>4, <3>5 DEF Kept
  <2> QED
    BY <2>4, <2>5
<1> QED
  BY <1>3, <1>4, <1>5, <1>6, <1>7, <1>8 DEF TransferStep

-----------------------------------------------------------------------------
\* A request that starts leaves the others to their work.
LEMMA StartKeeps ==
  ASSUME Kept, TypeOK', NEW r \in Request, NEW w, Start(r, w), w.phase # "remove",
         w \in Move => w.from # w.to
  PROVE  Kept'
<1>1. /\ UNCHANGED <<points, halved, written, writes>>
      /\ req[r] = Idle /\ req'[r] = w /\ \A q \in Request \ {r} : req'[q] = req[q]
  BY DEF Start, Kept, TypeOK
<1>2. \A q \in Request : /\ Removing(q)' <=> Removing(q)
                         /\ Removing(q) => req'[q] = req[q]
  BY <1>1 DEF Removing, Move
<1>3. OneRemoves'
  BY <1>2 DEF Kept, Orderly, OneRemoves
<1>4. Apart'
  BY <1>1 DEF Kept, Orderly, Apart
<1>5. PointsWritten' /\ WritesNew'
  BY <1>1 DEF Kept, PointsWritten, WritesNew
<1>6. OnePlace'
  BY <1>1, <1>2 DEF Kept, OnePlace, Between
<1> QED
  BY <1>3, <1>4, <1>5, <1>6 DEF Kept, Orderly

LEMMA BeginKeeps ==
  ASSUME Kept, NEW r \in Request, Begin(r)
  PROVE  Kept'
<1>1. TypeOK'
  BY BeginType DEF Kept
<1>2. ASSUME NEW p \in Project, Delete(r, p) PROVE Kept'
  BY <1>1, <1>2, StartKeeps DEF Delete, Move
<1>3. ASSUME NEW p \in Project, NEW c \in Company, Create(r, p, c) PROVE Kept'
  BY <1>1, <1>3, StartKeeps DEF Create, Move
<1>4. ASSUME NEW p \in Project, NEW c \in Company, Transfer(r, p, c) PROVE Kept'
  BY <1>1, <1>4, StartKeeps DEF Transfer
<1>5. ASSUME NEW c \in Company, AddCompany(r, c) PROVE Kept'
  BY <1>1, <1>5, StartKeeps DEF AddCompany, Move
<1>6. ASSUME NEW c \in Company, DropCompany(r, c) PROVE Kept'
  BY <1>1, <1>6, StartKeeps DEF DropCompany, Move
<1> QED
  BY <1>2, <1>3, <1>4, <1>5, <1>6 DEF Begin

\* A file is stored where none of its points is yet.
LEMMA WriteKeeps == Kept /\ Write => Kept'
<1> SUFFICES ASSUME Kept, Write PROVE Kept'
  OBVIOUS
<1>1. TypeOK' /\ TypeOK
  BY WriteType DEF Kept
<1>2. req' = req
  BY DEF Write, WriteBegins, WriteNode, WritePoint
<1>3. Orderly'
  BY <1>2 DEF Kept, Orderly, Apart, OneRemoves, Removing
<1>4. ASSUME NEW p \in Project, NEW n \in 1 .. Pieces, WriteBegins(p, n) PROVE Kept'
  <2> DEFINE w == [kind |-> "write", phase |-> "node", project |-> p, piece |-> n,
                   from |-> row[p], to |-> row[p]]
  <2>1. /\ writes' = writes \cup {w} /\ <<p, n>> \notin written
        /\ ~\E v \in writes : v.project = p /\ v.piece = n
        /\ UNCHANGED <<points, halved, written>>
    BY <1>4 DEF WriteBegins
  <2>2. w.project = p /\ w.piece = n
    OBVIOUS
  <2> HIDE DEF w
  <2>3. WritesNew'
    BY <2>1, <2>2 DEF Kept, WritesNew
  <2>4. PointsWritten' /\ OnePlace'
    BY <1>2, <2>1 DEF Kept, PointsWritten, OnePlace, Between, Removing
  <2> QED
    BY <1>1, <1>3, <2>3, <2>4 DEF Kept
<1>5. ASSUME NEW w \in writes, WriteNode(w) PROVE Kept'
  <2> DEFINE v == [w EXCEPT !.phase = "point"]
  <2>1. writes' = (writes \ {w}) \cup {v} /\ UNCHANGED <<points, halved, written>>
    BY <1>5 DEF WriteNode
  <2>2. v.project = w.project /\ v.piece = w.piece
    BY <1>1 DEF TypeOK, Storing
  <2> HIDE DEF v
  <2>3. WritesNew'
    <3>1. \A x \in writes' : \E y \in writes :
              /\ y.project = x.project /\ y.piece = x.piece
              /\ \/ x = v /\ y = w
                 \/ x # v /\ y # w /\ x = y
      <4> TAKE x \in writes'
      <4>1. CASE x = v
        <5>1. w.project = x.project /\ w.piece = x.piece
          BY <2>2, <4>1
        <5> QED
          BY <4>1, <5>1
      <4>2. CASE x # v
        <5>1. x \in writes /\ x # w
          BY <2>1, <4>2
        <5> QED
          BY <4>2, <5>1
      <4> QED
        BY <4>1, <4>2
    <3>2. \A x \in writes' : <<x.project, x.piece>> \notin written'
      BY <2>1, <3>1 DEF Kept, WritesNew
    <3>3. ASSUME NEW x \in writes', NEW y \in writes',
                 x.project = y.project, x.piece = y.piece
          PROVE  x = y
      <4>1. PICK a \in writes : /\ a.project = x.project /\ a.piece = x.piece
                                /\ (x = v /\ a = w) \/ (a # w /\ x = a)
        BY <3>1
      <4>2. PICK b \in writes : /\ b.project = y.project /\ b.piece = y.piece
                                /\ (y = v /\ b = w) \/ (b # w /\ y = b)
        BY <3>1
      <4>3. a = b
        BY <3>3, <4>1, <4>2 DEF Kept, WritesNew
      <4> QED
        BY <4>1, <4>2, <4>3
    <3> QED
      BY <3>2, <3>3 DEF WritesNew
  <2>4. PointsWritten' /\ OnePlace'
    BY <1>2, <2>1 DEF Kept, PointsWritten, OnePlace, Between, Removing
  <2> QED
    BY <1>1, <1>3, <2>3, <2>4 DEF Kept
<1>6. ASSUME NEW w \in writes, WritePoint(w) PROVE Kept'
  <2> DEFINE i == <<w.project, w.piece>>
  <2>1. writes' = writes \ {w} /\ halved' = halved /\ i \notin written
    BY <1>6 DEF WritePoint, Kept, WritesNew
  <2>2. \/ UNCHANGED <<points, written>>
        \/ points' = [points EXCEPT ![w.to] = @ \cup {i}] /\ written' = written \cup {i}
    BY <1>6 DEF WritePoint
  <2>3. \A j \in written' \ written : j = i
    BY <2>2
  <2>4. WritesNew'
    BY <2>1, <2>3 DEF Kept, WritesNew
  <2>5. \A c \in Company : i \notin points[c]
    BY <2>1 DEF Kept, PointsWritten
  <2>6. \A c \in Company, j \in Item : j \in points'[c] =>
            j \in points[c] \/ (j = i /\ c = w.to /\ j \in written')
    BY <1>1, <2>2 DEF TypeOK
  <2>7. written \subseteq written'
    BY <2>2
  <2>8. PointsWritten'
    BY <1>1, <2>6, <2>7 DEF Kept, PointsWritten, TypeOK
  <2>9. \A j \in Item, c, d \in Company :
            j \in points'[c] /\ j \in points'[d] /\ c # d => j \in points[c] /\ j \in points[d]
    BY <2>5, <2>6
  <2>10. OnePlace'
    BY <1>2, <2>1, <2>9 DEF Kept, OnePlace, Between, Removing
  <2> QED
    BY <1>1, <1>3, <2>4, <2>8, <2>10 DEF Kept
<1> QED
  BY <1>4, <1>5, <1>6 DEF Write

\* A crash leaves no request, and puts down whose points were only copied.
LEMMA CrashKeeps == Kept /\ Crash => Kept'
<1> SUFFICES ASSUME Kept, Crash PROVE Kept'
  OBVIOUS
<1>1. TypeOK' /\ TypeOK
  BY CrashType DEF Kept
<1>2. /\ UNCHANGED <<points, written, writes>> /\ req' = [r \in Request |-> Idle]
      /\ halved' = halved \cup Halving({req[r] : r \in Active})
  BY DEF Crash
<1>3. \A r \in Request : req'[r] \notin Move
  BY <1>2 DEF Move
<1>4. Orderly' /\ PointsWritten' /\ WritesNew'
  BY <1>2, <1>3 DEF Kept, Orderly, Apart, OneRemoves, Removing, PointsWritten, WritesNew
<1>5. \A r \in Request : Removing(r) => req[r].project \in halved'
  BY <1>2 DEF Removing, Move, Halving, Active
<1>6. OnePlace'
  BY <1>2, <1>5 DEF Kept, OnePlace, Between
<1> QED
  BY <1>1, <1>4, <1>6 DEF Kept

\* Every step keeps the points in one place.
LEMMA KeptStep == Kept /\ [Next]_vars => Kept'
<1> SUFFICES ASSUME Kept, [Next]_vars PROVE Kept'
  OBVIOUS
<1>1. CASE UNCHANGED vars
  BY <1>1, TypeStep DEF Kept, Orderly, Apart, OneRemoves, Removing, PointsWritten, WritesNew,
     OnePlace, Between
<1>2. CASE Write
  BY <1>2, WriteKeeps
<1>3. CASE Crash
  BY <1>3, CrashKeeps
<1>4. ASSUME NEW r \in Request, Begin(r) \/ Step(r) PROVE Kept'
  BY <1>4, BeginKeeps, CreateStepKeeps, TransferStepKeeps, DeletionStepKeeps, AddStepKeeps
     DEF Step
<1> QED
  BY <1>1, <1>2, <1>3, <1>4 DEF Next, Rests

LEMMA KeptInit == Init => Kept
<1> SUFFICES ASSUME Init PROVE Kept
  OBVIOUS
<1>1. \A r \in Request : req[r] \notin Move
  BY DEF Init, Move
<1>2. Orderly
  BY <1>1 DEF Orderly, Apart, OneRemoves, Removing
<1>3. PointsWritten
  BY ConstantsAssumption DEF Init, PointsWritten
<1>4. WritesNew
  BY DEF Init, WritesNew
<1>5. OnePlace
  BY DEF Init, OnePlace
<1> QED
  BY TypeInit, <1>2, <1>3, <1>4, <1>5 DEF Kept

\* The invariant says what the property says.
LEMMA KeptMeans == Kept => PointsInOnePlace
<1> SUFFICES ASSUME Kept, NEW i \in Item,
                    i[1] \notin halved \cup Halving({req[r] : r \in Active})
             PROVE  Cardinality({c \in Company : i \in points[c]}) <= 1
  BY DEF PointsInOnePlace
<1> DEFINE Places == {c \in Company : i \in points[c]}
<1>1. \A r \in Request : Removing(r) => req[r].project # i[1]
  BY DEF Removing, Move, Halving, Active
<1>2. ASSUME NEW c \in Places, NEW d \in Places PROVE c = d
  <2>1. c \in Company /\ d \in Company /\ i \in points[c] /\ i \in points[d]
    BY <1>2
  <2>2. \A r \in Request : ~Between(r, i, c, d)
    BY <1>1 DEF Between
  <2> QED
    BY <2>1, <2>2 DEF Kept, OnePlace
<1> HIDE DEF Places
<1>3. ASSUME Places = {} PROVE Cardinality(Places) <= 1
  BY <1>3, FS_EmptySet
<1>4. ASSUME NEW c \in Places PROVE Cardinality(Places) <= 1
  <2>1. Places = {c}
    BY <1>2
  <2>2. Cardinality({c}) = 1
    BY FS_Singleton
  <2> QED
    BY <2>1, <2>2
<1> QED
  BY <1>3, <1>4 DEF Places

-----------------------------------------------------------------------------
(* Where the stores have a project and a company while requests are at work. *)

\* Requests about one project, and about one company.
Single(r) == req[r] \in Creation \cup Move \cup Deletion
Sweeping(r) == req[r] \in Drop \cup Addition
Serves(r, p) == Single(r) /\ req[r].project = p

\* Whoever met another one at work on the same project or company is marked.
Met ==
    \A r \in Request :
        /\ Single(r) => /\ \A q \in Request : q # r /\ Serves(q, req[r].project)
                                => req[r].project \in disturbed
                        /\ \A w \in writes : w.project = req[r].project
                                => w.project \in disturbed
        /\ Sweeping(r) => /\ \A q \in Request : Single(q) /\ req[r].to \in {req[q].from, req[q].to}
                                => req[q].project \in disturbed /\ req[r].to \in shaken
                          /\ \A q \in Request : q # r /\ Sweeping(q) /\ req[q].to = req[r].to
                                => req[r].to \in shaken
                          /\ \A w \in writes : w.to = req[r].to => w.project \in disturbed

\* A row names a company that is there, and so does a collection with points.
RowsFit == \A p \in Project : row[p] \in companies \cup {None}
PointsFit == \A c \in Company : points[c] # {} => c \in collections

\* The points pts of a project are in these collections at most.
Within(pts, p, C) == \A c \in Company \ C : \A i \in pts[c] : i[1] # p
\* The nodes g and edges o have a project in company c, or, for None, not at all.
InGraph(g, o, p, c) ==
    /\ g[<<p, 0>>] = c
    /\ \A i \in Item : i[1] = p => g[i] \in {None, c}
    /\ \A d \in Company : <<d, p>> \in o <=> d = c

\* A request that has come so far drops the company of p.
Dropped(p, phases) ==
    \E r \in Request : req[r] \in Drop /\ req[r].phase \in phases /\ req[r].to = row[p]

\* Where the stores have a project that no request serves.
Resting(p) ==
    /\ Within(points, p, IF Dropped(p, {"graph", "row"}) THEN {} ELSE {row[p]})
    /\ InGraph(graph, owns, p, IF Dropped(p, {"row"}) THEN None ELSE row[p])
    /\ row[p] # None => docs[p] \in {None, row[p]}

\* How far a request has brought its project.
Creating(w) == LET p == w.project IN
    /\ row[p] = IF w.phase = "row" THEN None ELSE w.to
    /\ Within(points, p, {}) /\ InGraph(graph, owns, p, None) /\ docs[p] = None
Moving(w) == LET p == w.project IN
    /\ row[p] = IF w.back THEN w.to ELSE w.from
    /\ w.phase = "row" => ~w.back
    /\ Within(points, p, CASE w.phase = "copy" -> {w.from}
                   [] w.phase = "remove" -> {w.from, w.to}
                   [] OTHER -> {w.to})
    /\ InGraph(graph, owns, p, IF w.phase \in {"docs", "row"} THEN w.to ELSE w.from)
    /\ docs[p] \in {None, IF w.phase = "row" THEN w.to ELSE w.from}
Deleting(w) == LET p == w.project IN
    /\ row[p] = w.from
    /\ Within(points, p, IF w.phase = "points" THEN {w.from} ELSE {})
    /\ InGraph(graph, owns, p, IF w.phase = "row" THEN None ELSE w.from)
Advanced(w) ==
    /\ w \in Creation => Creating(w)
    /\ w \in Move => Moving(w)
    /\ w \in Deletion => Deleting(w)

\* Where an unmarked project is: as far as its request has brought it, or at
\* rest.  A file is stored under the company of the row, and no company is being
\* added that already has a project.
Fits(p) ==
    /\ \A r \in Request : Serves(r, p) => Advanced(req[r])
    /\ (\A r \in Request : ~Serves(r, p)) => Resting(p)
    /\ \A w \in writes : w.project = p => w.to = row[p]
    /\ \A r \in Request : req[r] \in Addition => req[r].to # row[p]

ProjectsFit == \A p \in Project \ disturbed : Fits(p)

\* A project created later has no ingestion documents.
DocsFit == \A p \in Project : Home[p] = None => docs[p] = None

\* Where a company is, by what its request has done.
Stands(c, a, b, d) ==
    /\ (c \in companies) <=> a
    /\ (c \in root) <=> b
    /\ (c \in collections) <=> d
StandsFor(w, c) ==
    CASE w \in Drop -> Stands(c, TRUE, w.phase # "row", w.phase = "points")
      [] OTHER -> Stands(c, w.phase \notin {"row", "undo node"},
                         w.phase \in {"collection", "undo both", "undo node"}, FALSE)
\* A request is at work on company c.
Sweeps(r, c) == Sweeping(r) /\ req[r].to = c

\* Where an unmarked company is: as far as its request has come, in all three
\* stores or in none when there is no request; and no project comes to or goes
\* from a company that is not there.
CompanyFits(c) ==
    /\ \A r \in Request : Sweeps(r, c) => StandsFor(req[r], c)
    /\ (\A r \in Request : ~Sweeps(r, c)) =>
           Stands(c, c \in companies, c \in companies, c \in companies)
    /\ \A r \in Request : Single(r) /\ c \in {req[r].from, req[r].to} => c \in companies
CompaniesFit == \A c \in Company \ shaken : CompanyFits(c)

\* Who deletes a project was asked to.
ToldToDelete == \A r \in Request : req[r] \in Deletion => req[r].project \in cleared
\* What is about to be removed from one collection is in the other.
Copied ==
    \A r \in Request : Removing(r) =>
        \A i \in points[req[r].from] :
            i[1] = req[r].project => i \in points[req[r].to] \cup unseen
\* All that is, or may come, into the collection of company c was asked to be deleted.
Doomed(c) ==
    /\ \A i \in points[c] : i[1] \in cleared
    /\ \A p \in Project : row[p] = c => p \in cleared
    /\ \A r \in Request : Single(r) /\ c \in {req[r].from, req[r].to} => req[r].project \in cleared
    /\ \A w \in writes : w.to = c => w.project \in cleared
\* A collection is dropped when that is so.
ToldToDrop ==
    \A c \in Company :
        (\E r \in Request : req[r] \in Drop /\ req[r].phase = "points" /\ req[r].to = c)
            => Doomed(c)

-----------------------------------------------------------------------------
\* A request tells its kind, and keeps it while it goes on.
LEMMA Kinds ==
  ASSUME NEW v \in Requests
  PROVE  /\ v # Idle
         /\ v \in Creation <=> v.kind = "create"
         /\ v \in Move <=> v.kind = "transfer"
         /\ v \in Deletion <=> v.kind = "delete"
         /\ v \in Drop <=> v.kind = "drop company"
         /\ v \in Addition <=> v.kind = "add company"
         /\ v \in Creation \cup Move \cup Deletion => v.project \in Project
         /\ v \in Creation \cup Move \cup Drop \cup Addition => v.to \in Company
         /\ v \in Move \cup Deletion => v.from \in Company
         /\ v \in Creation => v.from = None
         /\ v \in Deletion => v.to = None
         /\ v \in Drop \cup Addition => v.from \in Company
<1>1. /\ \A u \in Creation : u.kind = "create"
      /\ \A u \in Move : u.kind = "transfer"
      /\ \A u \in Deletion : u.kind = "delete"
      /\ \A u \in Drop : u.kind = "drop company"
      /\ \A u \in Addition : u.kind = "add company"
  BY DEF Creation, Move, Deletion, Drop, Addition
<1>2. v \in Creation => v # Idle /\ v.project \in Project /\ v.to \in Company /\ v.from = None
  BY DEF Creation
<1>3. v \in Move => v # Idle /\ v.project \in Project /\ v.to \in Company /\ v.from \in Company
  BY DEF Move
<1>4. v \in Deletion => v # Idle /\ v.project \in Project /\ v.to = None /\ v.from \in Company
  BY DEF Deletion
<1>5. v \in Drop => v.phase # "idle" /\ v.to \in Company /\ v.from \in Company
  BY DEF Drop
<1>6. v \in Addition => v.phase # "idle" /\ v.to \in Company /\ v.from \in Company
  BY DEF Addition
<1>7. Idle.phase = "idle"
  OBVIOUS
<1> QED
  BY <1>1, <1>2, <1>3, <1>4, <1>5, <1>6, <1>7 DEF Requests

SameWork(v, w) ==
    /\ w.kind = v.kind
    /\ w.kind \in {"create", "transfer", "delete"} => w.project = v.project
    /\ w.kind \in {"drop company", "add company"} => w.to = v.to
    /\ {w.from, w.to} = {v.from, v.to}
Follows(r) ==
    /\ \A q \in Request : q # r => req'[q] = req[q]
    /\ req'[r] # Idle => SameWork(req[r], req'[r])

LEMMA GoFollows ==
  ASSUME TypeOK, NEW r \in Request, req[r] # Idle, NEW phase, Go(r, phase)
  PROVE  Follows(r) /\ req'[r] = [req[r] EXCEPT !.phase = phase]
<1>1. req'[r] = [req[r] EXCEPT !.phase = phase] /\ \A q \in Request : q # r => req'[q] = req[q]
  BY DEF TypeOK
<1>2. req[r] \in Requests
  BY RequestType
<1>3. SameWork(req[r], req'[r])
  <2> USE DEF Creation, Move, Deletion, Drop, Addition
  <2>1. CASE req[r] \in Creation \cup Move
    BY <1>1, <2>1 DEF SameWork
  <2>2. CASE req[r] \in Deletion
    BY <1>1, <2>2 DEF SameWork
  <2>3. CASE req[r] \in Drop
    BY <1>1, <2>3 DEF SameWork
  <2>4. CASE req[r] \in Addition
    BY <1>1, <2>4 DEF SameWork
  <2> QED
    BY <1>2, <2>1, <2>2, <2>3, <2>4 DEF Requests
<1> QED
  BY <1>1, <1>3 DEF Follows

LEMMA FinishFollows ==
  ASSUME TypeOK, NEW r \in Request, Finish(r)
  PROVE  Follows(r) /\ req'[r] = Idle
  BY DEF TypeOK, Follows

LEMMA StepFollows ==
  ASSUME TypeOK, NEW r \in Request, Step(r)
  PROVE  /\ Follows(r) /\ req[r] # Idle /\ writes' = writes
         /\ disturbed \subseteq disturbed' /\ shaken \subseteq shaken'
<1>1. CASE CreateRow(r) \/ CreateNode(r) \/ NodeFails(r) \/ UndoCreate(r) \/ UndoFails(r)
  <2>1. req[r] # Idle /\ (Finish(r) \/ Go(r, "node") \/ Go(r, "undo"))
    BY <1>1 DEF At, CreateRow, CreateNode, NodeFails, UndoCreate, UndoFails
  <2> QED
    BY <1>1, <2>1, GoFollows, FinishFollows
       DEF CreateRow, CreateNode, NodeFails, UndoCreate, UndoFails, Shake, Mark
<1>2. CASE RowRefused(r)
  <2>1. req[r] \in Move /\ req[r] # Idle
    BY <1>2, RequestType DEF RowRefused, At
  <2>2. SameWork(req[r], Back(req[r]))
    BY <2>1 DEF SameWork, Back, Move
  <2>3. req'[r] = Back(req[r]) /\ \A q \in Request : q # r => req'[q] = req[q]
    BY <1>2 DEF RowRefused, TypeOK
  <2> QED
    BY <1>2, <2>1, <2>2, <2>3 DEF RowRefused, Follows
<1>3. CASE TransferStep(r) /\ ~RowRefused(r)
  <2>1. req[r] # Idle /\ (Finish(r) \/ \E phase : Go(r, phase))
    BY <1>3 DEF At, TransferStep, CopyPoints, RemovePoints, MoveGraph, MoveDocs, MoveRow,
                CopyFails, MoveFails, AfterDocs, GoOn
  <2> QED
    BY <1>3, <2>1, GoFollows, FinishFollows
       DEF TransferStep, CopyPoints, RemovePoints, MoveGraph, MoveDocs, MoveRow,
           CopyFails, MoveFails, Shake, Mark
<1>4. CASE DeletionStep(r)
  <2>1. req[r] # Idle /\ (Finish(r) \/ Go(r, "graph") \/ Go(r, "row"))
    BY <1>4 DEF At, DeletionStep, DeletePoints, DeleteGraph, DeleteRow, DropCollection,
                DropGraph, DropRow, DeletionFails
  <2> QED
    BY <1>4, <2>1, GoFollows, FinishFollows
       DEF DeletionStep, DeletePoints, DeleteGraph, DeleteRow, DropCollection, DropGraph,
           DropRow, DeletionFails, Shake, Mark
<1>5. CASE AddStep(r)
  <2>1. req[r] # Idle /\ (Finish(r) \/ \E phase : Go(r, phase))
    BY <1>5 DEF At, AddStep, AddRow, AddNode, AddCollection, AddFails, UndoRow, UndoNode,
                AddAbandoned
  <2> QED
    BY <1>5, <2>1, GoFollows, FinishFollows
       DEF AddStep, AddRow, AddNode, AddCollection, AddFails, UndoRow, UndoNode,
           AddAbandoned, Shake, Mark
<1> QED
  BY <1>1, <1>2, <1>3, <1>4, <1>5 DEF Step

\* What the others are told apart by, when one goes on.
LEMMA FollowsKind ==
  ASSUME TypeOK, TypeOK', NEW r \in Request, req[r] # Idle, Follows(r), NEW q \in Request
  PROVE  /\ Single(q)' => /\ Single(q) /\ req'[q].project = req[q].project
                          /\ {req'[q].from, req'[q].to} = {req[q].from, req[q].to}
         /\ Sweeping(q)' => Sweeping(q) /\ req'[q].to = req[q].to
         /\ req'[q] \in Addition => req[q] \in Addition
         /\ req'[q] \in Drop => req[q] \in Drop
         /\ req'[q] \in Deletion => req[q] \in Deletion
<1>1. req[r] \in Requests /\ req'[q] \in {Idle} \cup Requests
  BY RequestType DEF TypeOK, Requests
<1>2. CASE q # r
  BY <1>2 DEF Follows, Single, Sweeping
<1>3. CASE q = r /\ req'[r] # Idle
  <2>1. SameWork(req[r], req'[r]) /\ req'[r] \in Requests
    BY <1>1, <1>3 DEF Follows
  <2> QED
    BY <1>1, <1>3, <2>1, Kinds DEF SameWork, Single, Sweeping
<1>4. CASE q = r /\ req'[r] = Idle
  BY <1>4, Kinds DEF Single, Sweeping, Requests
<1> QED
  BY <1>2, <1>3, <1>4

\* A step of a request meets nobody new.
LEMMA MetStep ==
  ASSUME TypeOK, TypeOK', Met, NEW r \in Request, Step(r)
  PROVE  Met'
<1>1. /\ Follows(r) /\ req[r] # Idle /\ writes' = writes
      /\ disturbed \subseteq disturbed' /\ shaken \subseteq shaken'
  BY StepFollows
<1>2. \A q \in Request :
        /\ Single(q)' => /\ Single(q) /\ req'[q].project = req[q].project
                         /\ {req'[q].from, req'[q].to} = {req[q].from, req[q].to}
        /\ Sweeping(q)' => Sweeping(q) /\ req'[q].to = req[q].to
  BY <1>1, FollowsKind
<1> QED
  BY <1>1, <1>2 DEF Met, Serves

\* What the marks are put on.
LEMMA WorkOf ==
  ASSUME TypeOK, NEW v \in Requests \cup Storing
  PROVE  /\ v \in Creation \cup Move \cup Deletion \cup Storing =>
                Projects(v) = {v.project} /\ ~Wide(v)
         /\ v \in Drop \cup Addition => Wide(v) /\ Projects(v) = {p \in Project : row[p] = v.to}
         /\ Companies(v) = {v.from, v.to} \ {None}
         /\ v \in Storing => v.to \in Company /\ v.project \in Project
<1>1. \A u \in Storing : u.kind = "write" /\ u.to \in Company /\ u.project \in Project
  BY DEF Storing
<1> QED
  BY <1>1, Kinds DEF Projects, Wide, Companies, Requests

LEMMA RivalsMarked ==
  ASSUME NEW w, MarkRivals(w)
  PROVE  /\ disturbed \subseteq disturbed' /\ shaken \subseteq shaken'
         /\ \A v \in Work : Collide(w, v) =>
                /\ Projects(w) \cup Projects(v) \subseteq disturbed'
                /\ Companies(w) \cup Companies(v) \subseteq shaken'
<1>1. CASE Rivals(w) = {}
  BY <1>1 DEF MarkRivals, Rivals
<1>2. CASE Rivals(w) # {}
  <2>1. Mark(Rivals(w) \cup {w})
    BY <1>2 DEF MarkRivals
  <2>2. /\ disturbed \subseteq disturbed' /\ shaken \subseteq shaken'
        /\ \A v \in Rivals(w) \cup {w} :
               Projects(v) \subseteq disturbed' /\ Companies(v) \subseteq shaken'
    BY <2>1 DEF Mark
  <2> QED
    BY <2>2 DEF Rivals
<1> QED
  BY <1>1, <1>2

\* Who is at work.
LEMMA AtWork ==
  ASSUME TypeOK
  PROVE  /\ \A q \in Request : Single(q) \/ Sweeping(q) => req[q] \in Work /\ req[q] \in Requests
         /\ writes \subseteq Work /\ writes \subseteq Storing
<1>1. \A q \in Request : Single(q) \/ Sweeping(q) => req[q] \in Requests
  BY DEF Single, Sweeping, Requests
<1>2. \A q \in Request : req[q] \in Requests => q \in Active
  BY Kinds DEF Active
<1>3. writes \subseteq Work /\ \A q \in Active : req[q] \in Work
  BY DEF Work
<1>4. writes \subseteq Storing
  BY DEF TypeOK
<1> QED
  BY <1>1, <1>2, <1>3, <1>4 DEF Active

\* A request about a company is at work on that company.
LEMMA SweepingWork ==
  ASSUME TypeOK, NEW q \in Request, Sweeping(q)
  PROVE  /\ req[q] \in Work /\ req[q] \in Requests /\ Wide(req[q])
         /\ req[q].to \in Companies(req[q]) /\ req[q].to # None /\ req[q].to \in Company
         /\ req[q] \in Drop => req[q].kind = "drop company"
<1>1. req[q] \in Work /\ req[q] \in Drop \cup Addition /\ req[q] \in Requests
  BY AtWork DEF Sweeping
<1>2. Wide(req[q]) /\ Companies(req[q]) = {req[q].from, req[q].to} \ {None}
  BY <1>1, WorkOf
<1>3. req[q].to \in Company /\ (req[q] \in Drop => req[q].kind = "drop company")
  BY <1>1, Kinds
<1> QED
  BY <1>1, <1>2, <1>3, ConstantsAssumption

\* What a new request or file meets, it marks.
LEMMA MetStart ==
  ASSUME TypeOK, TypeOK', Met, NEW r \in Request, NEW w \in Requests, Start(r, w)
  PROVE  Met'
<1>1. /\ req'[r] = w /\ \A q \in Request : q # r => req'[q] = req[q]
      /\ writes' = writes /\ MarkRivals(w)
  BY DEF Start, TypeOK
<1>2. /\ disturbed \subseteq disturbed' /\ shaken \subseteq shaken'
      /\ \A v \in Work : Collide(w, v) =>
            /\ Projects(w) \cup Projects(v) \subseteq disturbed'
            /\ Companies(w) \cup Companies(v) \subseteq shaken'
  BY <1>1, RivalsMarked
<1>3. \A v \in Requests \cup Storing : v.to # None /\ v \in Drop \cup Addition \cup Storing
                                         => v.to \in Companies(v)
  BY WorkOf
<1>4. ASSUME NEW q \in Request, q # r, Single(q)
      PROVE  /\ w \in Creation \cup Move \cup Deletion /\ req[q].project = w.project
                    => w.project \in disturbed'
             /\ w \in Drop \cup Addition /\ w.to \in {req[q].from, req[q].to}
                    => req[q].project \in disturbed' /\ w.to \in shaken'
  <2>1. req[q] \in Work /\ req[q] \in Creation \cup Move \cup Deletion /\ req[q] \in Requests
    BY <1>4, AtWork DEF Single
  <2>2. Projects(req[q]) = {req[q].project} /\ Companies(req[q]) = {req[q].from, req[q].to} \ {None}
    BY <2>1, WorkOf
  <2>3. ASSUME w \in Creation \cup Move \cup Deletion, req[q].project = w.project
        PROVE  w.project \in disturbed'
    <3>1. Projects(w) = {w.project}
      BY <2>3, WorkOf
    <3> QED
      BY <1>2, <2>1, <2>2, <2>3, <3>1 DEF Collide
  <2>4. ASSUME w \in Drop \cup Addition, w.to \in {req[q].from, req[q].to}
        PROVE  req[q].project \in disturbed' /\ w.to \in shaken'
    <3>1. Wide(w) /\ w.to \in Companies(w) /\ w.to # None
      BY <2>4, WorkOf, Kinds, ConstantsAssumption
    <3>2. Collide(w, req[q])
      BY <2>2, <2>4, <3>1 DEF Collide
    <3> QED
      BY <1>2, <2>1, <2>2, <3>1, <3>2
  <2> QED
    BY <2>3, <2>4
<1>5. ASSUME NEW q \in Request, q # r, Sweeping(q)
      PROVE  /\ w \in Creation \cup Move \cup Deletion /\ req[q].to \in {w.from, w.to}
                    => w.project \in disturbed' /\ req[q].to \in shaken'
             /\ w \in Drop \cup Addition /\ w.to = req[q].to => w.to \in shaken'
  <2>1. req[q] \in Work /\ req[q] \in Drop \cup Addition /\ req[q] \in Requests
    BY <1>5, AtWork DEF Sweeping
  <2>2. Wide(req[q]) /\ req[q].to \in Companies(req[q]) /\ req[q].to # None
    BY <2>1, WorkOf, Kinds, ConstantsAssumption
  <2>3. Companies(w) = {w.from, w.to} \ {None}
    BY WorkOf
  <2>4. req[q].to \in {w.from, w.to} => Collide(w, req[q])
    BY <2>2, <2>3 DEF Collide
  <2>5. w \in Creation \cup Move \cup Deletion => Projects(w) = {w.project}
    BY WorkOf
  <2> QED
    BY <1>2, <2>1, <2>2, <2>4, <2>5
<1>6. ASSUME NEW v \in writes
      PROVE  /\ w \in Creation \cup Move \cup Deletion /\ v.project = w.project
                    => v.project \in disturbed'
             /\ w \in Drop \cup Addition /\ v.to = w.to => v.project \in disturbed'
  <2>1. v \in Work /\ v \in Storing
    BY AtWork
  <2>2. Projects(v) = {v.project} /\ v.to \in Company /\ v.to \in Companies(v)
    BY <2>1, WorkOf, ConstantsAssumption
  <2>3. ASSUME w \in Creation \cup Move \cup Deletion, v.project = w.project
        PROVE  v.project \in disturbed'
    <3>1. Projects(w) = {w.project}
      BY <2>3, WorkOf
    <3> QED
      BY <1>2, <2>1, <2>2, <2>3, <3>1 DEF Collide
  <2>4. ASSUME w \in Drop \cup Addition, v.to = w.to
        PROVE  v.project \in disturbed'
    <3>1. Wide(w) /\ w.to \in Companies(w)
      BY <2>2, <2>4, WorkOf, ConstantsAssumption
    <3> QED
      BY <1>2, <2>1, <2>2, <2>4, <3>1 DEF Collide
  <2> QED
    BY <2>3, <2>4
<1>7. \A q \in Request : /\ Single(q)' <=> IF q = r THEN w \in Creation \cup Move \cup Deletion
                                                   ELSE Single(q)
                         /\ Sweeping(q)' <=> IF q = r THEN w \in Drop \cup Addition ELSE Sweeping(q)
  BY <1>1 DEF Single, Sweeping
<1>8. ASSUME NEW q \in Request, Single(q)'
      PROVE  /\ \A x \in Request : x # q /\ Serves(x, req[q].project)'
                    => req'[q].project \in disturbed'
             /\ \A v \in writes' : v.project = req'[q].project => v.project \in disturbed'
  BY <1>1, <1>2, <1>4, <1>6, <1>7, <1>8 DEF Met, Serves
<1>9. ASSUME NEW q \in Request, Sweeping(q)'
      PROVE  /\ \A x \in Request : Single(x)' /\ req'[q].to \in {req'[x].from, req'[x].to}
                    => req'[x].project \in disturbed' /\ req'[q].to \in shaken'
             /\ \A x \in Request : x # q /\ Sweeping(x)' /\ req'[x].to = req'[q].to
                    => req'[q].to \in shaken'
             /\ \A v \in writes' : v.to = req'[q].to => v.project \in disturbed'
  <2>1. ~(w \in Creation \cup Move \cup Deletion /\ w \in Drop \cup Addition)
    BY Kinds
  <2>2. CASE q = r
    BY <1>1, <1>2, <1>4, <1>5, <1>6, <1>7, <1>9, <2>1, <2>2 DEF Met
  <2>3. CASE q # r
    BY <1>1, <1>2, <1>5, <1>7, <1>9, <2>3 DEF Met
  <2> QED
    BY <2>2, <2>3
<1> QED
  BY <1>8, <1>9 DEF Met, Serves

LEMMA MetBegin ==
  ASSUME TypeOK, TypeOK', Met, NEW r \in Request, Begin(r)
  PROVE  Met'
<1>1. ASSUME NEW p \in Project, Delete(r, p) PROVE Met'
  BY <1>1, MetStart DEF Delete, Requests, Deletion, TypeOK
<1>2. ASSUME NEW p \in Project, NEW c \in Company, Create(r, p, c) PROVE Met'
  BY <1>2, MetStart DEF Create, Requests, Creation
<1>3. ASSUME NEW p \in Project, NEW c \in Company, Transfer(r, p, c) PROVE Met'
  BY <1>3, MetStart DEF Transfer, Requests, Move, TypeOK
<1>4. ASSUME NEW c \in Company, AddCompany(r, c) PROVE Met'
  BY <1>4, MetStart DEF AddCompany, Requests, Addition
<1>5. ASSUME NEW c \in Company, DropCompany(r, c) PROVE Met'
  BY <1>5, MetStart DEF DropCompany, Requests, Drop
<1> QED
  BY <1>1, <1>2, <1>3, <1>4, <1>5 DEF Begin

LEMMA MetWrite == TypeOK /\ Met /\ Write => Met'
<1> SUFFICES ASSUME TypeOK, Met, Write PROVE Met'
  OBVIOUS
<1>1. req' = req
  BY DEF Write, WriteBegins, WriteNode, WritePoint
<1>2. ASSUME NEW p \in Project, NEW n \in 1 .. Pieces, WriteBegins(p, n) PROVE Met'
  <2> DEFINE w == [kind |-> "write", phase |-> "node", project |-> p, piece |-> n,
                   from |-> row[p], to |-> row[p]]
  <2>1. w \in Storing /\ w.project = p /\ w.to = row[p]
    BY <1>2 DEF WriteBegins, Storing, TypeOK
  <2>2. writes' = writes \cup {w} /\ MarkRivals(w)
    BY <1>2 DEF WriteBegins
  <2> HIDE DEF w
  <2>3. /\ disturbed \subseteq disturbed' /\ shaken \subseteq shaken'
        /\ \A v \in Work : Collide(w, v) => Projects(w) \subseteq disturbed'
    BY <2>2, RivalsMarked
  <2>4. Projects(w) = {p} /\ w.to \in Companies(w)
    BY <2>1, WorkOf, ConstantsAssumption
  <2>5. ASSUME NEW q \in Request, Single(q), req[q].project = p PROVE p \in disturbed'
    <3>1. req[q] \in Work /\ Projects(req[q]) = {p}
      BY <2>5, AtWork, WorkOf DEF Single
    <3> QED
      BY <2>3, <2>4, <3>1 DEF Collide
  <2>6. ASSUME NEW q \in Request, Sweeping(q), req[q].to = w.to PROVE p \in disturbed'
    <3>1. req[q] \in Work /\ Wide(req[q]) /\ req[q].to \in Companies(req[q])
      BY <2>6, SweepingWork
    <3> QED
      BY <2>3, <2>4, <2>6, <3>1 DEF Collide
  <2> QED
    BY <1>1, <2>1, <2>2, <2>3, <2>5, <2>6 DEF Met, Single, Sweeping, Serves
<1>3. ASSUME NEW w \in writes, WriteNode(w) \/ WritePoint(w) PROVE Met'
  <2>1. marks' = marks
    BY <1>3 DEF WriteNode, WritePoint
  <2>2. \A v \in writes' : \E x \in writes : x.project = v.project /\ x.to = v.to
    <3>1. [w EXCEPT !.phase = "point"].project = w.project
      BY DEF TypeOK, Storing
    <3>2. [w EXCEPT !.phase = "point"].to = w.to
      BY DEF TypeOK, Storing
    <3> QED
      BY <1>3, <3>1, <3>2 DEF WriteNode, WritePoint
  <2> QED
    BY <1>1, <2>1, <2>2 DEF Met, Single, Sweeping, Serves
<1> QED
  BY <1>2, <1>3 DEF Write

LEMMA NoneAfterCrash ==
  ASSUME Crash
  PROVE  \A r \in Request : ~Single(r)' /\ ~Sweeping(r)' /\ req'[r] = Idle
  BY Kinds DEF Crash, Single, Sweeping, Requests

LEMMA MetNext == TypeOK /\ Met /\ [Next]_vars => Met'
<1> SUFFICES ASSUME TypeOK, Met, [Next]_vars PROVE Met'
  OBVIOUS
<1>1. TypeOK'
  BY TypeStep
<1>2. CASE UNCHANGED vars
  BY <1>2 DEF Met, Single, Sweeping, Serves
<1>3. CASE Write
  BY <1>3, MetWrite
<1>4. CASE Crash
  BY <1>4, NoneAfterCrash DEF Met
<1>5. ASSUME NEW r \in Request, Begin(r) \/ Step(r) PROVE Met'
  BY <1>1, <1>5, MetBegin, MetStep
<1> QED
  BY <1>2, <1>3, <1>4, <1>5 DEF Next, Rests

LEMMA NoneAtFirst == Init => \A r \in Request : ~Single(r) /\ ~Sweeping(r)
  BY Kinds DEF Init, Single, Sweeping, Requests

-----------------------------------------------------------------------------
\* Rows name companies that are there, collections with points are there, and
\* a new project has no documents of before.
Founded == RowsFit /\ PointsFit /\ DocsFit

LEMMA FoundedStep ==
  ASSUME TypeOK, Founded, NEW r \in Request, Step(r)
  PROVE  Founded'
<1>1. req[r] # Idle /\ req[r] \in Requests
  BY StepFollows, RequestType
<1>2. ASSUME UNCHANGED <<companies, row>> PROVE RowsFit'
  BY <1>2 DEF Founded, RowsFit
<1>3. ASSUME collections \subseteq collections', \A c \in Company : points'[c] \subseteq points[c]
      PROVE  PointsFit'
  BY <1>3 DEF Founded, PointsFit
<1>4. ASSUME docs' = docs PROVE DocsFit'
  BY <1>4 DEF Founded, DocsFit
<1>5. CASE CreateRow(r) \/ CreateNode(r) \/ NodeFails(r) \/ UndoCreate(r) \/ UndoFails(r)
  <2>1. RowsFit'
    BY <1>5 DEF CreateRow, CreateNode, NodeFails, UndoCreate, UndoFails, Founded, RowsFit, TypeOK
  <2> QED
    BY <1>3, <1>4, <1>5, <2>1
       DEF CreateRow, CreateNode, NodeFails, UndoCreate, UndoFails, Founded
<1>6. CASE TransferStep(r)
  <2>1. req[r] \in Move /\ req[r].from \in Company /\ req[r].to \in Company
    BY <1>6, <1>1, Kinds DEF TransferStep, CopyPoints, RemovePoints, MoveGraph, MoveDocs,
       MoveRow, RowRefused, CopyFails, MoveFails, At
  <2>2. RowsFit'
    BY <1>2, <1>6 DEF TransferStep, CopyPoints, RemovePoints, MoveGraph, MoveDocs,
       MoveRow, RowRefused, CopyFails, MoveFails, SourceMatches, Founded, RowsFit, TypeOK
  <2>3. PointsFit'
    <3>1. CASE CopyPoints(r) \/ CopyFails(r)
      <4>1. \/ UNCHANGED qdrant
            \/ /\ collections' = collections \cup {req[r].to}
               /\ \A c \in Company : c # req[r].to => points'[c] = points[c]
        BY <3>1 DEF CopyPoints, CopyFails, TypeOK
      <4> QED
        BY <4>1 DEF Founded, PointsFit
    <3>2. CASE RemovePoints(r)
      BY <1>3, <3>2 DEF RemovePoints, TypeOK
    <3> QED
      BY <1>3, <1>6, <3>1, <3>2 DEF TransferStep, MoveGraph, MoveDocs, MoveRow, RowRefused,
         MoveFails
  <2>4. DocsFit'
    <3>1. CASE MoveDocs(r)
      BY <2>1, <3>1, ConstantsAssumption DEF MoveDocs, Matched, Founded, DocsFit, TypeOK
    <3> QED
      BY <1>4, <1>6, <3>1 DEF TransferStep, CopyPoints, RemovePoints, MoveGraph, MoveRow,
         RowRefused, CopyFails, MoveFails
  <2> QED
    BY <2>2, <2>3, <2>4 DEF Founded
<1>7. CASE DeletionStep(r)
  <2>1. RowsFit'
    <3>1. CASE DeleteRow(r) \/ DropRow(r)
      BY <3>1 DEF DeleteRow, DropRow, Founded, RowsFit, TypeOK
    <3> QED
      BY <1>2, <1>7, <3>1 DEF DeletionStep, DeletePoints, DeleteGraph, DropCollection,
         DropGraph, DeletionFails
  <2>2. PointsFit'
    <3>1. CASE DropCollection(r)
      <4>1. /\ points'[req[r].to] = {} /\ collections' = collections \ {req[r].to}
            /\ \A c \in Company : c # req[r].to => points'[c] = points[c]
        <5>1. req[r].to \in Company
          BY <1>1, <3>1, Kinds DEF DropCollection, At
        <5> QED
          BY <3>1, <5>1 DEF DropCollection, TypeOK
      <4> QED
        BY <4>1 DEF Founded, PointsFit
    <3>2. CASE DeletePoints(r)
      BY <1>3, <3>2 DEF DeletePoints, TypeOK
    <3> QED
      BY <1>3, <1>7, <3>1, <3>2 DEF DeletionStep, DeleteGraph, DeleteRow, DropGraph, DropRow,
         DeletionFails
  <2>3. docs' = docs
    BY <1>7 DEF DeletionStep, DeletePoints, DeleteGraph, DeleteRow, DropCollection,
       DropGraph, DropRow, DeletionFails
  <2> QED
    BY <1>4, <2>1, <2>2, <2>3 DEF Founded
<1>8. CASE AddStep(r)
  <2>1. RowsFit'
    BY <1>2, <1>8 DEF AddStep, AddRow, AddNode, AddCollection, AddFails, UndoRow, UndoNode,
       AddAbandoned, Founded, RowsFit, TypeOK
  <2>2. collections \subseteq collections' /\ points' = points /\ docs' = docs
    BY <1>8 DEF AddStep, AddRow, AddNode, AddCollection, AddFails, UndoRow, UndoNode,
       AddAbandoned
  <2> QED
    BY <1>3, <1>4, <2>1, <2>2 DEF Founded
<1> QED
  BY <1>5, <1>6, <1>7, <1>8 DEF Step

LEMMA FoundedNext == TypeOK /\ Founded /\ [Next]_vars => Founded'
<1> SUFFICES ASSUME TypeOK, Founded, [Next]_vars PROVE Founded'
  OBVIOUS
<1>1. CASE UNCHANGED <<postgres, qdrant, docs>>
  BY <1>1 DEF Founded, RowsFit, PointsFit, DocsFit
<1>2. ASSUME NEW r \in Request, Step(r) PROVE Founded'
  BY <1>2, FoundedStep
<1>3. ASSUME NEW r \in Request, Begin(r) PROVE Founded'
  <2>1. \E w : Start(r, w)
    BY <1>3 DEF Begin, Delete, Create, Transfer, AddCompany, DropCompany
  <2> QED
    BY <1>1, <2>1 DEF Start
<1>4. ASSUME NEW p \in Project, NEW n \in 1 .. Pieces, WriteBegins(p, n) PROVE Founded'
  BY <1>1, <1>4 DEF WriteBegins
<1>5. ASSUME NEW w \in writes, WriteNode(w) PROVE Founded'
  BY <1>1, <1>5 DEF WriteNode
<1>6. ASSUME NEW w \in writes, WritePoint(w) PROVE Founded'
  <2>1. UNCHANGED <<postgres, docs, collections>>
    BY <1>6 DEF WritePoint
  <2>2. \A c \in Company : points'[c] = points[c] \/ c \in collections
    BY <1>6 DEF WritePoint, TypeOK
  <2> QED
    BY <2>1, <2>2 DEF Founded, RowsFit, PointsFit, DocsFit
<1> QED
  BY <1>1, <1>2, <1>3, <1>4, <1>5, <1>6 DEF Next, Write, Crash, Rests

LEMMA FoundedInit == Init => Founded
<1> SUFFICES ASSUME Init PROVE Founded
  OBVIOUS
<1>1. PointsFit
  BY ConstantsAssumption DEF Init, PointsFit
<1> QED
  BY <1>1, ConstantsAssumption DEF Init, Founded, RowsFit, DocsFit

-----------------------------------------------------------------------------
\* A project whose entries in the stores a step leaves alone.
Untouched(p) ==
    /\ row'[p] = row[p] /\ docs'[p] = docs[p]
    /\ \A c \in Company : \A i \in points'[c] : i[1] = p => i \in points[c]
    /\ \A i \in Item : i[1] = p => graph'[i] = graph[i]
    /\ \A c \in Company : <<c, p>> \in owns' <=> <<c, p>> \in owns

LEMMA NodeItem ==
  ASSUME NEW p \in Project
  PROVE  <<p, 0>> \in Item /\ <<p, 0>>[1] = p
  BY ConstantsAssumption

LEMMA UntouchedKeeps ==
  ASSUME NEW p \in Project, Untouched(p)
  PROVE  /\ \A C : Within(points, p, C) => Within(points', p, C)
         /\ \A c : InGraph(graph, owns, p, c) => InGraph(graph', owns', p, c)
<1>1. \A C : Within(points, p, C) => Within(points', p, C)
  BY DEF Untouched, Within
<1>2. \A c : InGraph(graph, owns, p, c) => InGraph(graph', owns', p, c)
  <2>1. graph'[<<p, 0>>] = graph[<<p, 0>>]
    BY NodeItem DEF Untouched
  <2> QED
    BY <2>1 DEF Untouched, InGraph
<1> QED
  BY <1>1, <1>2

LEMMA WithinMore ==
  ASSUME NEW pts, NEW p, NEW C, NEW D, Within(pts, p, C), C \subseteq D
  PROVE  Within(pts, p, D)
  BY DEF Within

\* Who serves an untouched project after a step of somebody else.
LEMMA AsideServes ==
  ASSUME TypeOK, TypeOK', NEW p \in Project, NEW r \in Request, Follows(r), req[r] # Idle,
         ~Serves(r, p), NEW q \in Request
  PROVE  /\ Serves(q, p)' <=> Serves(q, p)
         /\ Serves(q, p) => req'[q] = req[q]
<1>1. CASE q = r
  BY <1>1, FollowsKind DEF Serves
<1>2. CASE q # r
  BY <1>2 DEF Follows, Serves, Single
<1> QED
  BY <1>1, <1>2

LEMMA Aside ==
  ASSUME TypeOK, TypeOK', NEW p \in Project, Fits(p), Untouched(p),
         NEW r \in Request, Follows(r), req[r] # Idle, writes' = writes,
         ~Serves(r, p), req[r] \in Drop => req[r].to # row[p]
  PROVE  Fits(p)'
<1>1. \A q \in Request : /\ Serves(q, p)' <=> Serves(q, p)
                         /\ Serves(q, p) => req'[q] = req[q]
  BY AsideServes
<1>2. /\ \A C : Within(points, p, C) => Within(points', p, C)
      /\ \A c : InGraph(graph, owns, p, c) => InGraph(graph', owns', p, c)
      /\ row'[p] = row[p] /\ docs'[p] = docs[p]
  BY UntouchedKeeps DEF Untouched
<1>3. \A q \in Request : /\ req'[q] \in Addition => req[q] \in Addition /\ req'[q].to = req[q].to
                         /\ req'[q] \in Drop => req[q] \in Drop /\ req'[q].to = req[q].to
  BY FollowsKind DEF Sweeping
<1>4. \A q \in Request : req[q] \in Drop /\ req[q].to = row[p] => req'[q] = req[q]
  BY DEF Follows
<1>5. /\ Dropped(p, {"graph", "row"})' <=> Dropped(p, {"graph", "row"})
      /\ Dropped(p, {"row"})' <=> Dropped(p, {"row"})
  BY <1>2, <1>3, <1>4 DEF Dropped
<1>6. ASSUME NEW q \in Request, Serves(q, p)' PROVE Advanced(req[q])'
  <2>1. Serves(q, p) /\ Advanced(req[q]) /\ req'[q] = req[q] /\ req[q].project = p
    BY <1>1, <1>6 DEF Fits, Serves
  <2> QED
    BY <1>2, <2>1 DEF Advanced, Creating, Moving, Deleting
<1>7. ASSUME \A q \in Request : ~Serves(q, p)' PROVE Resting(p)'
  <2>1. Resting(p)
    BY <1>1, <1>7 DEF Fits
  <2> QED
    BY <1>2, <1>5, <2>1 DEF Resting
<1>8. \A w \in writes' : w.project = p => w.to = row'[p]
  BY <1>2 DEF Fits
<1>9. \A q \in Request : req'[q] \in Addition => req'[q].to # row'[p]
  BY <1>2, <1>3 DEF Fits
<1> QED
  BY <1>6, <1>7, <1>8, <1>9 DEF Fits

\* A project without a mark has one request and its companies to itself.
LEMMA ServedAlone ==
  ASSUME TypeOK, Met, NEW r \in Request, NEW p \in Project, Serves(r, p), p \notin disturbed
  PROVE  /\ \A q \in Request : q # r => ~Serves(q, p)
         /\ \A w \in writes : w.project # p
         /\ \A q \in Request : Sweeping(q) => /\ req[q].to \notin {req[r].from, req[r].to}
                                              /\ req[q].to \in Company
<1>1. \A q \in Request : Sweeping(q) => req[q].to \in Company
  BY Kinds DEF Sweeping, Requests
<1> QED
  BY <1>1 DEF Met, Serves

LEMMA OwnGoes ==
  ASSUME TypeOK, TypeOK', Met, NEW p \in Project, p \notin disturbed,
         NEW r \in Request, Serves(r, p), Follows(r), req[r] # Idle, req'[r] # Idle,
         writes' = writes, row'[p] \in {None, req[r].from, req[r].to}, Advanced(req[r])'
  PROVE  Fits(p)'
<1>1. /\ \A q \in Request : q # r => ~Serves(q, p) /\ req'[q] = req[q]
      /\ \A w \in writes : w.project # p
      /\ \A q \in Request : Sweeping(q) => req[q].to # row'[p]
  BY ServedAlone, ConstantsAssumption DEF Follows
<1>2. \A q \in Request : /\ Serves(q, p)' => q = r
                         /\ req'[q] \in Addition => Sweeping(q) /\ req'[q].to = req[q].to
  BY <1>1, FollowsKind DEF Serves, Single, Sweeping
<1>3. Serves(r, p)'
  <2>1. req[r] \in Requests /\ req'[r] \in Requests /\ SameWork(req[r], req'[r])
    BY RequestType DEF Follows, TypeOK, Requests
  <2> QED
    BY <2>1, Kinds DEF SameWork, Serves, Single
<1> QED
  BY <1>1, <1>2, <1>3 DEF Fits

LEMMA OwnEnds ==
  ASSUME TypeOK, TypeOK', Met, NEW p \in Project, p \notin disturbed,
         NEW r \in Request, Serves(r, p), Follows(r), req[r] # Idle, req'[r] = Idle,
         writes' = writes, row'[p] \in {None, req[r].from, req[r].to},
         Within(points', p, {row'[p]}), InGraph(graph', owns', p, row'[p]),
         row'[p] # None => docs'[p] \in {None, row'[p]}
  PROVE  Fits(p)'
<1>1. /\ \A q \in Request : q # r => ~Serves(q, p) /\ req'[q] = req[q]
      /\ \A w \in writes : w.project # p
      /\ \A q \in Request : Sweeping(q) => req[q].to # row'[p]
  BY ServedAlone, ConstantsAssumption DEF Follows
<1>2. \A q \in Request : /\ ~Serves(q, p)'
                         /\ Sweeping(q)' => Sweeping(q) /\ req'[q].to = req[q].to
  <2>1. \A q \in Request : Sweeping(q)' => Sweeping(q) /\ req'[q].to = req[q].to
    BY FollowsKind
  <2>2. ~Serves(r, p)'
    BY Kinds DEF Serves, Single, Requests
  <2>3. \A q \in Request : q # r => ~Serves(q, p)'
    BY <1>1 DEF Serves, Single
  <2> QED
    BY <2>1, <2>2, <2>3
<1>3. \A q \in Request : req'[q] \in Drop \cup Addition => req'[q].to # row'[p]
  BY <1>1, <1>2 DEF Sweeping
<1>4. ~Dropped(p, {"graph", "row"})' /\ ~Dropped(p, {"row"})'
  BY <1>3 DEF Dropped
<1>5. Resting(p)'
  BY <1>4 DEF Resting
<1> QED
  BY <1>1, <1>2, <1>3, <1>5 DEF Fits

\* A failure that nothing makes up for marks what its request was at work on.
LEMMA ShakeDisturbs ==
  ASSUME TypeOK, NEW r \in Request, req[r] # Idle, Shake(r)
  PROVE  Projects(req[r]) \subseteq disturbed' /\ Companies(req[r]) \subseteq shaken'
  BY DEF Shake, Mark

-----------------------------------------------------------------------------
\* The steps of a request leave other projects alone and bring their own on.
LEMMA CreateFits ==
  ASSUME TypeOK, TypeOK', Met, NEW r \in Request,
         CreateRow(r) \/ CreateNode(r) \/ NodeFails(r) \/ UndoCreate(r) \/ UndoFails(r),
         NEW p \in Project, p \notin disturbed', Fits(p)
  PROVE  Fits(p)'
<1> DEFINE w == req[r]
<1>1. /\ Follows(r) /\ w # Idle /\ writes' = writes /\ p \notin disturbed
  BY StepFollows DEF Step
<1>2. w \in Creation /\ w.project \in Project /\ w.to \in Company
  <2>1. w.kind = "create" /\ w \in Requests
    BY <1>1, RequestType DEF At, CreateRow, CreateNode, NodeFails, UndoCreate, UndoFails
  <2> QED
    BY <2>1, Kinds
<1>3. CASE p # w.project
  <2>1. Untouched(p)
    <3>1. row'[p] = row[p] /\ docs' = docs /\ points' = points
      BY <1>2, <1>3 DEF CreateRow, CreateNode, NodeFails, UndoCreate, UndoFails, TypeOK
    <3>2. \A i \in Item : i[1] = p => graph'[i] = graph[i]
      <4>1. graph' = graph \/ graph' = [graph EXCEPT ![<<w.project, 0>>] = w.to]
        BY DEF CreateRow, CreateNode, NodeFails, UndoCreate, UndoFails
      <4> QED
        BY <1>3, <4>1 DEF TypeOK
    <3>3. owns' = owns \/ owns' = owns \cup {<<w.to, w.project>>}
      BY DEF CreateRow, CreateNode, NodeFails, UndoCreate, UndoFails
    <3> QED
      BY <1>3, <3>1, <3>2, <3>3 DEF Untouched
  <2>2. ~Serves(r, p) /\ req[r] \notin Drop
    BY <1>1, <1>2, <1>3, Kinds, RequestType DEF Serves
  <2> QED
    BY <1>1, <2>1, <2>2, Aside
<1>4. CASE p = w.project
  <2>1. Serves(r, p) /\ Creating(w)
    BY <1>2, <1>4 DEF Serves, Single, Fits, Advanced
  <2>2. w.phase \in {"row", "node", "undo"} /\ w \notin Move /\ w \notin Deletion
    BY <1>2, Kinds DEF Creation, Requests
  <2>3. /\ Within(points, p, {}) /\ InGraph(graph, owns, p, None) /\ docs[p] = None
        /\ row[p] = IF w.phase = "row" THEN None ELSE w.to
    BY <1>4, <2>1 DEF Creating
  <2>4. CASE (CreateRow(r) /\ w.to \in companies) \/ NodeFails(r)
    <3>1. \E phase \in {"node", "undo"} : Go(r, phase)
      BY <2>4 DEF CreateRow, NodeFails
    <3>2. PICK phase \in {"node", "undo"} : req'[r] = [w EXCEPT !.phase = phase]
      BY <1>1, <3>1, GoFollows
    <3>3. /\ req'[r] \in Creation /\ req'[r].project = p /\ req'[r].to = w.to
          /\ req'[r].phase # "row"
      BY <1>2, <1>4, <3>2 DEF Creation
    <3>4. row'[p] = w.to /\ UNCHANGED <<graph, owns, points, docs>>
      BY <1>4, <2>3, <2>4 DEF CreateRow, NodeFails, At, TypeOK
    <3>5. req'[r] \notin Move \cup Deletion /\ req'[r] # Idle
      BY <3>3, Kinds DEF Requests
    <3>6. Advanced(req[r])'
      BY <2>3, <3>3, <3>4, <3>5 DEF Advanced, Creating
    <3> QED
      BY <1>1, <2>1, <3>4, <3>5, <3>6, OwnGoes
  <2>5. CASE (CreateRow(r) /\ w.to \notin companies) \/ UndoCreate(r)
    <3>1. row'[p] = None /\ UNCHANGED <<graph, owns, points, docs>>
      BY <1>4, <2>3, <2>5 DEF CreateRow, UndoCreate, At, TypeOK
    <3>2. Within(points', p, {row'[p]}) /\ InGraph(graph', owns', p, row'[p])
      BY <2>3, <3>1, WithinMore
    <3>3. req'[r] = Idle
      BY <2>5, FinishFollows DEF CreateRow, UndoCreate
    <3> QED
      BY <1>1, <2>1, <3>1, <3>2, <3>3, OwnEnds
  <2>6. ~UndoFails(r)
    <3>1. w \in Requests /\ p \in Projects(w)
      BY <1>2, <1>4, WorkOf DEF Requests
    <3> QED
      BY <1>1, <3>1, ShakeDisturbs DEF UndoFails
  <2>7. CASE CreateNode(r)
    <3>1. /\ graph' = [graph EXCEPT ![<<p, 0>>] = w.to] /\ owns' = owns \cup {<<w.to, p>>}
          /\ UNCHANGED <<row, points, docs>> /\ req'[r] = Idle /\ row[p] = w.to
      BY <1>4, <2>3, <2>7, FinishFollows DEF CreateNode, At
    <3>2. InGraph(graph', owns', p, w.to)
      BY <1>2, <2>3, <3>1, NodeItem, ConstantsAssumption DEF InGraph, TypeOK
    <3>3. Within(points', p, {row'[p]})
      BY <2>3, <3>1, WithinMore
    <3> QED
      BY <1>1, <2>1, <2>3, <3>1, <3>2, <3>3, OwnEnds
  <2> QED
    BY <2>4, <2>5, <2>7, <2>6
<1> QED
  BY <1>3, <1>4

LEMMA TransferElsewhere ==
  ASSUME TypeOK, NEW r \in Request, TransferStep(r), req[r] \in Move,
         NEW p \in Project, p # req[r].project
  PROVE  Untouched(p)
<1> DEFINE w == req[r]
<1>1. row'[p] = row[p] /\ docs'[p] = docs[p]
  BY DEF TransferStep, CopyPoints, RemovePoints, MoveGraph, MoveDocs, MoveRow, RowRefused,
         CopyFails, MoveFails, TypeOK
<1>2. \A c \in Company : \A i \in points'[c] : i[1] = p => i \in points[c]
  <2>1. \/ points' = points
        \/ points' = [points EXCEPT ![w.from] = @ \ Leaving(w)]
        \/ \E part \in SUBSET Leaving(w) : points' = [points EXCEPT ![w.to] = @ \cup part]
    BY DEF TransferStep, CopyPoints, RemovePoints, MoveGraph, MoveDocs, MoveRow, RowRefused,
           CopyFails, MoveFails
  <2> QED
    BY <2>1 DEF Leaving, TypeOK
<1>3. \A i \in Item : i[1] = p => graph'[i] = graph[i]
  BY DEF TransferStep, CopyPoints, RemovePoints, MoveGraph, MoveDocs, MoveRow, RowRefused,
         CopyFails, MoveFails
<1>4. \A c \in Company : <<c, p>> \in owns' <=> <<c, p>> \in owns
  BY DEF TransferStep, CopyPoints, RemovePoints, MoveGraph, MoveDocs, MoveRow, RowRefused,
         CopyFails, MoveFails
<1> QED
  BY <1>1, <1>2, <1>3, <1>4 DEF Untouched

\* A request that moves a project and goes on.
LEMMA MovesOn ==
  ASSUME NEW r \in Request, NEW phase, NEW p, req[r] \in Move, req[r].project = p,
         req'[r] = [req[r] EXCEPT !.phase = phase],
         phase \in {"remove", "graph", "docs", "row"},
         row'[p] = IF req[r].back THEN req[r].to ELSE req[r].from,
         phase = "row" => ~req[r].back,
         Within(points', p, IF phase = "remove" THEN {req[r].from, req[r].to} ELSE {req[r].to}),
         InGraph(graph', owns', p, IF phase \in {"docs", "row"} THEN req[r].to ELSE req[r].from),
         docs'[p] \in {None, IF phase = "row" THEN req[r].to ELSE req[r].from}
  PROVE  Advanced(req[r])' /\ req'[r] # Idle
<1>1. /\ req'[r] \in Move /\ req'[r].phase = phase /\ req'[r].project = p
      /\ req'[r].from = req[r].from /\ req'[r].to = req[r].to /\ req'[r].back = req[r].back
  BY DEF Move
<1>2. req'[r] \notin Creation \cup Deletion /\ req'[r] # Idle
  BY <1>1, Kinds DEF Requests
<1> QED
  BY <1>1, <1>2 DEF Advanced, Moving

LEMMA TransferFits ==
  ASSUME TypeOK, TypeOK', Met, Founded, Apart, NEW r \in Request, TransferStep(r),
         NEW p \in Project, p \notin disturbed', Fits(p)
  PROVE  Fits(p)'
<1> DEFINE w == req[r]
<1>1. /\ Follows(r) /\ w # Idle /\ writes' = writes /\ p \notin disturbed
  BY StepFollows DEF Step
<1>2. /\ w \in Move /\ w.project \in Project /\ w.to \in Company /\ w.from \in Company
      /\ w \in Requests /\ w.from # w.to /\ w \notin Creation \cup Deletion \cup Drop
  <2>1. w.kind = "transfer" /\ w \in Requests
    BY <1>1, RequestType DEF At, TransferStep, CopyPoints, RemovePoints, MoveGraph, MoveDocs,
       MoveRow, RowRefused, CopyFails, MoveFails
  <2> QED
    BY <2>1, Kinds DEF Apart
<1>3. CASE p # w.project
  <2>1. ~Serves(r, p)
    BY <1>3 DEF Serves
  <2> QED
    BY <1>1, <1>2, <1>3, <2>1, TransferElsewhere, Aside
<1>4. CASE p = w.project
  <2>1. Serves(r, p) /\ Moving(w)
    BY <1>2, <1>4 DEF Serves, Single, Fits, Advanced
  <2>2. /\ row[p] = IF w.back THEN w.to ELSE w.from
        /\ w.phase = "row" => ~w.back
        /\ w.phase = "copy" => Within(points, p, {w.from})
        /\ w.phase = "remove" => Within(points, p, {w.from, w.to})
        /\ w.phase \in {"graph", "docs", "row"} => Within(points, p, {w.to})
        /\ w.phase \in {"copy", "remove", "graph"} => InGraph(graph, owns, p, w.from)
        /\ w.phase \in {"docs", "row"} => InGraph(graph, owns, p, w.to)
        /\ docs[p] \in {None, IF w.phase = "row" THEN w.to ELSE w.from}
    BY <1>4, <2>1 DEF Moving
  <2>3. CASE CopyPoints(r)
    <3>1. w.phase = "copy" /\ UNCHANGED <<row, graph, owns, docs>>
      BY <2>3 DEF CopyPoints, At
    <3>2. CASE w.from \in collections
      <4>1. /\ points' = [points EXCEPT ![w.to] = @ \cup Leaving(w)]
            /\ req'[r] = [w EXCEPT !.phase = "remove"]
        BY <1>1, <2>3, <3>2, GoFollows DEF CopyPoints
      <4>2. Within(points', p, {w.from, w.to})
        BY <2>2, <3>1, <4>1 DEF Within, TypeOK
      <4>3. Advanced(req[r])' /\ req'[r] # Idle
        BY <1>2, <1>4, <2>2, <3>1, <4>1, <4>2, MovesOn
      <4> QED
        BY <1>1, <2>1, <2>2, <3>1, <4>3, OwnGoes
    <3>3. CASE w.from \notin collections
      <4>1. points' = points /\ req'[r] = [w EXCEPT !.phase = "graph"] /\ points[w.from] = {}
        BY <1>1, <1>2, <2>3, <3>3, GoFollows DEF CopyPoints, Founded, PointsFit
      <4>2. Within(points', p, {w.to})
        BY <2>2, <3>1, <4>1 DEF Within
      <4>3. Advanced(req[r])' /\ req'[r] # Idle
        BY <1>2, <1>4, <2>2, <3>1, <4>1, <4>2, MovesOn
      <4> QED
        BY <1>1, <2>1, <2>2, <3>1, <4>3, OwnGoes
    <3> QED
      BY <3>2, <3>3
  <2>4. CASE RemovePoints(r)
    <3>1. /\ w.phase = "remove" /\ UNCHANGED <<row, graph, owns, docs>>
          /\ points' = [points EXCEPT ![w.from] = @ \ Leaving(w)]
          /\ req'[r] = [w EXCEPT !.phase = "graph"]
      BY <1>1, <2>4, GoFollows DEF RemovePoints, At
    <3>2. Within(points', p, {w.to})
      BY <1>2, <1>4, <2>2, <3>1 DEF Within, Leaving, TypeOK
    <3>3. Advanced(req[r])' /\ req'[r] # Idle
      BY <1>2, <1>4, <2>2, <3>1, <3>2, MovesOn
    <3> QED
      BY <1>1, <2>1, <2>2, <3>1, <3>3, OwnGoes
  <2>5. CASE MoveGraph(r)
    <3>1. /\ w.phase = "graph" /\ UNCHANGED <<row, points, docs>>
          /\ req'[r] = [w EXCEPT !.phase = "docs"]
      BY <1>1, <2>5, GoFollows DEF MoveGraph, At
    <3>2. <<w.from, p>> \in owns /\ \A d \in Company : <<d, p>> \in owns => d = w.from
      BY <1>2, <2>2, <3>1 DEF InGraph
    <3>3. owns' = (owns \ {<<w.from, p>>}) \cup {<<w.to, p>>}
      BY <1>4, <2>5, <3>2 DEF MoveGraph
    <3>4. /\ graph'[<<p, 0>>] = w.to
          /\ \A i \in Item : i[1] = p => graph'[i] \in {None, w.to}
      BY <1>2, <1>4, <2>2, <2>5, <3>1, NodeItem, ConstantsAssumption DEF MoveGraph, InGraph
    <3>5. InGraph(graph', owns', p, w.to)
      BY <1>2, <3>2, <3>3, <3>4 DEF InGraph
    <3>6. Advanced(req[r])' /\ req'[r] # Idle
      BY <1>2, <1>4, <2>2, <3>1, <3>5, MovesOn
    <3> QED
      BY <1>1, <2>1, <2>2, <3>1, <3>6, OwnGoes
  <2>6. CASE MoveDocs(r)
    <3>1. /\ w.phase = "docs" /\ UNCHANGED <<row, points, graph, owns>>
          /\ docs'[p] \in {None, w.to}
      BY <1>2, <1>4, <2>2, <2>6 DEF MoveDocs, Matched, At, TypeOK
    <3>2. CASE w.back
      <4>1. req'[r] = Idle
        BY <2>6, <3>2, FinishFollows DEF MoveDocs, AfterDocs
      <4> QED
        BY <1>1, <2>1, <2>2, <3>1, <3>2, <4>1, OwnEnds
    <3>3. CASE ~w.back
      <4>1. req'[r] = [w EXCEPT !.phase = "row"]
        BY <1>1, <2>6, <3>3, GoFollows DEF MoveDocs, AfterDocs
      <4>2. Advanced(req[r])' /\ req'[r] # Idle
        BY <1>2, <1>4, <2>2, <3>1, <3>3, <4>1, MovesOn
      <4> QED
        BY <1>1, <2>1, <2>2, <3>1, <4>2, OwnGoes
    <3> QED
      BY <3>2, <3>3
  <2>7. CASE MoveRow(r)
    <3>1. /\ w.phase = "row" /\ UNCHANGED <<points, graph, owns, docs>>
          /\ row'[p] = w.to /\ req'[r] = Idle
      BY <1>4, <2>7, FinishFollows DEF MoveRow, At, TypeOK
    <3> QED
      BY <1>1, <2>1, <2>2, <3>1, OwnEnds
  <2>8. CASE RowRefused(r)
    <3>1. /\ w.phase = "row" /\ UNCHANGED <<row, points, graph, owns, docs>>
          /\ req'[r] = Back(w)
      BY <2>8 DEF RowRefused, At, TypeOK
    <3>2. /\ Back(w) \in Move /\ Back(w).project = p /\ Back(w).from = w.to
          /\ Back(w).to = w.from /\ Back(w).back = TRUE /\ Back(w).phase = "copy"
      BY <1>2, <1>4 DEF Back, Move
    <3>3. req'[r] \notin Creation \cup Deletion /\ req'[r] # Idle
      BY <3>1, <3>2, Kinds DEF Requests
    <3>4. Advanced(req[r])'
      BY <2>2, <3>1, <3>2, <3>3 DEF Advanced, Moving
    <3> QED
      BY <1>1, <2>1, <2>2, <3>1, <3>3, <3>4, OwnGoes
  <2>9. ~CopyFails(r) /\ ~MoveFails(r)
    <3>1. p \in Projects(w)
      BY <1>2, <1>4, WorkOf
    <3> QED
      BY <1>1, <3>1, ShakeDisturbs DEF CopyFails, MoveFails
  <2> QED
    BY <2>3, <2>4, <2>5, <2>6, <2>7, <2>8, <2>9 DEF TransferStep
<1> QED
  BY <1>3, <1>4

-----------------------------------------------------------------------------
\* A request about a company finds none of its projects served, and nothing of
\* a project of another company.
LEMMA SweptServes ==
  ASSUME TypeOK, Met, NEW r \in Request, Sweeping(r), NEW p \in Project, p \notin disturbed,
         Fits(p), NEW q \in Request, Serves(q, p)
  PROVE  /\ row[p] # req[r].to /\ req[r].to \notin {req[q].from, req[q].to}
         /\ req[r].to \in Company
<1>1. req[r].to \notin {req[q].from, req[q].to} /\ req[r].to \in Company
  BY ServedAlone
<1>2. req[q] \in Creation \cup Move \cup Deletion /\ req[q].project = p /\ Advanced(req[q])
  BY DEF Serves, Single, Fits
<1>3. row[p] \in {None, req[q].from, req[q].to}
  BY <1>2 DEF Advanced, Creating, Moving, Deleting
<1> QED
  BY <1>1, <1>3, ConstantsAssumption

LEMMA SweptApart ==
  ASSUME TypeOK, Met, NEW r \in Request, Sweeping(r), NEW p \in Project, p \notin disturbed,
         Fits(p), row[p] # req[r].to
  PROVE  /\ \A i \in Item : i[1] = p => graph[i] # req[r].to
         /\ <<req[r].to, p>> \notin owns
<1> DEFINE c == req[r].to
<1>1. c \in Company /\ c # None
  BY Kinds, ConstantsAssumption DEF Sweeping, Requests
<1>2. \E x : x # c /\ InGraph(graph, owns, p, x)
  <2>1. CASE \E q \in Request : Serves(q, p)
    <3>1. PICK q \in Request : Serves(q, p)
      BY <2>1
    <3>2. req[q] \in Creation \cup Move \cup Deletion /\ req[q].project = p /\ Advanced(req[q])
      BY <3>1 DEF Serves, Single, Fits
    <3>3. c \notin {req[q].from, req[q].to, None}
      BY <1>1, <3>1, SweptServes
    <3>4. \E x \in {None, req[q].from, req[q].to} : InGraph(graph, owns, p, x)
      BY <3>2 DEF Advanced, Creating, Moving, Deleting
    <3> QED
      BY <3>3, <3>4
  <2>2. CASE \A q \in Request : ~Serves(q, p)
    <3>1. \E x \in {None, row[p]} : InGraph(graph, owns, p, x)
      BY <2>2 DEF Fits, Resting
    <3> QED
      BY <1>1, <3>1
  <2> QED
    BY <2>1, <2>2
<1> QED
  BY <1>1, <1>2 DEF InGraph

LEMMA DeletesOn ==
  ASSUME NEW r \in Request, NEW phase, NEW p, req[r] \in Deletion, req[r].project = p,
         req'[r] = [req[r] EXCEPT !.phase = phase], phase \in {"graph", "row"},
         row'[p] = req[r].from, Within(points', p, {}),
         InGraph(graph', owns', p, IF phase = "row" THEN None ELSE req[r].from)
  PROVE  Advanced(req[r])' /\ req'[r] # Idle
<1>1. /\ req'[r] \in Deletion /\ req'[r].phase = phase /\ req'[r].project = p
      /\ req'[r].from = req[r].from
  BY DEF Deletion
<1>2. req'[r] \notin Creation \cup Move /\ req'[r] # Idle
  BY <1>1, Kinds DEF Requests
<1> QED
  BY <1>1, <1>2 DEF Advanced, Deleting

LEMMA DeleteFits ==
  ASSUME TypeOK, TypeOK', Met, NEW r \in Request, req[r] \in Deletion,
         DeletionStep(r), NEW p \in Project, p \notin disturbed', Fits(p)
  PROVE  Fits(p)'
<1> DEFINE w == req[r]
<1>1. /\ Follows(r) /\ w # Idle /\ writes' = writes /\ p \notin disturbed
  BY StepFollows DEF Step
<1>2. /\ w.project \in Project /\ w.from \in Company /\ w.kind = "delete"
      /\ w \in Requests /\ w \notin Creation \cup Move \cup Drop
  BY Kinds DEF Requests
<1>3. DeletePoints(r) \/ DeleteGraph(r) \/ DeleteRow(r) \/ DeletionFails(r)
  BY <1>2 DEF DeletionStep, DropCollection, DropGraph, DropRow, At
<1>4. CASE p # w.project
  <2>1. Untouched(p)
    <3>1. docs' = docs /\ row'[p] = row[p]
      BY <1>3, <1>4 DEF DeletePoints, DeleteGraph, DeleteRow, DeletionFails, TypeOK
    <3>2. \A c \in Company : points'[c] \subseteq points[c]
      <4>1. points' = points \/ points' = [points EXCEPT ![w.from] = @ \ Of(w.project)]
        BY <1>3 DEF DeletePoints, DeleteGraph, DeleteRow, DeletionFails
      <4> QED
        BY <4>1 DEF TypeOK
    <3>3. \A i \in Item : i[1] = p => graph'[i] = graph[i]
      BY <1>3, <1>4 DEF DeletePoints, DeleteGraph, DeleteRow, DeletionFails
    <3>4. \A c \in Company : <<c, p>> \in owns' <=> <<c, p>> \in owns
      BY <1>3, <1>4 DEF DeletePoints, DeleteGraph, DeleteRow, DeletionFails
    <3> QED
      BY <3>1, <3>2, <3>3, <3>4 DEF Untouched
  <2>2. ~Serves(r, p)
    BY <1>4 DEF Serves
  <2> QED
    BY <1>1, <1>2, <2>1, <2>2, Aside
<1>5. CASE p = w.project
  <2>1. Serves(r, p) /\ Deleting(w)
    BY <1>2, <1>5 DEF Serves, Single, Fits, Advanced
  <2>2. /\ row[p] = w.from
        /\ w.phase = "points" => Within(points, p, {w.from})
        /\ w.phase # "points" => Within(points, p, {})
        /\ w.phase # "row" => InGraph(graph, owns, p, w.from)
        /\ w.phase = "row" => InGraph(graph, owns, p, None)
    BY <1>5, <2>1 DEF Deleting
  <2>3. CASE DeletePoints(r)
    <3>1. /\ w.phase = "points" /\ UNCHANGED <<row, graph, owns>>
          /\ points' = [points EXCEPT ![w.from] = @ \ Of(p)]
          /\ req'[r] = [w EXCEPT !.phase = "graph"]
      BY <1>1, <1>5, <2>3, GoFollows DEF DeletePoints, At
    <3>2. Within(points', p, {})
      BY <1>2, <2>2, <3>1 DEF Within, Of, TypeOK
    <3>3. Advanced(req[r])' /\ req'[r] # Idle
      BY <1>5, <2>2, <3>1, <3>2, DeletesOn
    <3> QED
      BY <1>1, <2>1, <2>2, <3>1, <3>3, OwnGoes
  <2>4. CASE DeleteGraph(r)
    <3>1. /\ w.phase = "graph" /\ UNCHANGED <<row, points>>
          /\ graph' = [i \in Item |-> IF i[1] = p THEN None ELSE graph[i]]
          /\ owns' = {o \in owns : o[2] # p}
          /\ req'[r] = [w EXCEPT !.phase = "row"]
      BY <1>1, <1>5, <2>4, GoFollows DEF DeleteGraph, At
    <3>2. InGraph(graph', owns', p, None)
      BY <3>1, NodeItem, ConstantsAssumption DEF InGraph
    <3>3. Advanced(req[r])' /\ req'[r] # Idle
      BY <1>5, <2>2, <3>1, <3>2, DeletesOn
    <3> QED
      BY <1>1, <2>1, <2>2, <3>1, <3>3, OwnGoes
  <2>5. CASE DeleteRow(r)
    <3>1. /\ w.phase = "row" /\ UNCHANGED <<points, graph, owns>>
          /\ row'[p] = None /\ req'[r] = Idle
      BY <1>5, <2>5, FinishFollows DEF DeleteRow, At, TypeOK
    <3>2. Within(points', p, {row'[p]})
      BY <2>2, <3>1, WithinMore
    <3> QED
      BY <1>1, <2>1, <2>2, <3>1, <3>2, OwnEnds
  <2>6. ~DeletionFails(r)
    <3>1. p \in Projects(w)
      BY <1>2, <1>5, WorkOf
    <3> QED
      BY <1>1, <3>1, ShakeDisturbs DEF DeletionFails
  <2> QED
    BY <1>3, <2>3, <2>4, <2>5, <2>6
<1> QED
  BY <1>4, <1>5

LEMMA DropFits ==
  ASSUME TypeOK, TypeOK', Met, NEW r \in Request, req[r] \in Drop,
         DeletionStep(r), NEW p \in Project, p \notin disturbed', Fits(p)
  PROVE  Fits(p)'
<1> DEFINE w == req[r] c == w.to
<1>1. /\ Follows(r) /\ w # Idle /\ writes' = writes /\ p \notin disturbed
  BY StepFollows DEF Step
<1>2. /\ c \in Company /\ w.kind = "drop company" /\ w \in Requests /\ Sweeping(r) /\ ~Single(r)
      /\ c # None
  BY Kinds, ConstantsAssumption DEF Requests, Sweeping, Single
<1>3. DropCollection(r) \/ DropGraph(r) \/ DropRow(r) \/ DeletionFails(r)
  BY <1>2 DEF DeletionStep, DeletePoints, DeleteGraph, DeleteRow, At
<1>4. docs' = docs
  BY <1>3 DEF DropCollection, DropGraph, DropRow, DeletionFails
<1>5. CASE row[p] # c
  <2>1. /\ \A i \in Item : i[1] = p => graph[i] # c
        /\ <<c, p>> \notin owns
    BY <1>1, <1>2, <1>5, SweptApart
  <2>2. row'[p] = row[p] /\ \A d \in Company : points'[d] \subseteq points[d]
    BY <1>3, <1>5 DEF DropCollection, DropGraph, DropRow, DeletionFails, TypeOK
  <2>3. /\ \A i \in Item : i[1] = p => graph'[i] = graph[i]
        /\ \A d \in Company : <<d, p>> \in owns' <=> <<d, p>> \in owns
    <3>1. CASE DropGraph(r)
      BY <2>1, <3>1, NodeItem DEF DropGraph, TypeOK
    <3> QED
      BY <1>3, <3>1 DEF DropCollection, DropRow, DeletionFails
  <2>4. Untouched(p)
    BY <1>4, <2>2, <2>3 DEF Untouched
  <2> QED
    BY <1>1, <1>2, <1>5, <2>4, Aside DEF Serves
<1>6. CASE row[p] = c
  <2>1. \A q \in Request : ~Serves(q, p)
    BY <1>1, <1>2, <1>6, SweptServes
  <2>2. \A q \in Request : ~Serves(q, p)'
    BY <1>1, <1>2, <2>1, AsideServes
  <2>3. Resting(p)
    BY <2>1 DEF Fits
  <2>4. /\ Dropped(p, {"graph", "row"}) => Within(points, p, {})
        /\ Within(points, p, {c})
        /\ Dropped(p, {"row"}) => InGraph(graph, owns, p, None)
        /\ InGraph(graph, owns, p, c) \/ InGraph(graph, owns, p, None)
        /\ docs[p] \in {None, c}
    BY <1>2, <1>6, <2>3, WithinMore DEF Resting
  <2>5. \A q \in Request : Sweeping(q)' => Sweeping(q) /\ req'[q].to = req[q].to
    BY <1>1, FollowsKind
  <2>6. \A q \in Request : req'[q] \in Addition =>
            req[q] \in Addition /\ req'[q].to = req[q].to
    BY <1>1, FollowsKind DEF Sweeping
  <2>7. \A v \in writes' : v.project = p => v.to = c
    BY <1>1, <1>6 DEF Fits
  <2>8. \A q \in Request : q # r => req'[q] = req[q]
    BY <1>1 DEF Follows
  <2>9. CASE DropCollection(r)
    <3>1. /\ w.phase = "points" /\ UNCHANGED <<row, graph, owns>>
          /\ points' = [points EXCEPT ![c] = {}]
          /\ req'[r] = [w EXCEPT !.phase = "graph"]
      BY <1>1, <2>9, GoFollows DEF DropCollection, At
    <3>2. req'[r].phase = "graph" /\ w.phase = "points"
      BY <3>1 DEF Drop
    <3>3. Dropped(p, {"row"})' => Dropped(p, {"row"})
      BY <2>8, <3>1, <3>2 DEF Dropped
    <3>4. Dropped(p, {"row"}) => Dropped(p, {"row"})'
      BY <2>8, <3>1, <3>2 DEF Dropped
    <3>5. Within(points', p, {})
      BY <2>4, <3>1 DEF Within, TypeOK
    <3>6. \A C : Within(points', p, C)
      BY <3>5, WithinMore
    <3>7. Resting(p)'
      BY <1>4, <1>6, <2>3, <2>4, <3>1, <3>3, <3>4, <3>6 DEF Resting
    <3> QED
      BY <1>6, <2>2, <2>6, <2>7, <3>1, <3>7 DEF Fits
  <2>10. CASE DropGraph(r)
    <3>1. /\ w.phase = "graph" /\ UNCHANGED <<row, points>>
          /\ graph' = [i \in Item |-> IF graph[i] = c THEN None ELSE graph[i]]
          /\ owns' = {o \in owns : o[1] # c /\ graph[<<o[2], 0>>] # c}
          /\ req'[r] = [w EXCEPT !.phase = "row"]
      BY <1>1, <2>10, GoFollows DEF DropGraph, At
    <3>2. /\ w.phase = "graph" /\ req'[r] \in Drop /\ req'[r].phase = "row" /\ req'[r].to = c
      BY <3>1 DEF Drop
    <3>3. Dropped(p, {"graph", "row"}) /\ Dropped(p, {"graph", "row"})' /\ Dropped(p, {"row"})'
      BY <1>6, <3>1, <3>2 DEF Dropped
    <3>4. InGraph(graph', owns', p, None)
      <4>1. graph[<<p, 0>>] \in {None, c} /\ \A i \in Item : i[1] = p => graph[i] \in {None, c}
        BY <2>4 DEF InGraph
      <4>2. graph'[<<p, 0>>] = None /\ \A i \in Item : i[1] = p => graph'[i] = None
        BY <3>1, <4>1, NodeItem
      <4>3. \A d \in Company : <<d, p>> \in owns => d = c
        BY <2>4, ConstantsAssumption DEF InGraph
      <4>4. \A d \in Company : <<d, p>> \notin owns'
        BY <3>1, <4>3
      <4> QED
        BY <4>2, <4>4, ConstantsAssumption DEF InGraph
    <3>5. Resting(p)'
      BY <1>4, <1>6, <2>4, <3>1, <3>3, <3>4 DEF Resting
    <3> QED
      BY <1>6, <2>2, <2>6, <2>7, <3>1, <3>5 DEF Fits
  <2>11. CASE DropRow(r)
    <3>1. /\ w.phase = "row" /\ UNCHANGED <<graph, owns, points>>
          /\ row'[p] = None /\ req'[r] = Idle
      BY <1>6, <2>11, FinishFollows DEF DropRow, At
    <3>2. Dropped(p, {"row"}) /\ Dropped(p, {"graph", "row"})
      BY <1>6, <3>1 DEF Dropped
    <3>3. \A q \in Request : req'[q] \in Drop \cup Addition => req'[q].to # None
      BY Kinds, ConstantsAssumption DEF Requests
    <3>4. ~Dropped(p, {"row"})' /\ ~Dropped(p, {"graph", "row"})'
      BY <3>1, <3>3 DEF Dropped
    <3>5. Within(points', p, {row'[p]}) /\ InGraph(graph', owns', p, row'[p])
      BY <2>4, <3>1, <3>2, WithinMore
    <3>6. Resting(p)'
      BY <3>1, <3>4, <3>5 DEF Resting
    <3>7. \A v \in writes' : v.project # p
      BY <1>1, <1>2, <2>7 DEF Met
    <3> QED
      BY <2>2, <3>1, <3>3, <3>6, <3>7 DEF Fits
  <2>12. ~DeletionFails(r)
    <3>1. p \in Projects(w)
      BY <1>2, <1>6, WorkOf
    <3> QED
      BY <1>1, <3>1, ShakeDisturbs DEF DeletionFails
  <2> QED
    BY <1>3, <2>9, <2>10, <2>11, <2>12
<1> QED
  BY <1>5, <1>6

LEMMA AddFits ==
  ASSUME TypeOK, TypeOK', Met, NEW r \in Request, AddStep(r),
         NEW p \in Project, p \notin disturbed', Fits(p)
  PROVE  Fits(p)'
<1> DEFINE w == req[r] c == w.to
<1>1. /\ Follows(r) /\ w # Idle /\ writes' = writes /\ p \notin disturbed
  BY StepFollows DEF Step
<1>2. w \in Addition /\ w \in Requests
  BY <1>1, RequestType DEF At, AddStep, AddRow, AddNode, AddCollection, AddFails, UndoRow,
     UndoNode, AddAbandoned
<1>3. c \in Company /\ w \notin Drop /\ Sweeping(r) /\ ~Single(r)
  BY <1>2, Kinds DEF Sweeping, Single
<1>4. c # row[p]
  BY <1>2 DEF Fits
<1>5. docs' = docs /\ points' = points /\ row'[p] = row[p]
  BY <1>4 DEF AddStep, AddRow, AddNode, AddCollection, AddFails, UndoRow, UndoNode,
     AddAbandoned
<1>6. /\ \A i \in Item : i[1] = p => graph[i] # c
      /\ <<c, p>> \notin owns
  BY <1>1, <1>3, <1>4, SweptApart
<1>7. /\ \A i \in Item : i[1] = p => graph'[i] = graph[i]
      /\ \A d \in Company : <<d, p>> \in owns' <=> <<d, p>> \in owns
  <2>1. CASE UndoNode(r)
    BY <1>6, <2>1 DEF UndoNode
  <2> QED
    BY <2>1 DEF AddStep, AddRow, AddNode, AddCollection, AddFails, UndoRow, AddAbandoned
<1>8. Untouched(p)
  BY <1>5, <1>7 DEF Untouched
<1> QED
  BY <1>1, <1>3, <1>8, Aside DEF Serves

-----------------------------------------------------------------------------
\* A project whose entries stay while a request starts or a file is stored.
LEMMA StartServes ==
  ASSUME TypeOK, NEW r \in Request, NEW w \in Requests, Start(r, w)
  PROVE  /\ req[r] = Idle /\ req'[r] = w /\ \A q \in Request : q # r => req'[q] = req[q]
         /\ writes' = writes /\ MarkRivals(w)
         /\ disturbed \subseteq disturbed' /\ shaken \subseteq shaken'
         /\ UNCHANGED <<companies, row, graph, root, owns, collections, points, docs>>
         /\ ~Single(r) /\ ~Sweeping(r)
<1>1. ~Single(r) /\ ~Sweeping(r)
  BY Kinds DEF Start, Single, Sweeping, Requests
<1> QED
  BY <1>1, RivalsMarked DEF Start, TypeOK

\* Somebody else's request starts.
LEMMA StartAside ==
  ASSUME TypeOK, NEW r \in Request, NEW w \in Requests, Start(r, w),
         NEW p \in Project, Fits(p),
         w \in Creation \cup Move \cup Deletion => w.project # p,
         w \in Drop => w.phase = "points",
         w \in Addition => w.to # row[p]
  PROVE  Fits(p)'
<1>1. /\ req'[r] = w /\ \A q \in Request : q # r => req'[q] = req[q]
      /\ writes' = writes /\ ~Single(r) /\ ~Sweeping(r)
      /\ UNCHANGED <<row, graph, owns, points, docs>>
  BY StartServes
<1>2. \A q \in Request : /\ Serves(q, p)' <=> Serves(q, p)
                         /\ Serves(q, p) => req'[q] = req[q]
  BY <1>1 DEF Serves, Single
<1>3. /\ Dropped(p, {"graph", "row"})' <=> Dropped(p, {"graph", "row"})
      /\ Dropped(p, {"row"})' <=> Dropped(p, {"row"})
  BY <1>1 DEF Dropped, Sweeping
<1>4. ASSUME NEW q \in Request, Serves(q, p)' PROVE Advanced(req[q])'
  <2>1. Advanced(req[q]) /\ req'[q] = req[q]
    BY <1>2, <1>4 DEF Fits
  <2> QED
    BY <1>1, <2>1 DEF Advanced, Creating, Moving, Deleting
<1>5. ASSUME \A q \in Request : ~Serves(q, p)' PROVE Resting(p)'
  <2>1. Resting(p)
    BY <1>2, <1>5 DEF Fits
  <2> QED
    BY <1>1, <1>3, <2>1 DEF Resting
<1>6. \A v \in writes' : v.project = p => v.to = row'[p]
  BY <1>1 DEF Fits
<1>7. \A q \in Request : req'[q] \in Addition => req'[q].to # row'[p]
  BY <1>1 DEF Fits
<1> QED
  BY <1>4, <1>5, <1>6, <1>7 DEF Fits

\* A request about the project itself starts; no other is at work on it or on
\* its companies.
LEMMA StartAlone ==
  ASSUME TypeOK, NEW r \in Request, NEW w \in Requests, Start(r, w),
         w \in Creation \cup Move \cup Deletion, w.project \notin disturbed'
  PROVE  /\ \A q \in Request : ~Serves(q, w.project)
         /\ \A q \in Request : Sweeping(q) => req[q].to \notin {w.from, w.to}
<1>1. \A v \in Work : Collide(w, v) => w.project \in disturbed'
  <2>1. Projects(w) = {w.project}
    BY WorkOf
  <2> QED
    BY <2>1, RivalsMarked DEF Start
<1>2. ASSUME NEW q \in Request, Serves(q, w.project) PROVE FALSE
  <2>1. req[q] \in Work /\ Projects(req[q]) = {w.project} /\ Projects(w) = {w.project}
    BY <1>2, AtWork, WorkOf DEF Serves, Single
  <2> QED
    BY <1>1, <2>1 DEF Collide
<1>3. ASSUME NEW q \in Request, Sweeping(q), req[q].to \in {w.from, w.to} PROVE FALSE
  <2>1. req[q] \in Work /\ Wide(req[q]) /\ req[q].to \in Companies(req[q]) /\ req[q].to # None
    BY <1>3, SweepingWork
  <2>2. req[q].to \in Companies(w)
    BY <1>3, <2>1, WorkOf
  <2> QED
    BY <1>1, <2>1, <2>2 DEF Collide
<1> QED
  BY <1>2, <1>3

LEMMA StartOwn ==
  ASSUME TypeOK, NEW r \in Request, NEW w \in Requests, Start(r, w),
         w \in Creation \cup Move \cup Deletion, w.project \notin disturbed',
         Fits(w.project), Advanced(w)
  PROVE  Fits(w.project)'
<1> DEFINE p == w.project
<1>1. /\ req'[r] = w /\ \A q \in Request : q # r => req'[q] = req[q]
      /\ writes' = writes /\ ~Single(r) /\ ~Sweeping(r)
      /\ UNCHANGED <<row, graph, owns, points, docs>>
  BY StartServes
<1>2. \A q \in Request : ~Serves(q, p)
  BY StartAlone
<1>3. \A q \in Request : Serves(q, p)' => q = r
  BY <1>1, <1>2 DEF Serves, Single
<1>4. Serves(r, p)'
  BY <1>1 DEF Serves, Single
<1>5. Advanced(w)'
  BY <1>1 DEF Advanced, Creating, Moving, Deleting
<1>6. \A v \in writes' : v.project = p => v.to = row'[p]
  BY <1>1 DEF Fits
<1>7. \A q \in Request : req'[q] \in Addition => req'[q].to # row'[p]
  <2>1. w \notin Addition
    BY Kinds
  <2> QED
    BY <1>1, <2>1 DEF Fits
<1> QED
  BY <1>1, <1>3, <1>4, <1>5, <1>6, <1>7 DEF Fits

\* Where a project is, whose company nobody is dropping.
LEMMA RestingUndropped ==
  ASSUME NEW p, Resting(p), \A q \in Request : Sweeping(q) => req[q].to # row[p]
  PROVE  /\ Within(points, p, {row[p]}) /\ InGraph(graph, owns, p, row[p])
         /\ row[p] # None => docs[p] \in {None, row[p]}
<1>1. ~Dropped(p, {"graph", "row"}) /\ ~Dropped(p, {"row"})
  BY DEF Dropped, Sweeping
<1> QED
  BY <1>1 DEF Resting

LEMMA BeginFits ==
  ASSUME Kept, TypeOK', Founded, NEW r \in Request, Begin(r),
         NEW p \in Project, p \notin disturbed', Fits(p)
  PROVE  Fits(p)'
<1> USE DEF Kept
<1>1. ASSUME NEW o \in Project, Delete(r, o) PROVE Fits(p)'
  <2> DEFINE w == [kind |-> "delete", phase |-> "points", project |-> o,
                   from |-> row[o], to |-> None]
  <2>1. row[o] \in Company
    BY <1>1 DEF Delete, TypeOK
  <2>2. /\ w \in Deletion /\ w \in Requests /\ Start(r, w) /\ w.project = o /\ w.from = row[o]
        /\ w.phase = "points" /\ w.kind = "delete"
    BY <1>1, <2>1 DEF Delete, Deletion, Requests
  <2> HIDE DEF w
  <2>3. w \notin Creation \cup Move \cup Drop \cup Addition
    BY <2>2, Kinds
  <2>4. CASE p # o
    BY <2>2, <2>3, <2>4, StartAside
  <2>5. CASE p = o
    <3>1. /\ \A q \in Request : ~Serves(q, p)
          /\ \A q \in Request : Sweeping(q) => req[q].to # row[p]
      BY <2>2, <2>5, StartAlone
    <3>2. Within(points, p, {row[p]}) /\ InGraph(graph, owns, p, row[p])
      BY <3>1, RestingUndropped DEF Fits
    <3>3. Advanced(w)
      BY <2>2, <2>3, <2>5, <3>2 DEF Advanced, Deleting
    <3> QED
      BY <2>2, <2>5, <3>3, StartOwn
  <2> QED
    BY <2>4, <2>5
<1>2. ASSUME NEW o \in Project, NEW c \in Company, Create(r, o, c) PROVE Fits(p)'
  <2> DEFINE w == [kind |-> "create", phase |-> "row", project |-> o, from |-> None, to |-> c]
  <2>1. Fresh(o) /\ Start(r, w)
    BY <1>2 DEF Create
  <2>2. /\ w \in Creation /\ w \in Requests /\ w.project = o /\ w.kind = "create"
        /\ w.phase = "row" /\ w.to = c /\ w.from = None
    BY DEF Creation, Requests
  <2> HIDE DEF w
  <2>3. w \notin Move \cup Deletion \cup Drop \cup Addition
    BY <2>2, Kinds
  <2>4. CASE p # o
    BY <2>1, <2>2, <2>3, <2>4, StartAside
  <2>5. CASE p = o
    <3>1. \A q \in Request : ~Serves(q, p)
      BY <2>1, <2>2, <2>5, StartAlone
    <3>2. row[p] = None /\ Home[p] = None /\ \A i \in Of(p) : i \notin written
      BY <2>1, <2>5 DEF Fresh
    <3>3. \A q \in Request : Sweeping(q) => req[q].to # row[p]
      <4>1. \A q \in Request : Sweeping(q) => req[q].to \in Company
        BY Kinds DEF Sweeping, Requests
      <4> QED
        BY <3>2, <4>1, ConstantsAssumption
    <3>4. InGraph(graph, owns, p, None)
      BY <3>1, <3>2, <3>3, RestingUndropped DEF Fits
    <3>5. Within(points, p, {})
      BY <3>2 DEF PointsWritten, Within, Of, TypeOK
    <3>6. docs[p] = None
      BY <3>2 DEF Founded, DocsFit
    <3>7. Advanced(w)
      BY <2>2, <2>3, <2>5, <3>2, <3>4, <3>5, <3>6 DEF Advanced, Creating
    <3> QED
      BY <2>1, <2>2, <2>5, <3>7, StartOwn
  <2> QED
    BY <2>4, <2>5
<1>3. ASSUME NEW o \in Project, NEW c \in Company, Transfer(r, o, c) PROVE Fits(p)'
  <2> DEFINE w == [kind |-> "transfer", phase |-> "copy", project |-> o,
                   from |-> row[o], to |-> c, back |-> FALSE]
  <2>1. row[o] \in Company /\ Start(r, w)
    BY <1>3 DEF Transfer, TypeOK
  <2>2. /\ w \in Move /\ w \in Requests /\ w.project = o /\ w.kind = "transfer"
        /\ w.phase = "copy" /\ w.to = c /\ w.from = row[o] /\ w.back = FALSE
    BY <2>1 DEF Move, Requests
  <2> HIDE DEF w
  <2>3. w \notin Creation \cup Deletion \cup Drop \cup Addition
    BY <2>2, Kinds
  <2>4. CASE p # o
    BY <2>1, <2>2, <2>3, <2>4, StartAside
  <2>5. CASE p = o
    <3>1. /\ \A q \in Request : ~Serves(q, p)
          /\ \A q \in Request : Sweeping(q) => req[q].to # row[p]
      BY <2>1, <2>2, <2>5, StartAlone
    <3>2. /\ Within(points, p, {row[p]}) /\ InGraph(graph, owns, p, row[p])
          /\ docs[p] \in {None, row[p]}
      BY <2>1, <2>5, <3>1, RestingUndropped, ConstantsAssumption DEF Fits
    <3>3. Advanced(w)
      BY <2>2, <2>3, <2>5, <3>2 DEF Advanced, Moving
    <3> QED
      BY <2>1, <2>2, <2>5, <3>3, StartOwn
  <2> QED
    BY <2>4, <2>5
<1>4. ASSUME NEW c \in Company, AddCompany(r, c) PROVE Fits(p)'
  <2> DEFINE w == [kind |-> "add company", phase |-> "row", from |-> c, to |-> c]
  <2>1. c \notin companies /\ Start(r, w)
    BY <1>4 DEF AddCompany
  <2>2. w \in Addition /\ w \in Requests /\ w.to = c
    BY DEF Addition, Requests
  <2> HIDE DEF w
  <2>3. w \notin Creation \cup Move \cup Deletion \cup Drop
    BY <2>2, Kinds
  <2>4. c # row[p]
    BY <2>1, ConstantsAssumption DEF Founded, RowsFit
  <2> QED
    BY <2>1, <2>2, <2>3, <2>4, StartAside
<1>5. ASSUME NEW c \in Company, DropCompany(r, c) PROVE Fits(p)'
  <2> DEFINE w == [kind |-> "drop company", phase |-> "points", from |-> c, to |-> c]
  <2>1. Start(r, w)
    BY <1>5 DEF DropCompany
  <2>2. w \in Drop /\ w \in Requests /\ w.phase = "points"
    BY DEF Drop, Requests
  <2> HIDE DEF w
  <2>3. w \notin Creation \cup Move \cup Deletion \cup Addition
    BY <2>2, Kinds
  <2> QED
    BY <2>1, <2>2, <2>3, StartAside
<1> QED
  BY <1>1, <1>2, <1>3, <1>4, <1>5 DEF Begin

\* Files are stored where the row has the project.
LEMMA WriteFits ==
  ASSUME TypeOK, Met, Write, NEW p \in Project, p \notin disturbed, Fits(p)
  PROVE  Fits(p)'
<1>1. UNCHANGED <<req, row, owns, docs>>
  BY DEF Write, WriteBegins, WriteNode, WritePoint
<1>2. ASSUME NEW o \in Project, NEW n \in 1 .. Pieces, WriteBegins(o, n) PROVE Fits(p)'
  <2> DEFINE w == [kind |-> "write", phase |-> "node", project |-> o, piece |-> n,
                   from |-> row[o], to |-> row[o]]
  <2>1. writes' = writes \cup {w} /\ UNCHANGED <<graph, points>>
    BY <1>2 DEF WriteBegins
  <2>2. w.project = o /\ w.to = row[o]
    OBVIOUS
  <2> HIDE DEF w
  <2>3. \A v \in writes' : v.project = p => v.to = row'[p]
    BY <1>1, <2>1, <2>2 DEF Fits
  <2>4. (\A r \in Request : Serves(r, p) => Advanced(req[r]))'
    BY <1>1, <2>1 DEF Fits, Serves, Single, Advanced, Creating, Moving, Deleting
  <2>5. (\A r \in Request : ~Serves(r, p))' => Resting(p)'
    BY <1>1, <2>1 DEF Fits, Serves, Single, Resting, Dropped
  <2> QED
    BY <1>1, <2>3, <2>4, <2>5 DEF Fits
<1>3. ASSUME NEW w \in writes, WriteNode(w) \/ WritePoint(w) PROVE Fits(p)'
  <2>1. w \in Storing /\ w.project \in Project /\ w.piece \in 1 .. Pieces /\ w.to \in Company
    BY DEF TypeOK, Storing
  <2>2. \A v \in writes' : \E x \in writes : v.project = x.project /\ v.to = x.to
    <3>1. [w EXCEPT !.phase = "point"].project = w.project
      BY <2>1 DEF Storing
    <3>2. [w EXCEPT !.phase = "point"].to = w.to
      BY <2>1 DEF Storing
    <3> QED
      BY <1>3, <3>1, <3>2 DEF WriteNode, WritePoint
  <2>3. \A v \in writes' : v.project = p => v.to = row'[p]
    BY <1>1, <2>2 DEF Fits
  <2>4. CASE p # w.project
    <3>1. \A C : Within(points, p, C) => Within(points', p, C)
      <4>1. points' = points
            \/ points' = [points EXCEPT ![w.to] = @ \cup {<<w.project, w.piece>>}]
        BY <1>3 DEF WriteNode, WritePoint
      <4> QED
        BY <2>4, <4>1 DEF Within, TypeOK
    <3>2. \A c : InGraph(graph, owns, p, c) => InGraph(graph', owns', p, c)
      <4>1. graph' = graph \/ graph' = [graph EXCEPT ![<<w.project, w.piece>>] = w.to]
        BY <1>3 DEF WriteNode, WritePoint
      <4>2. \A i \in Item : i[1] = p => graph'[i] = graph[i]
        BY <2>4, <4>1 DEF TypeOK
      <4> QED
        BY <1>1, <4>2, NodeItem DEF InGraph
    <3>3. (\A r \in Request : Serves(r, p) => Advanced(req[r]))'
      BY <1>1, <3>1, <3>2 DEF Fits, Serves, Single, Advanced, Creating, Moving, Deleting
    <3>4. (\A r \in Request : ~Serves(r, p))' => Resting(p)'
      BY <1>1, <3>1, <3>2 DEF Fits, Serves, Single, Resting, Dropped
    <3> QED
      BY <1>1, <2>3, <3>3, <3>4 DEF Fits
  <2>5. CASE p = w.project
    <3>1. \A r \in Request : ~Serves(r, p)
      BY <2>5 DEF Met, Serves
    <3>2. w.to = row[p]
      BY <2>5 DEF Fits
    <3>3. \A q \in Request : Sweeping(q) => req[q].to # row[p]
      BY <2>5, <3>2 DEF Met
    <3>4. /\ Within(points, p, {row[p]}) /\ InGraph(graph, owns, p, row[p])
          /\ docs[p] \in {None, row[p]}
      BY <2>1, <3>1, <3>2, <3>3, RestingUndropped, ConstantsAssumption DEF Fits
    <3>5. Within(points', p, {row[p]})
      <4>1. points' = points
            \/ points' = [points EXCEPT ![w.to] = @ \cup {<<w.project, w.piece>>}]
        BY <1>3 DEF WriteNode, WritePoint
      <4> QED
        BY <3>2, <3>4, <4>1 DEF Within, TypeOK
    <3>6. InGraph(graph', owns', p, row[p])
      <4>1. graph' = graph \/ graph' = [graph EXCEPT ![<<w.project, w.piece>>] = w.to]
        BY <1>3 DEF WriteNode, WritePoint
      <4>2. <<w.project, w.piece>> # <<p, 0>>
        BY <2>1
      <4>3. graph'[<<p, 0>>] = graph[<<p, 0>>]
        BY <4>1, <4>2, NodeItem DEF TypeOK
      <4>4. \A i \in Item : i[1] = p => graph'[i] \in {None, row[p]}
        BY <3>2, <3>4, <4>1 DEF InGraph, TypeOK
      <4> QED
        BY <1>1, <3>4, <4>3, <4>4 DEF InGraph
    <3>7. ~Dropped(p, {"graph", "row"})' /\ ~Dropped(p, {"row"})'
      BY <1>1, <3>3 DEF Dropped, Sweeping
    <3>8. Resting(p)'
      BY <1>1, <3>4, <3>5, <3>6, <3>7 DEF Resting
    <3>9. \A r \in Request : ~Serves(r, p)'
      BY <1>1, <3>1 DEF Serves, Single
    <3> QED
      BY <1>1, <2>3, <3>8, <3>9 DEF Fits
  <2> QED
    BY <2>4, <2>5
<1> QED
  BY <1>2, <1>3 DEF Write

\* A crash marks all that a request was at work on.
LEMMA CrashMarks ==
  ASSUME TypeOK, Crash, NEW q \in Request, Single(q) \/ Sweeping(q)
  PROVE  Projects(req[q]) \subseteq disturbed' /\ Companies(req[q]) \subseteq shaken'
<1>1. req[q] # Idle
  BY AtWork, Kinds
<1> QED
  BY <1>1 DEF Crash, Mark, Active

LEMMA CrashFits ==
  ASSUME TypeOK, Crash, NEW p \in Project, p \notin disturbed', Fits(p)
  PROVE  Fits(p)'
<1>1. \A q \in Request : ~Serves(q, p)
  <2> SUFFICES ASSUME NEW q \in Request, Serves(q, p) PROVE FALSE
    OBVIOUS
  <2>1. Projects(req[q]) = {p} /\ Single(q)
    BY AtWork, WorkOf DEF Serves, Single
  <2> QED
    BY <2>1, CrashMarks
<1>2. \A q \in Request : Sweeping(q) => req[q].to # row[p]
  <2> SUFFICES ASSUME NEW q \in Request, Sweeping(q), req[q].to = row[p] PROVE FALSE
    OBVIOUS
  <2>1. p \in Projects(req[q])
    BY AtWork, WorkOf DEF Sweeping
  <2> QED
    BY <2>1, CrashMarks
<1>3. /\ Within(points, p, {row[p]}) /\ InGraph(graph, owns, p, row[p])
      /\ row[p] # None => docs[p] \in {None, row[p]}
  BY <1>1, <1>2, RestingUndropped DEF Fits
<1>4. /\ UNCHANGED <<row, graph, owns, points, docs, writes>>
      /\ \A q \in Request : ~Serves(q, p)' /\ ~Sweeping(q)'
  BY NoneAfterCrash DEF Crash, Serves
<1>5. ~Dropped(p, {"graph", "row"})' /\ ~Dropped(p, {"row"})'
  BY <1>4 DEF Dropped, Sweeping
<1>6. Resting(p)'
  BY <1>3, <1>4, <1>5 DEF Resting
<1> QED
  BY <1>4, <1>6 DEF Fits, Sweeping

LEMMA ProjectsFitNext ==
  Kept /\ Met /\ Founded /\ ProjectsFit /\ [Next]_vars => ProjectsFit'
<1> SUFFICES ASSUME Kept, Met, Founded, [Next]_vars, ProjectsFit,
                    NEW p \in Project, p \notin disturbed'
             PROVE  Fits(p)'
  BY DEF ProjectsFit
<1>1. TypeOK /\ TypeOK' /\ Apart
  BY TypeStep DEF Kept, Orderly
<1>2. CASE UNCHANGED vars
  <2>1. Fits(p)
    BY <1>2 DEF ProjectsFit
  <2> QED
    BY <1>2, <2>1 DEF Fits, Serves, Single, Resting, Dropped, Advanced, Creating, Moving,
       Deleting
<1>3. CASE Write
  <2>1. p \notin disturbed
    BY <1>3, RivalsMarked DEF Write, WriteBegins, WriteNode, WritePoint
  <2> QED
    BY <1>1, <1>3, <2>1, WriteFits DEF ProjectsFit
<1>4. CASE Crash
  BY <1>1, <1>4, CrashFits DEF ProjectsFit, Crash, Mark
<1>5. ASSUME NEW r \in Request, Begin(r) PROVE Fits(p)'
  <2>1. disturbed \subseteq disturbed'
    BY <1>5, RivalsMarked DEF Begin, Delete, Create, Transfer, AddCompany, DropCompany, Start
  <2> QED
    BY <1>1, <1>5, <2>1, BeginFits DEF ProjectsFit
<1>6. ASSUME NEW r \in Request, Step(r) PROVE Fits(p)'
  <2>1. Fits(p)
    BY <1>1, <1>6, StepFollows DEF ProjectsFit
  <2>2. CASE DeletionStep(r)
    <3>1. req[r] \in Deletion \cup Drop
      BY <1>1, <2>2, RequestType DEF DeletionStep, DeletePoints, DeleteGraph, DeleteRow,
         DropCollection, DropGraph, DropRow, DeletionFails, At
    <3> QED
      BY <1>1, <2>1, <2>2, <3>1, DeleteFits, DropFits
  <2> QED
    BY <1>1, <1>6, <2>1, <2>2, CreateFits, TransferFits, AddFits DEF Step
<1> QED
  BY <1>2, <1>3, <1>4, <1>5, <1>6 DEF Next, Rests

LEMMA ProjectsFitInit == Init => ProjectsFit
<1> SUFFICES ASSUME Init, NEW p \in Project PROVE Fits(p)
  BY DEF ProjectsFit
<1>1. \A r \in Request : ~Single(r) /\ ~Sweeping(r)
  BY NoneAtFirst
<1>2. ~Dropped(p, {"graph", "row"}) /\ ~Dropped(p, {"row"})
  BY <1>1 DEF Dropped, Sweeping
<1>3. Within(points, p, {row[p]})
  BY DEF Init, Within
<1>4. graph = [i \in Item |-> IF i[2] <= 1 THEN Home[i[1]] ELSE None] /\ row = Home
  BY DEF Init
<1>5. graph[<<p, 0>>] = row[p] /\ \A i \in Item : i[1] = p => graph[i] \in {None, row[p]}
  BY <1>4, NodeItem
<1>6. \A d \in Company : <<d, p>> \in owns <=> d = row[p]
  BY DEF Init
<1>7. Resting(p)
  BY <1>2, <1>3, <1>5, <1>6 DEF Resting, InGraph, Init
<1> QED
  BY <1>1, <1>7 DEF Fits, Serves, Sweeping, Init

-----------------------------------------------------------------------------
\* A company that a step of a request about a project leaves where it is.
Stays(c) ==
    /\ c \in companies' <=> c \in companies
    /\ c \in root' <=> c \in root
    /\ c \in collections' <=> c \in collections

\* A project moves or comes to a company that is there already.
LEMMA SingleStays ==
  ASSUME TypeOK, Met, NEW r \in Request, Single(r), Step(r),
         NEW c \in Company, c \notin shaken, CompanyFits(c)
  PROVE  Stays(c)
<1> DEFINE w == req[r]
<1>1. w \in Requests /\ w.kind \in {"create", "transfer", "delete"}
  BY AtWork, Kinds DEF Single
<1>2. CASE c = w.to
  <2>1. \A q \in Request : ~Sweeps(q, c)
    BY <1>2 DEF Met, Sweeps
  <2>2. c \in companies /\ c \in root /\ c \in collections
    BY <1>2, <2>1 DEF CompanyFits, Stands
  <2> QED
    BY <1>1, <2>2 DEF Stays, Step, At, CreateRow, CreateNode, NodeFails, UndoCreate, UndoFails,
       TransferStep, CopyPoints, RemovePoints, MoveGraph, MoveDocs, MoveRow, RowRefused,
       CopyFails, MoveFails, DeletionStep, DeletePoints, DeleteGraph, DeleteRow, DropCollection,
       DropGraph, DropRow, DeletionFails, AddStep, AddRow, AddNode, AddCollection, AddFails,
       UndoRow, UndoNode, AddAbandoned
<1>3. CASE c # w.to
  BY <1>1, <1>3 DEF Stays, Step, At, CreateRow, CreateNode, NodeFails, UndoCreate, UndoFails,
     TransferStep, CopyPoints, RemovePoints, MoveGraph, MoveDocs, MoveRow, RowRefused,
     CopyFails, MoveFails, DeletionStep, DeletePoints, DeleteGraph, DeleteRow, DropCollection,
     DropGraph, DropRow, DeletionFails, AddStep, AddRow, AddNode, AddCollection, AddFails,
     UndoRow, UndoNode, AddAbandoned
<1> QED
  BY <1>2, <1>3

\* A request about another company.
LEMMA SweepingStays ==
  ASSUME TypeOK, NEW r \in Request, Sweeping(r), Step(r), NEW c \in Company, c # req[r].to
  PROVE  Stays(c)
<1>1. req[r] \in Requests /\ req[r].kind \in {"drop company", "add company"}
  BY AtWork, Kinds DEF Sweeping
<1> QED
  BY <1>1 DEF Stays, Step, At, CreateRow, CreateNode, NodeFails, UndoCreate, UndoFails,
     TransferStep, CopyPoints, RemovePoints, MoveGraph, MoveDocs, MoveRow, RowRefused,
     CopyFails, MoveFails, DeletionStep, DeletePoints, DeleteGraph, DeleteRow, DropCollection,
     DropGraph, DropRow, DeletionFails, AddStep, AddRow, AddNode, AddCollection, AddFails,
     UndoRow, UndoNode, AddAbandoned

LEMMA StaysFits ==
  ASSUME TypeOK, TypeOK', NEW r \in Request, Follows(r), req[r] # Idle,
         NEW c \in Company, ~Sweeps(r, c), Stays(c), CompanyFits(c)
  PROVE  CompanyFits(c)'
<1>1. \A q \in Request :
        /\ Sweeps(q, c)' => Sweeps(q, c)
        /\ Single(q)' => Single(q) /\ {req'[q].from, req'[q].to} = {req[q].from, req[q].to}
  BY FollowsKind DEF Sweeps
<1>2. \A q \in Request : Sweeps(q, c) => Sweeps(q, c)' /\ req'[q] = req[q]
  BY DEF Follows, Sweeps, Sweeping
<1>3. \A q \in Request : Sweeps(q, c)' => StandsFor(req[q], c)'
  <2>1. \A w : StandsFor(w, c) => StandsFor(w, c)'
    BY DEF StandsFor, Stands, Stays
  <2> QED
    BY <1>1, <1>2, <2>1 DEF CompanyFits
<1>4. (\A q \in Request : ~Sweeps(q, c))'
        => Stands(c, c \in companies, c \in companies, c \in companies)'
  BY <1>2 DEF CompanyFits, Stays, Stands
<1>5. \A q \in Request : Single(q)' /\ c \in {req'[q].from, req'[q].to} => c \in companies'
  BY <1>1 DEF CompanyFits, Stays
<1> QED
  BY <1>3, <1>4, <1>5 DEF CompanyFits

\* A request about the company itself; no other is at work on it.
LEMMA SweptGoes ==
  ASSUME TypeOK, TypeOK', Met, NEW r \in Request, Follows(r), req[r] # Idle,
         NEW c \in Company, c \notin shaken, Sweeps(r, c),
         \/ req'[r] # Idle /\ StandsFor(req[r], c)'
         \/ req'[r] = Idle /\ Stands(c, c \in companies, c \in companies, c \in companies)'
  PROVE  CompanyFits(c)'
<1>1. \A q \in Request :
        /\ Sweeps(q, c)' => Sweeps(q, c)
        /\ Single(q)' => Single(q) /\ {req'[q].from, req'[q].to} = {req[q].from, req[q].to}
  BY FollowsKind DEF Sweeps
<1>2. \A q \in Request : /\ Sweeps(q, c) => q = r
                         /\ Single(q) => c \notin {req[q].from, req[q].to}
  BY DEF Met, Sweeps
<1>3. CASE req'[r] # Idle
  <2>1. Sweeps(r, c)'
    <3>1. req[r] \in Requests /\ req'[r] \in Requests /\ SameWork(req[r], req'[r])
      BY <1>3, RequestType DEF Follows, TypeOK, Requests
    <3> QED
      BY <3>1, Kinds DEF SameWork, Sweeps, Sweeping
  <2> QED
    BY <1>1, <1>2, <1>3, <2>1 DEF CompanyFits
<1>4. CASE req'[r] = Idle
  <2>1. ~Sweeping(r)'
    BY <1>4, Kinds DEF Sweeping, Requests
  <2> QED
    BY <1>1, <1>2, <1>4, <2>1 DEF CompanyFits, Sweeps
<1> QED
  BY <1>3, <1>4

LEMMA DropStands ==
  ASSUME TypeOK, TypeOK', Met, NEW r \in Request, req[r] \in Drop, DeletionStep(r),
         NEW c \in Company, c \notin shaken', c = req[r].to, CompanyFits(c)
  PROVE  CompanyFits(c)'
<1> DEFINE w == req[r]
<1>1. /\ Follows(r) /\ w # Idle /\ c \notin shaken
  BY StepFollows DEF Step
<1>2. /\ w.kind = "drop company" /\ w \in Requests /\ Sweeps(r, c)
  BY Kinds DEF Requests, Sweeping, Sweeps
<1>3. DropCollection(r) \/ DropGraph(r) \/ DropRow(r) \/ DeletionFails(r)
  BY <1>2 DEF DeletionStep, DeletePoints, DeleteGraph, DeleteRow, At
<1>4. StandsFor(w, c)
  BY <1>2 DEF CompanyFits
<1>5. Stands(c, TRUE, w.phase # "row", w.phase = "points")
  BY <1>4 DEF StandsFor
<1>6. CASE DropCollection(r)
  <2>1. /\ w.phase = "points" /\ UNCHANGED <<companies, root>> /\ collections' = collections \ {c}
        /\ req'[r] = [w EXCEPT !.phase = "graph"]
    BY <1>1, <1>6, GoFollows DEF DropCollection, At
  <2>2. req'[r] \in Drop /\ req'[r].phase = "graph"
    BY <2>1 DEF Drop
  <2>3. StandsFor(req[r], c)' /\ req'[r] # Idle
    BY <1>5, <2>1, <2>2, Kinds DEF StandsFor, Stands, Requests
  <2> QED
    BY <1>1, <1>2, <2>3, SweptGoes
<1>7. CASE DropGraph(r)
  <2>1. /\ w.phase = "graph" /\ UNCHANGED <<companies, collections>> /\ root' = root \ {c}
        /\ req'[r] = [w EXCEPT !.phase = "row"]
    BY <1>1, <1>7, GoFollows DEF DropGraph, At
  <2>2. req'[r] \in Drop /\ req'[r].phase = "row"
    BY <2>1 DEF Drop
  <2>3. StandsFor(req[r], c)' /\ req'[r] # Idle
    BY <1>5, <2>1, <2>2, Kinds DEF StandsFor, Stands, Requests
  <2> QED
    BY <1>1, <1>2, <2>3, SweptGoes
<1>8. CASE DropRow(r)
  <2>1. /\ w.phase = "row" /\ UNCHANGED <<root, collections>> /\ companies' = companies \ {c}
        /\ req'[r] = Idle
    BY <1>8, FinishFollows DEF DropRow, At
  <2> QED
    BY <1>1, <1>2, <1>5, <2>1, SweptGoes DEF Stands
<1>9. ~DeletionFails(r)
  <2>1. c \in Companies(w)
    BY <1>2, WorkOf, ConstantsAssumption
  <2> QED
    BY <1>1, <2>1, ShakeDisturbs DEF DeletionFails
<1> QED
  BY <1>3, <1>6, <1>7, <1>8, <1>9

LEMMA AddStands ==
  ASSUME TypeOK, TypeOK', Met, NEW r \in Request, req[r] \in Addition, AddStep(r),
         NEW c \in Company, c \notin shaken', c = req[r].to, CompanyFits(c)
  PROVE  CompanyFits(c)'
<1> DEFINE w == req[r]
<1>1. /\ Follows(r) /\ w # Idle /\ c \notin shaken
  BY StepFollows DEF Step
<1>2. /\ w.kind = "add company" /\ w \in Requests /\ Sweeps(r, c) /\ w \notin Drop
  BY Kinds DEF Requests, Sweeping, Sweeps
<1>3. StandsFor(w, c)
  BY <1>2 DEF CompanyFits
<1>4. Stands(c, w.phase \notin {"row", "undo node"},
             w.phase \in {"collection", "undo both", "undo node"}, FALSE)
  BY <1>2, <1>3 DEF StandsFor
<1>5. ASSUME NEW phase \in {"row", "node", "collection", "undo row", "undo both", "undo node"},
             req'[r] = [w EXCEPT !.phase = phase],
             c \in companies' <=> phase \notin {"row", "undo node"},
             c \in root' <=> phase \in {"collection", "undo both", "undo node"},
             c \notin collections'
      PROVE  CompanyFits(c)'
  <2>1. req'[r] \in Addition /\ req'[r].phase = phase
    BY <1>5 DEF Addition
  <2>2. req'[r] \notin Drop /\ req'[r] # Idle
    BY <2>1, Kinds DEF Requests
  <2>3. StandsFor(req[r], c)'
    BY <1>5, <2>1, <2>2 DEF StandsFor, Stands
  <2> QED
    BY <1>1, <1>2, <2>2, <2>3, SweptGoes
<1>6. ASSUME req'[r] = Idle,
             c \in root' <=> c \in companies', c \in collections' <=> c \in companies'
      PROVE  CompanyFits(c)'
  BY <1>1, <1>2, <1>6, SweptGoes DEF Stands
<1>7. CASE AddRow(r)
  <2>1. req'[r] = [w EXCEPT !.phase = "node"] /\ w.phase = "row" /\ companies' = companies \cup {c}
        /\ UNCHANGED <<root, collections>>
    BY <1>1, <1>7, GoFollows DEF AddRow, At
  <2> QED
    BY <1>4, <1>5, <2>1 DEF Stands
<1>8. CASE AddNode(r)
  <2>1. req'[r] = [w EXCEPT !.phase = "collection"] /\ w.phase = "node" /\ root' = root \cup {c}
        /\ UNCHANGED <<companies, collections>>
    BY <1>1, <1>8, GoFollows DEF AddNode, At
  <2> QED
    BY <1>4, <1>5, <2>1 DEF Stands
<1>9. CASE AddCollection(r)
  <2>1. req'[r] = Idle /\ w.phase = "collection" /\ collections' = collections \cup {c}
        /\ UNCHANGED <<companies, root>>
    BY <1>9, FinishFollows DEF AddCollection, At
  <2> QED
    BY <1>4, <1>6, <2>1 DEF Stands
<1>10. CASE AddFails(r)
  <2>1. PICK phase \in {"node", "collection"} :
          w.phase = phase /\ Go(r, IF phase = "node" THEN "undo row" ELSE "undo both")
    BY <1>10 DEF AddFails, At
  <2>2. req'[r] = [w EXCEPT !.phase = IF phase = "node" THEN "undo row" ELSE "undo both"]
    BY <1>1, <2>1, GoFollows
  <2>3. UNCHANGED <<companies, root, collections>>
    BY <1>10 DEF AddFails
  <2> QED
    BY <1>4, <1>5, <2>1, <2>2, <2>3 DEF Stands
<1>11. CASE UndoRow(r)
  <2>1. /\ w.phase \in {"undo row", "undo both"} /\ companies' = companies \ {c}
        /\ UNCHANGED <<root, collections>>
        /\ w.phase = "undo row" => Finish(r)
        /\ w.phase = "undo both" => Go(r, "undo node")
    BY <1>11 DEF UndoRow, At
  <2>2. CASE w.phase = "undo row"
    BY <1>4, <1>6, <2>1, <2>2, FinishFollows DEF Stands
  <2>3. CASE w.phase = "undo both"
    <3>1. req'[r] = [w EXCEPT !.phase = "undo node"]
      BY <1>1, <2>1, <2>3, GoFollows
    <3> QED
      BY <1>4, <1>5, <2>1, <2>3, <3>1 DEF Stands
  <2> QED
    BY <2>1, <2>2, <2>3
<1>12. CASE UndoNode(r)
  <2>1. req'[r] = Idle /\ w.phase = "undo node" /\ root' = root \ {c}
        /\ UNCHANGED <<companies, collections>>
    BY <1>12, FinishFollows DEF UndoNode, At
  <2> QED
    BY <1>4, <1>6, <2>1 DEF Stands
<1>13. ~AddAbandoned(r)
  <2>1. c \in Companies(w)
    BY <1>2, WorkOf, ConstantsAssumption
  <2> QED
    BY <1>1, <2>1, ShakeDisturbs DEF AddAbandoned
<1> QED
  BY <1>7, <1>8, <1>9, <1>10, <1>11, <1>12, <1>13 DEF AddStep

\* A company that nobody new is at work on.
LEMMA CompanyStart ==
  ASSUME TypeOK, NEW r \in Request, NEW w \in Requests, Start(r, w), NEW c \in Company,
         CompanyFits(c),
         w \in Drop \cup Addition /\ w.to = c => StandsFor(w, c),
         w \in Creation \cup Move \cup Deletion /\ c \in {w.from, w.to} => c \in companies
  PROVE  CompanyFits(c)'
<1>1. /\ req'[r] = w /\ \A q \in Request : q # r => req'[q] = req[q]
      /\ ~Single(r) /\ ~Sweeping(r)
      /\ UNCHANGED <<companies, root, collections>>
  BY StartServes
<1>2. \A v : StandsFor(v, c) => StandsFor(v, c)'
  BY <1>1 DEF StandsFor, Stands
<1>3. \A q \in Request : Sweeps(q, c)' => StandsFor(req[q], c)'
  BY <1>1, <1>2 DEF CompanyFits, Sweeps, Sweeping
<1>4. (\A q \in Request : ~Sweeps(q, c))'
        => Stands(c, c \in companies, c \in companies, c \in companies)'
  <2>1. \A q \in Request : Sweeps(q, c) => Sweeps(q, c)'
    BY <1>1 DEF Sweeps, Sweeping
  <2> QED
    BY <1>1, <2>1 DEF CompanyFits, Stands
<1>5. \A q \in Request : Single(q)' /\ c \in {req'[q].from, req'[q].to} => c \in companies'
  BY <1>1 DEF CompanyFits, Single
<1> QED
  BY <1>3, <1>4, <1>5 DEF CompanyFits

LEMMA BeginStands ==
  ASSUME TypeOK, TypeOK', Founded, NEW r \in Request, Begin(r), NEW c \in Company,
         c \notin shaken', CompanyFits(c)
  PROVE  CompanyFits(c)'
<1>1. ASSUME NEW o \in Project, Delete(r, o) PROVE CompanyFits(c)'
  <2> DEFINE w == [kind |-> "delete", phase |-> "points", project |-> o,
                   from |-> row[o], to |-> None]
  <2>1. row[o] \in companies /\ Start(r, w) /\ row[o] \in Company
    BY <1>1 DEF Delete, Founded, RowsFit, TypeOK
  <2>2. w \in Deletion /\ w \in Requests /\ w.from = row[o] /\ w.to = None
    BY <2>1 DEF Deletion, Requests
  <2> HIDE DEF w
  <2>3. w \notin Drop \cup Addition
    BY <2>2, Kinds
  <2> QED
    BY <2>1, <2>2, <2>3, CompanyStart, ConstantsAssumption
<1>2. ASSUME NEW o \in Project, NEW d \in Company, Create(r, o, d) PROVE CompanyFits(c)'
  <2> DEFINE w == [kind |-> "create", phase |-> "row", project |-> o, from |-> None, to |-> d]
  <2>1. d \in companies /\ Start(r, w)
    BY <1>2 DEF Create
  <2>2. w \in Creation /\ w \in Requests /\ w.to = d /\ w.from = None
    BY DEF Creation, Requests
  <2> HIDE DEF w
  <2>3. w \notin Drop \cup Addition
    BY <2>2, Kinds
  <2> QED
    BY <2>1, <2>2, <2>3, CompanyStart, ConstantsAssumption
<1>3. ASSUME NEW o \in Project, NEW d \in Company, Transfer(r, o, d) PROVE CompanyFits(c)'
  <2> DEFINE w == [kind |-> "transfer", phase |-> "copy", project |-> o,
                   from |-> row[o], to |-> d, back |-> FALSE]
  <2>1. row[o] \in companies /\ row[o] \in Company /\ d \in companies /\ Start(r, w)
    BY <1>3 DEF Transfer, Founded, RowsFit, TypeOK
  <2>2. w \in Move /\ w \in Requests /\ w.to = d /\ w.from = row[o]
    BY <2>1 DEF Move, Requests
  <2> HIDE DEF w
  <2>3. w \notin Drop \cup Addition
    BY <2>2, Kinds
  <2> QED
    BY <2>1, <2>2, <2>3, CompanyStart
<1>4. ASSUME NEW d \in Company, AddCompany(r, d) PROVE CompanyFits(c)'
  <2> DEFINE w == [kind |-> "add company", phase |-> "row", from |-> d, to |-> d]
  <2>1. d \notin companies \cup root \cup collections /\ Start(r, w)
    BY <1>4 DEF AddCompany
  <2>2. w \in Addition /\ w \in Requests /\ w.to = d /\ w.phase = "row"
    BY DEF Addition, Requests
  <2> HIDE DEF w
  <2>3. w \notin Creation \cup Move \cup Deletion \cup Drop
    BY <2>2, Kinds
  <2>4. StandsFor(w, d)
    BY <2>1, <2>2, <2>3 DEF StandsFor, Stands
  <2> QED
    BY <2>1, <2>2, <2>3, <2>4, CompanyStart
<1>5. ASSUME NEW d \in Company, DropCompany(r, d) PROVE CompanyFits(c)'
  <2> DEFINE w == [kind |-> "drop company", phase |-> "points", from |-> d, to |-> d]
  <2>1. d \in companies /\ Start(r, w)
    BY <1>5 DEF DropCompany
  <2>2. w \in Drop /\ w \in Requests /\ w.to = d /\ w.phase = "points"
    BY DEF Drop, Requests
  <2> HIDE DEF w
  <2>3. w \notin Creation \cup Move \cup Deletion
    BY <2>2, Kinds
  <2>4. ASSUME c = d PROVE StandsFor(w, c)
    <3>1. \A v \in Work : Collide(w, v) => c \in shaken'
      <4>1. c \in Companies(w)
        BY <2>2, <2>4, WorkOf, ConstantsAssumption
      <4> QED
        BY <2>1, <4>1, RivalsMarked DEF Start
    <3>2. ASSUME NEW q \in Request, Sweeps(q, c) PROVE FALSE
      <4>1. req[q] \in Work /\ Wide(req[q]) /\ c \in Companies(req[q])
        BY <3>2, AtWork, WorkOf, ConstantsAssumption DEF Sweeps, Sweeping
      <4>2. c \in Companies(w)
        BY <2>2, <2>4, WorkOf, ConstantsAssumption
      <4> QED
        BY <3>1, <4>1, <4>2 DEF Collide
    <3> QED
      BY <2>1, <2>2, <2>4, <3>2 DEF CompanyFits, StandsFor, Stands
  <2> QED
    BY <2>1, <2>2, <2>3, <2>4, CompanyStart
<1> QED
  BY <1>1, <1>2, <1>3, <1>4, <1>5 DEF Begin

LEMMA CompaniesFitNext ==
  Kept /\ Met /\ Founded /\ CompaniesFit /\ [Next]_vars => CompaniesFit'
<1> SUFFICES ASSUME Kept, Met, Founded, CompaniesFit, [Next]_vars,
                    NEW c \in Company, c \notin shaken'
             PROVE  CompanyFits(c)'
  BY DEF CompaniesFit
<1>1. TypeOK /\ TypeOK'
  BY TypeStep DEF Kept
<1>2. ASSUME shaken \subseteq shaken' PROVE CompanyFits(c)
  BY <1>2 DEF CompaniesFit
<1>3. CASE UNCHANGED <<companies, root, collections, req>> /\ shaken \subseteq shaken'
  <2>1. \A w : StandsFor(w, c) => StandsFor(w, c)'
    BY <1>3 DEF StandsFor, Stands
  <2> QED
    BY <1>2, <1>3, <2>1 DEF CompanyFits, Sweeps, Sweeping, Single, Stands
<1>4. CASE Write
  <2>1. UNCHANGED <<companies, root, collections, req>>
    BY <1>4 DEF Write, WriteBegins, WriteNode, WritePoint
  <2>2. shaken \subseteq shaken'
    BY <1>4, RivalsMarked DEF Write, WriteBegins, WriteNode, WritePoint
  <2> QED
    BY <1>3, <2>1, <2>2
<1>5. CASE Crash
  <2>1. /\ shaken \subseteq shaken' /\ UNCHANGED <<companies, root, collections>>
        /\ \A q \in Request : ~Single(q)' /\ ~Sweeping(q)'
    BY <1>5, NoneAfterCrash DEF Crash, Mark
  <2>2. \A q \in Request : ~Sweeps(q, c)
    <3> SUFFICES ASSUME NEW q \in Request, Sweeps(q, c) PROVE FALSE
      OBVIOUS
    <3>1. c \in Companies(req[q])
      BY <1>1, AtWork, WorkOf, ConstantsAssumption DEF Sweeps, Sweeping
    <3> QED
      BY <1>1, <1>5, <3>1, CrashMarks DEF Sweeps
  <2> QED
    BY <1>2, <2>1, <2>2 DEF CompanyFits, Sweeps, Stands
<1>6. ASSUME NEW r \in Request, Begin(r) PROVE CompanyFits(c)'
  <2>1. shaken \subseteq shaken'
    BY <1>6, RivalsMarked DEF Begin, Delete, Create, Transfer, AddCompany, DropCompany, Start
  <2> QED
    BY <1>1, <1>2, <1>6, <2>1, BeginStands
<1>7. ASSUME NEW r \in Request, Step(r) PROVE CompanyFits(c)'
  <2>1. Follows(r) /\ req[r] # Idle /\ c \notin shaken /\ CompanyFits(c)
    BY <1>1, <1>2, <1>7, StepFollows
  <2>2. req[r] \in Requests
    BY <1>1, <2>1, RequestType
  <2>3. CASE Single(r)
    <3>1. ~Sweeps(r, c)
      BY <2>2, <2>3, Kinds DEF Single, Sweeps, Sweeping
    <3> QED
      BY <1>1, <1>7, <2>1, <2>3, <3>1, SingleStays, StaysFits
  <2>4. CASE Sweeping(r) /\ c # req[r].to
    <3>1. ~Sweeps(r, c)
      BY <2>4 DEF Sweeps
    <3> QED
      BY <1>1, <1>7, <2>1, <2>4, <3>1, SweepingStays, StaysFits
  <2>5. CASE Sweeping(r) /\ c = req[r].to
    <3>1. /\ req[r] \in Drop => req[r].kind = "drop company"
          /\ req[r] \in Addition => req[r].kind = "add company"
      BY <2>2, Kinds
    <3>2. CASE req[r] \in Drop
      <4>1. DeletionStep(r)
        BY <1>7, <3>1, <3>2 DEF Step, At, CreateRow, CreateNode, NodeFails, UndoCreate, UndoFails,
           TransferStep, CopyPoints, RemovePoints, MoveGraph, MoveDocs, MoveRow, RowRefused,
           CopyFails, MoveFails, AddStep, AddRow, AddNode, AddCollection, AddFails,
           UndoRow, UndoNode, AddAbandoned
      <4> QED
        BY <1>1, <2>1, <2>5, <3>2, <4>1, DropStands
    <3>3. CASE req[r] \in Addition
      <4>1. AddStep(r)
        BY <1>7, <3>1, <3>3 DEF Step, At, CreateRow, CreateNode, NodeFails, UndoCreate, UndoFails,
           TransferStep, CopyPoints, RemovePoints, MoveGraph, MoveDocs, MoveRow, RowRefused,
           CopyFails, MoveFails, DeletionStep, DeletePoints, DeleteGraph, DeleteRow,
           DropCollection, DropGraph, DropRow, DeletionFails
      <4> QED
        BY <1>1, <2>1, <2>5, <3>3, <4>1, AddStands
    <3> QED
      BY <2>5, <3>2, <3>3 DEF Sweeping
  <2> QED
    BY <2>2, <2>3, <2>4, <2>5 DEF Single, Sweeping, Requests
<1> QED
  BY <1>3, <1>4, <1>5, <1>6, <1>7 DEF Next, Rests

LEMMA CompaniesFitInit == Init => CompaniesFit
<1> SUFFICES ASSUME Init PROVE CompaniesFit
  OBVIOUS
<1>1. \A r \in Request : ~Single(r) /\ ~Sweeping(r)
  BY NoneAtFirst
<1> QED
  BY <1>1 DEF CompaniesFit, CompanyFits, Sweeps, Stands, Init

-----------------------------------------------------------------------------
\* When everything has come to rest, no request serves or drops anything.
StoresFit == Kept /\ Met /\ Founded /\ ProjectsFit /\ CompaniesFit

LEMMA StoresFitMean == StoresFit => StoresInStep
<1> SUFFICES ASSUME StoresFit, Quiet PROVE StoresInStep
  BY DEF StoresInStep
<1>1. \A r \in Request : ~Single(r) /\ ~Sweeping(r)
  BY Kinds DEF Quiet, Active, Single, Sweeping, Requests
<1>2. ASSUME NEW p \in Project \ disturbed PROVE InStep(p)
  <2>1. /\ Within(points, p, {row[p]}) /\ InGraph(graph, owns, p, row[p])
        /\ row[p] # None => docs[p] \in {None, row[p]}
    BY <1>1, <1>2, RestingUndropped DEF StoresFit, ProjectsFit, Fits, Serves
  <2>2. \A o \in owns : o[1] \in Company /\ o = <<o[1], o[2]>>
    BY DEF StoresFit, Kept, TypeOK
  <2>3. row[p] \in Owner
    BY DEF StoresFit, Kept, TypeOK
  <2>4. \A o \in owns : o[2] = p => o[1] = row[p]
    BY <2>1, <2>2 DEF InGraph
  <2>5. row[p] # None => <<row[p], p>> \in owns
    BY <2>1, <2>3 DEF InGraph
  <2>6. \A d \in Company \ {row[p]} : points[d] \cap Of(p) = {}
    BY <2>1 DEF Within, Of
  <2>7. \A i \in Of(p) : graph[i] \in {None, row[p]}
    BY <2>1 DEF InGraph, Of
  <2> QED
    BY <2>1, <2>4, <2>5, <2>6, <2>7 DEF InStep, InGraph
<1>3. \A c \in Company \ shaken :
        /\ c \in companies <=> c \in root
        /\ c \in companies <=> c \in collections
  BY <1>1 DEF StoresFit, CompaniesFit, CompanyFits, Sweeps, Stands
<1> QED
  BY <1>2, <1>3 DEF StoresInStep

LEMMA StoresFitNext == StoresFit /\ [Next]_vars => StoresFit'
  BY KeptStep, MetNext, FoundedNext, ProjectsFitNext, CompaniesFitNext DEF StoresFit, Kept

LEMMA StoresFitInit == Init => StoresFit
  BY KeptInit, NoneAtFirst, FoundedInit, ProjectsFitInit, CompaniesFitInit DEF StoresFit, Met

\* A request that begins is one of the known kinds, and removes nothing yet.
LEMMA BeginStarts ==
  ASSUME TypeOK, NEW r \in Request, Begin(r)
  PROVE  \E w \in Requests :
            /\ Start(r, w) /\ w.phase # "remove"
            /\ w \in Drop => w.phase = "points"
<1> USE DEF Requests
<1>1. ASSUME NEW p \in Project, Delete(r, p) PROVE \E w \in Deletion : Start(r, w) /\ w.phase = "points"
  BY <1>1 DEF Delete, Deletion, TypeOK
<1>2. ASSUME NEW p \in Project, NEW c \in Company, Create(r, p, c)
      PROVE \E w \in Creation : Start(r, w) /\ w.phase = "row"
  BY <1>2 DEF Create, Creation
<1>3. ASSUME NEW p \in Project, NEW c \in Company, Transfer(r, p, c)
      PROVE \E w \in Move : Start(r, w) /\ w.phase = "copy"
  <2> DEFINE w == [kind |-> "transfer", phase |-> "copy", project |-> p,
                   from |-> row[p], to |-> c, back |-> FALSE]
  <2>1. Start(r, w) /\ w \in Move
    BY <1>3 DEF Transfer, Move, TypeOK
  <2> QED
    BY <2>1
<1>4. ASSUME NEW c \in Company, AddCompany(r, c)
      PROVE \E w \in Addition : Start(r, w) /\ w.phase = "row"
  <2> DEFINE w == [kind |-> "add company", phase |-> "row", from |-> c, to |-> c]
  <2>1. Start(r, w) /\ w \in Addition
    BY <1>4 DEF AddCompany, Addition
  <2> QED
    BY <2>1
<1>5. ASSUME NEW c \in Company, DropCompany(r, c)
      PROVE \E w \in Drop : Start(r, w) /\ w.phase = "points"
  <2> DEFINE w == [kind |-> "drop company", phase |-> "points", from |-> c, to |-> c]
  <2>1. Start(r, w) /\ w \in Drop
    BY <1>5 DEF DropCompany, Drop
  <2> QED
    BY <2>1
<1>6. \A w \in Creation \cup Move \cup Deletion \cup Addition : w \notin Drop
  BY Kinds
<1> QED
  BY <1>1, <1>2, <1>3, <1>4, <1>5, <1>6 DEF Begin

-----------------------------------------------------------------------------
\* The points of a project are removed from one collection when they are in
\* the other, and deletions are of projects meant to be deleted, or met.
Safe == ToldToDelete /\ Copied /\ ToldToDrop /\ NothingLost

\* What is to be cleared stays to be cleared.
LEMMA ClearedStep ==
  ASSUME NEW r \in Request, Step(r)
  PROVE  cleared' = cleared
<1>1. TransferStep(r) => cleared' = cleared
  BY DEF TransferStep, CopyPoints, RemovePoints, MoveGraph, MoveDocs, MoveRow, RowRefused,
         CopyFails, MoveFails
<1>2. DeletionStep(r) => cleared' = cleared
  BY DEF DeletionStep, DeletePoints, DeleteGraph, DeleteRow, DropCollection, DropGraph,
         DropRow, DeletionFails
<1>3. AddStep(r) => cleared' = cleared
  BY DEF AddStep, AddRow, AddNode, AddCollection, AddFails, UndoRow, UndoNode, AddAbandoned
<1> QED
  BY <1>1, <1>2, <1>3 DEF Step, CreateRow, CreateNode, NodeFails, UndoCreate, UndoFails

\* A new request about a project clears it, when it is a deletion, and when it
\* meets one that drops a company.
LEMMA StartClears ==
  ASSUME TypeOK, NEW r \in Request, NEW w \in Requests, Start(r, w)
  PROVE  /\ cleared \subseteq cleared'
         /\ w \in Deletion => w.project \in cleared'
         /\ \A q \in Request : w \in Creation \cup Move \cup Deletion /\ req[q] \in Drop
                               /\ req[q].to \in {w.from, w.to}  => w.project \in cleared'
<1>1. cleared' = cleared \cup Clears(w)
  BY DEF Start
<1>2. w \in Deletion => w.project \in Clears(w)
  BY Kinds DEF Clears
<1>3. ASSUME NEW q \in Request, w \in Creation \cup Move \cup Deletion, req[q] \in Drop,
             req[q].to \in {w.from, w.to}
      PROVE  w.project \in cleared'
  <2>1. /\ req[q] \in Work /\ req[q] \in Requests /\ Wide(req[q])
        /\ req[q].to \in Companies(req[q]) /\ req[q].kind = "drop company"
    BY <1>3, SweepingWork DEF Sweeping
  <2>2. req[q].to \in Companies(w) /\ Projects(w) = {w.project}
    BY <1>3, <2>1, WorkOf
  <2>3. req[q] \in Rivals(w)
    BY <2>1, <2>2 DEF Rivals, Collide
  <2>4. w.kind \in {"create", "transfer", "delete"}
    BY <1>3, Kinds
  <2>5. w.project \in Clears(w)
    BY <2>1, <2>2, <2>3, <2>4 DEF Clears
  <2> QED
    BY <1>1, <2>5
<1> QED
  BY <1>1, <1>2, <1>3

LEMMA ToldToDeleteNext == Kept /\ ToldToDelete /\ [Next]_vars => ToldToDelete'
<1> SUFFICES ASSUME Kept, ToldToDelete, [Next]_vars PROVE ToldToDelete'
  OBVIOUS
<1>1. TypeOK /\ TypeOK'
  BY TypeStep DEF Kept
<1>2. CASE UNCHANGED <<req, cleared>>
  BY <1>2 DEF ToldToDelete
<1>3. CASE Crash
  BY <1>3, NoneAfterCrash DEF ToldToDelete, Single
<1>4. ASSUME NEW r \in Request, Step(r) PROVE ToldToDelete'
  <2>1. Follows(r) /\ req[r] # Idle /\ cleared' = cleared
    BY <1>1, <1>4, StepFollows, ClearedStep
  <2>2. \A q \in Request : req'[q] \in Deletion =>
            req[q] \in Deletion /\ req'[q].project = req[q].project
    BY <1>1, <2>1, FollowsKind DEF Single
  <2> QED
    BY <2>1, <2>2 DEF ToldToDelete
<1>5. ASSUME NEW r \in Request, NEW w \in Requests, Start(r, w) PROVE ToldToDelete'
  <2>1. /\ req'[r] = w /\ \A q \in Request : q # r => req'[q] = req[q]
    BY <1>1, <1>5, StartServes
  <2> QED
    BY <1>1, <1>5, <2>1, StartClears DEF ToldToDelete
<1>6. ASSUME NEW r \in Request, Begin(r) PROVE \E w \in Requests : Start(r, w)
  BY <1>1, <1>6, BeginStarts
<1> QED
  BY <1>2, <1>3, <1>4, <1>5, <1>6 DEF Next, Write, WriteBegins, WriteNode, WritePoint, Rests

\* While one removes, no other request goes on; and only copying comes before.
LEMMA OnlyCopying ==
  ASSUME TypeOK, NEW r \in Request, Step(r), ~(CopyPoints(r) /\ req[r].from \in collections)
  PROVE  \A q \in Request : ~Removing(q)'
<1>1. /\ Follows(r) /\ req[r] # Idle
  BY StepFollows
<1>2. ASSUME NEW kind, NEW phase, At(r, kind, phase) PROVE \A q \in Request : q # r => ~Removing(q)'
  BY <1>1, <1>2, Kinds DEF At, Active, Follows, Removing, Requests
<1>3. \A q \in Request : q # r => ~Removing(q)'
  <2>1. \E kind, phase : At(r, kind, phase)
    BY DEF Step, CreateRow, CreateNode, NodeFails, UndoCreate, UndoFails,
           TransferStep, CopyPoints, RemovePoints, MoveGraph, MoveDocs, MoveRow, RowRefused,
           CopyFails, MoveFails, DeletionStep, DeletePoints, DeleteGraph, DeleteRow,
           DropCollection, DropGraph, DropRow, DeletionFails,
           AddStep, AddRow, AddNode, AddCollection, AddFails, UndoRow, UndoNode, AddAbandoned
  <2> QED
    BY <1>2, <2>1
<1>4. ASSUME Removing(r)' PROVE FALSE
  <2>1. req'[r] # Idle /\ req'[r] \in Move /\ req'[r].phase = "remove" /\ req'[r].kind = "transfer"
    BY <1>4, Kinds DEF Removing, Requests
  <2>2. req[r].kind = "transfer" /\ req[r] \in Requests
    BY <1>1, <2>1, RequestType DEF Follows, SameWork
  <2>3. TransferStep(r)
    BY <2>2 DEF Step, At, CreateRow, CreateNode, NodeFails, UndoCreate, UndoFails,
       DeletionStep, DeletePoints, DeleteGraph, DeleteRow, DropCollection, DropGraph, DropRow,
       DeletionFails, AddStep, AddRow, AddNode, AddCollection, AddFails, UndoRow, UndoNode,
       AddAbandoned
  <2>4. CASE RowRefused(r)
    BY <2>1, <2>2, <2>4, Kinds DEF RowRefused, Back, TypeOK, Move
  <2>5. CASE ~RowRefused(r)
    <3>1. Finish(r) \/ \E phase \in {"graph", "docs", "row"} : Go(r, phase)
      BY <2>3, <2>5 DEF TransferStep, CopyPoints, RemovePoints, MoveGraph, MoveDocs, MoveRow,
         CopyFails, MoveFails, GoOn, Later, AfterDocs
    <3>2. CASE Finish(r)
      BY <2>1, <3>2, FinishFollows
    <3>3. ASSUME NEW phase \in {"graph", "docs", "row"}, Go(r, phase) PROVE FALSE
      <4>1. req'[r] = [req[r] EXCEPT !.phase = phase]
        BY <1>1, <3>3, GoFollows
      <4>2. req'[r].phase = phase
        BY <2>2, <4>1, Kinds DEF Move
      <4> QED
        BY <2>1, <3>3, <4>2
    <3> QED
      BY <3>1, <3>2, <3>3
  <2> QED
    BY <2>4, <2>5
<1> QED
  BY <1>3, <1>4

LEMMA CopiedNext == Kept /\ Copied /\ [Next]_vars => Copied'
<1> SUFFICES ASSUME Kept, Copied, [Next]_vars PROVE Copied'
  OBVIOUS
<1>1. TypeOK /\ TypeOK' /\ Apart
  BY TypeStep DEF Kept, Orderly
<1>2. CASE UNCHANGED <<req, points, unseen>>
  BY <1>2 DEF Copied, Removing
<1>3. CASE Crash
  BY <1>3, NoneAfterCrash DEF Copied, Removing, Single
<1>4. ASSUME NEW r \in Request, Step(r) PROVE Copied'
  <2>1. CASE ~(CopyPoints(r) /\ req[r].from \in collections)
    BY <1>1, <1>4, <2>1, OnlyCopying DEF Copied
  <2>2. CASE CopyPoints(r) /\ req[r].from \in collections
    <3> DEFINE w == req[r]
    <3>1. /\ points' = [points EXCEPT ![w.to] = @ \cup Leaving(w)] /\ Go(r, "remove")
          /\ At(r, "transfer", "copy")
      BY <2>2 DEF CopyPoints
    <3>2. w \in Move /\ w # Idle /\ w.from \in Company /\ w.to \in Company /\ w.from # w.to
      <4>1. w \in Requests /\ w.kind = "transfer" /\ w # Idle
        BY <1>1, <3>1, RequestType DEF At
      <4> QED
        BY <1>1, <4>1, Kinds DEF Apart
    <3>3. /\ req'[r] = [w EXCEPT !.phase = "remove"]
          /\ \A q \in Request : q # r => req'[q] = req[q]
      BY <1>1, <3>1, <3>2, GoFollows DEF Follows
    <3>4. req'[r].from = w.from /\ req'[r].to = w.to /\ req'[r].project = w.project
      BY <3>2, <3>3 DEF Move
    <3>5. \A q \in Request : Removing(q)' => q = r
      BY <3>1, <3>3, Kinds DEF At, Active, Removing, Requests
    <3>6. points'[w.from] = points[w.from] /\ points'[w.to] = points[w.to] \cup Leaving(w)
      BY <1>1, <3>1, <3>2 DEF TypeOK
    <3>7. \A i \in points'[w.from] : i[1] = w.project => i \in points'[w.to]
      BY <3>6 DEF Leaving
    <3> QED
      BY <3>4, <3>5, <3>7 DEF Copied
  <2> QED
    BY <2>1, <2>2
<1>5. ASSUME NEW r \in Request, Begin(r) PROVE Copied'
  <2>1. PICK w \in Requests : Start(r, w) /\ w.phase # "remove"
    BY <1>1, <1>5, BeginStarts
  <2>2. /\ req'[r] = w /\ \A q \in Request : q # r => req'[q] = req[q]
        /\ UNCHANGED <<points, unseen>>
    BY <1>1, <2>1, StartServes DEF Start
  <2> QED
    BY <2>1, <2>2 DEF Copied, Removing
<1>6. ASSUME NEW w \in writes, WritePoint(w) PROVE Copied'
  <2> DEFINE i == <<w.project, w.piece>>
  <2>1. req' = req /\ w.to \in Company
    BY <1>1, <1>6 DEF WritePoint, TypeOK, Storing
  <2>2. CASE w.to \notin collections
    BY <1>2, <1>6, <2>1, <2>2 DEF WritePoint
  <2>3. CASE w.to \in collections
    <3>1. /\ points' = [points EXCEPT ![w.to] = @ \cup {i}]
          /\ unseen' = IF Emptying(w) THEN unseen \cup {i} ELSE unseen
      BY <1>6, <2>3 DEF WritePoint
    <3>2. \A c \in Company : points[c] \subseteq points'[c]
      BY <1>1, <3>1 DEF TypeOK
    <3>3. \A c \in Company : \A j \in points'[c] : j \in points[c] \/ (j = i /\ c = w.to)
      BY <1>1, <3>1 DEF TypeOK
    <3>4. ASSUME NEW r \in Request, Removing(r), NEW j \in points'[req[r].from],
                 j[1] = req[r].project
          PROVE  j \in points'[req[r].to] \cup unseen'
      <4>1. req[r].from \in Company /\ req[r].to \in Company /\ req[r] # Idle
        BY <3>4, Kinds DEF Removing, Requests
      <4>2. CASE j \in points[req[r].from]
        BY <3>1, <3>2, <3>4, <4>1, <4>2 DEF Copied
      <4>3. CASE j = i /\ req[r].from = w.to
        <5>1. Emptying(w)
          BY <3>4, <4>1, <4>3 DEF Emptying, Active, Removing
        <5> QED
          BY <3>1, <4>3, <5>1
      <4> QED
        BY <3>3, <4>1, <4>2, <4>3
    <3> QED
      BY <2>1, <3>4 DEF Copied, Removing
  <2> QED
    BY <2>2, <2>3
<1> QED
  BY <1>2, <1>3, <1>4, <1>5, <1>6 DEF Next, Write, WriteBegins, WriteNode, Rests

\* Whoever adds a project or points to a company is at work on it.
LEMMA DoomedStep ==
  ASSUME TypeOK, TypeOK', NEW r \in Request, Step(r), NEW c \in Company, Doomed(c)
  PROVE  Doomed(c)'
<1> DEFINE w == req[r]
<1>1. Follows(r) /\ w # Idle /\ cleared' = cleared /\ writes' = writes /\ w \in Requests
  BY StepFollows, ClearedStep, RequestType
<1>2. \A q \in Request : Single(q)' =>
        /\ Single(q) /\ req'[q].project = req[q].project
        /\ {req'[q].from, req'[q].to} = {req[q].from, req[q].to}
  BY <1>1, FollowsKind
<1>3. CASE CreateRow(r) \/ CreateNode(r) \/ NodeFails(r) \/ UndoCreate(r) \/ UndoFails(r)
  <2>1. w.kind = "create"
    BY <1>3 DEF At, CreateRow, CreateNode, NodeFails, UndoCreate, UndoFails
  <2>2. w \in Creation /\ w.project \in Project /\ w.to \in Company
    BY <1>1, <2>1, Kinds
  <2>3. points' = points
    BY <1>3 DEF CreateRow, CreateNode, NodeFails, UndoCreate, UndoFails
  <2>4. \A p \in Project : row'[p] = c => row[p] = c \/ (p = w.project /\ c = w.to)
    <3>1. \/ row' = row
          \/ \E d \in {w.to, None} : row' = [row EXCEPT ![w.project] = d]
      BY <1>3 DEF CreateRow, CreateNode, NodeFails, UndoCreate, UndoFails
    <3> QED
      BY <2>2, <3>1, ConstantsAssumption DEF TypeOK
  <2> QED
    BY <1>1, <1>2, <2>2, <2>3, <2>4 DEF Doomed, Single
<1>4. CASE TransferStep(r)
  <2>1. w.kind = "transfer"
    BY <1>4 DEF At, TransferStep, CopyPoints, RemovePoints, MoveGraph, MoveDocs, MoveRow,
       RowRefused, CopyFails, MoveFails
  <2>2. w \in Move /\ w.project \in Project /\ w.to \in Company /\ w.from \in Company
    BY <1>1, <2>1, Kinds
  <2>3. \A i \in points'[c] : i \in points[c] \/ (i[1] = w.project /\ c = w.to)
    <3>1. \/ points' = points
          \/ points' = [points EXCEPT ![w.from] = @ \ Leaving(w)]
          \/ \E part \in SUBSET Leaving(w) : points' = [points EXCEPT ![w.to] = @ \cup part]
      BY <1>4 DEF TransferStep, CopyPoints, RemovePoints, MoveGraph, MoveDocs, MoveRow,
         RowRefused, CopyFails, MoveFails
    <3> QED
      BY <2>2, <3>1 DEF Leaving, TypeOK
  <2>4. \A p \in Project : row'[p] = c => row[p] = c \/ (p = w.project /\ c = w.to)
    <3>1. row' = row \/ row' = [row EXCEPT ![w.project] = w.to]
      BY <1>4 DEF TransferStep, CopyPoints, RemovePoints, MoveGraph, MoveDocs, MoveRow,
         RowRefused, CopyFails, MoveFails
    <3> QED
      BY <2>2, <3>1 DEF TypeOK
  <2> QED
    BY <1>1, <1>2, <2>2, <2>3, <2>4 DEF Doomed, Single
<1>5. CASE DeletionStep(r) \/ AddStep(r)
  <2>1. \A i \in points'[c] : i \in points[c]
    <3>1. \/ points' = points
          \/ points' = [points EXCEPT ![w.from] = @ \ Of(w.project)]
          \/ points' = [points EXCEPT ![w.to] = {}]
      BY <1>5 DEF DeletionStep, DeletePoints, DeleteGraph, DeleteRow, DropCollection, DropGraph,
         DropRow, DeletionFails, AddStep, AddRow, AddNode, AddCollection, AddFails, UndoRow,
         UndoNode, AddAbandoned
    <3> QED
      BY <3>1 DEF TypeOK
  <2>2. \A p \in Project : row'[p] = c => row[p] = c
    <3>1. \/ row' = row \/ row' = [row EXCEPT ![w.project] = None]
          \/ row' = [p \in Project |-> IF row[p] = w.to THEN None ELSE row[p]]
      BY <1>5 DEF DeletionStep, DeletePoints, DeleteGraph, DeleteRow, DropCollection, DropGraph,
         DropRow, DeletionFails, AddStep, AddRow, AddNode, AddCollection, AddFails, UndoRow,
         UndoNode, AddAbandoned
    <3> QED
      BY <3>1, ConstantsAssumption DEF TypeOK
  <2> QED
    BY <1>1, <1>2, <2>1, <2>2 DEF Doomed
<1> QED
  BY <1>3, <1>4, <1>5, <1>1 DEF Step

LEMMA DoomedWrite ==
  ASSUME TypeOK, Write, NEW c \in Company, Doomed(c)
  PROVE  Doomed(c)'
<1>1. UNCHANGED <<req, row, cleared>>
  BY DEF Write, WriteBegins, WriteNode, WritePoint
<1>2. \A r \in Request : Single(r)' <=> Single(r)
  BY <1>1 DEF Single
<1>3. ASSUME NEW p \in Project, NEW n \in 1 .. Pieces, WriteBegins(p, n) PROVE Doomed(c)'
  <2> DEFINE w == [kind |-> "write", phase |-> "node", project |-> p, piece |-> n,
                   from |-> row[p], to |-> row[p]]
  <2>1. writes' = writes \cup {w} /\ points' = points
    BY <1>3 DEF WriteBegins
  <2>2. w.project = p /\ w.to = row[p]
    OBVIOUS
  <2> HIDE DEF w
  <2>3. \A v \in writes' : v.to = c => v.project \in cleared
    BY <2>1, <2>2 DEF Doomed
  <2> QED
    BY <1>1, <1>2, <2>1, <2>3 DEF Doomed
<1>4. ASSUME NEW w \in writes, WriteNode(w) \/ WritePoint(w) PROVE Doomed(c)'
  <2>1. \A v \in writes' : \E x \in writes : v.project = x.project /\ v.to = x.to
    <3>1. [w EXCEPT !.phase = "point"].project = w.project
      BY DEF TypeOK, Storing
    <3>2. [w EXCEPT !.phase = "point"].to = w.to
      BY DEF TypeOK, Storing
    <3> QED
      BY <1>4, <3>1, <3>2 DEF WriteNode, WritePoint
  <2>2. \A v \in writes' : v.to = c => v.project \in cleared
    BY <2>1 DEF Doomed
  <2>3. \A i \in points'[c] : i \in points[c] \/ (i = <<w.project, w.piece>> /\ c = w.to)
    <3>1. \/ points' = points
          \/ points' = [points EXCEPT ![w.to] = @ \cup {<<w.project, w.piece>>}]
      BY <1>4 DEF WriteNode, WritePoint
    <3> QED
      BY <3>1 DEF TypeOK
  <2>4. \A i \in points'[c] : i[1] \in cleared
    BY <2>3 DEF Doomed
  <2> QED
    BY <1>1, <1>2, <2>2, <2>4 DEF Doomed
<1> QED
  BY <1>3, <1>4 DEF Write

LEMMA DoomedStart ==
  ASSUME TypeOK, NEW r \in Request, NEW w \in Requests, Start(r, w),
         NEW c \in Company, NEW q \in Request, req[q] \in Drop, req[q].to = c, Doomed(c)
  PROVE  Doomed(c)'
<1>1. /\ req'[r] = w /\ \A x \in Request : x # r => req'[x] = req[x]
      /\ writes' = writes /\ UNCHANGED <<row, points>>
  BY StartServes
<1>2. q # r /\ req'[q] = req[q]
  BY <1>1, StartServes DEF Sweeping
<1>3. /\ cleared \subseteq cleared'
      /\ w \in Creation \cup Move \cup Deletion /\ c \in {w.from, w.to}
            => w.project \in cleared'
  BY StartClears
<1> QED
  BY <1>1, <1>2, <1>3 DEF Doomed, Single

\* What is at work on a company when it is to be dropped, is marked and cleared.
LEMMA DropClears ==
  ASSUME Kept, Met, ProjectsFit, NEW r \in Request, NEW w \in Requests, Start(r, w), w \in Drop
  PROVE  Doomed(w.to)'
<1> DEFINE c == w.to
<1>1. TypeOK
  BY DEF Kept
<1>2. /\ req'[r] = w /\ \A x \in Request : x # r => req'[x] = req[x]
      /\ writes' = writes /\ UNCHANGED <<row, points>> /\ disturbed \subseteq disturbed'
      /\ ~Single(r)
  BY <1>1, StartServes
<1>3. c \in Company /\ w.kind = "drop company" /\ c # None
  BY Kinds, ConstantsAssumption
<1>4. Projects(w) = {p \in Project : row[p] = c} /\ c \in Companies(w) /\ Wide(w)
  BY <1>1, <1>3, WorkOf
<1>5. Projects(w) \cup disturbed' \subseteq cleared'
  BY <1>3 DEF Start, Clears
<1>6. \A v \in Work : c \in Companies(v) => Projects(v) \subseteq disturbed'
  <2>1. \A v \in Work : c \in Companies(v) => Collide(w, v)
    BY <1>4 DEF Collide
  <2> QED
    BY <2>1, RivalsMarked DEF Start
<1>7. ASSUME NEW q \in Request, Single(q), c \in {req[q].from, req[q].to}
      PROVE  req[q].project \in disturbed'
  <2>1. /\ req[q] \in Work /\ Projects(req[q]) = {req[q].project}
        /\ Companies(req[q]) = {req[q].from, req[q].to} \ {None}
    BY <1>1, <1>7, AtWork, WorkOf DEF Single
  <2> QED
    BY <1>3, <1>6, <1>7, <2>1
<1>8. ASSUME NEW v \in writes, v.to = c PROVE v.project \in disturbed'
  <2>1. /\ v \in Work /\ Projects(v) = {v.project} /\ Companies(v) = {v.from, v.to} \ {None}
    BY <1>1, AtWork, WorkOf
  <2> QED
    BY <1>3, <1>6, <1>8, <2>1
<1>9. ASSUME NEW i \in points[c] PROVE i[1] \in cleared'
  <2> DEFINE p == i[1]
  <2>1. p \in Project
    <3>1. i \in Item
      BY <1>1, <1>3, <1>9 DEF TypeOK
    <3> QED
      BY <3>1
  <2>2. CASE p \in disturbed'
    BY <1>5, <2>2
  <2>3. CASE p \notin disturbed'
    <3>1. Fits(p)
      BY <1>2, <2>1, <2>3 DEF ProjectsFit
    <3>2. ASSUME NEW q \in Request, Serves(q, p) PROVE FALSE
      <4>1. Advanced(req[q]) /\ Single(q) /\ req[q].project = p
        BY <3>1, <3>2 DEF Fits, Serves
      <4>2. c \notin {req[q].from, req[q].to}
        BY <1>7, <2>3, <4>1
      <4>3. \E C \in SUBSET {req[q].from, req[q].to} : Within(points, p, C)
        <5>1. CASE req[q] \in Creation
          BY <4>1, <5>1 DEF Advanced, Creating
        <5>2. CASE req[q] \in Deletion
          BY <4>1, <5>2 DEF Advanced, Deleting
        <5>3. CASE req[q] \in Move
          BY <4>1, <5>3 DEF Advanced, Moving
        <5> QED
          BY <4>1, <5>1, <5>2, <5>3 DEF Single
      <4> QED
        BY <1>3, <1>9, <4>2, <4>3 DEF Within
    <3>3. \E C \in SUBSET {row[p]} : Within(points, p, C)
      BY <3>1, <3>2 DEF Fits, Resting
    <3>4. row[p] = c
      BY <1>3, <1>9, <3>3 DEF Within
    <3> QED
      BY <1>4, <1>5, <2>1, <3>4
  <2> QED
    BY <2>2, <2>3
<1>10. \A q \in Request : Single(q)' => q # r
  <2>1. w \notin Creation \cup Move \cup Deletion
    BY Kinds
  <2> QED
    BY <1>2, <2>1 DEF Single
<1>11. \A q \in Request : Single(q)' => Single(q) /\ req'[q] = req[q]
  BY <1>2, <1>10 DEF Single
<1> QED
  BY <1>2, <1>4, <1>5, <1>7, <1>8, <1>9, <1>11 DEF Doomed

LEMMA ToldToDropNext ==
  Kept /\ Met /\ ProjectsFit /\ ToldToDrop /\ [Next]_vars => ToldToDrop'
<1> SUFFICES ASSUME Kept, Met, ProjectsFit, ToldToDrop, [Next]_vars PROVE ToldToDrop'
  OBVIOUS
<1>1. TypeOK /\ TypeOK'
  BY TypeStep DEF Kept
<1>2. CASE UNCHANGED vars
  BY <1>2 DEF ToldToDrop, Doomed, Single
<1>3. CASE Crash
  BY <1>3, NoneAfterCrash DEF ToldToDrop, Sweeping
<1>4. CASE Write
  <2>1. req' = req
    BY <1>4 DEF Write, WriteBegins, WriteNode, WritePoint
  <2> QED
    BY <1>1, <1>4, <2>1, DoomedWrite DEF ToldToDrop
<1>5. ASSUME NEW r \in Request, Step(r) PROVE ToldToDrop'
  <2> SUFFICES ASSUME NEW c \in Company, NEW q \in Request, req'[q] \in Drop,
                      req'[q].phase = "points", req'[q].to = c
               PROVE  Doomed(c)'
    BY DEF ToldToDrop
  <2>1. Follows(r) /\ req[r] # Idle
    BY <1>1, <1>5, StepFollows
  <2>2. req[q] \in Drop /\ req'[q].to = req[q].to
    BY <1>1, <2>1, FollowsKind DEF Sweeping
  <2>3. req[q].phase = "points"
    <3>1. CASE q # r
      BY <2>1, <3>1 DEF Follows
    <3>2. CASE q = r
      <4>1. req[r].kind = "drop company" /\ req'[r] # Idle
        BY <2>2, <3>2, Kinds DEF Requests
      <4>2. Finish(r) \/ Go(r, "graph") \/ Go(r, "row")
        BY <1>5, <4>1 DEF Step, At, CreateRow, CreateNode, NodeFails, UndoCreate, UndoFails,
           TransferStep, CopyPoints, RemovePoints, MoveGraph, MoveDocs, MoveRow, RowRefused,
           CopyFails, MoveFails, DeletionStep, DeletePoints, DeleteGraph, DeleteRow,
           DropCollection, DropGraph, DropRow, DeletionFails, AddStep, AddRow, AddNode,
           AddCollection, AddFails, UndoRow, UndoNode, AddAbandoned
      <4>3. ASSUME NEW phase \in {"graph", "row"}, Go(r, phase) PROVE FALSE
        <5>1. req'[r] = [req[r] EXCEPT !.phase = phase]
          BY <1>1, <2>1, <4>3, GoFollows
        <5>2. req'[r].phase = phase
          BY <2>2, <3>2, <5>1 DEF Drop
        <5> QED
          BY <3>2, <4>3, <5>2
      <4> QED
        BY <1>1, <4>1, <4>2, <4>3, FinishFollows
    <3> QED
      BY <3>1, <3>2
  <2>4. Doomed(c)
    BY <2>2, <2>3 DEF ToldToDrop
  <2> QED
    BY <1>1, <1>5, <2>4, DoomedStep
<1>6. ASSUME NEW r \in Request, Begin(r) PROVE ToldToDrop'
  <2>1. PICK w \in Requests : Start(r, w)
    BY <1>1, <1>6, BeginStarts
  <2>2. /\ req'[r] = w /\ \A q \in Request : q # r => req'[q] = req[q]
    BY <1>1, <2>1, StartServes
  <2>3. ASSUME NEW c \in Company, NEW q \in Request, q # r, req[q] \in Drop,
               req[q].phase = "points", req[q].to = c
        PROVE  Doomed(c)'
    <3>1. Doomed(c)
      BY <2>3 DEF ToldToDrop
    <3> QED
      BY <1>1, <2>1, <2>3, <3>1, DoomedStart
  <2>4. w \in Drop => Doomed(w.to)'
    BY <2>1, DropClears
  <2>5. ASSUME NEW c \in Company, NEW q \in Request, req'[q] \in Drop,
               req'[q].phase = "points", req'[q].to = c
        PROVE  Doomed(c)'
    <3>1. CASE q = r
      BY <2>2, <2>4, <2>5, <3>1
    <3>2. CASE q # r
      BY <2>2, <2>3, <2>5, <3>2
    <3> QED
      BY <3>1, <3>2
  <2> QED
    BY <2>5 DEF ToldToDrop
<1> QED
  BY <1>2, <1>3, <1>4, <1>5, <1>6 DEF Next, Rests

\* A step of another kind keeps every point.
LEMMA StepKeepsPoints ==
  ASSUME TypeOK, NEW r \in Request, Step(r),
         ~RemovePoints(r), ~DeletePoints(r), ~DropCollection(r), NEW c \in Company
  PROVE  points[c] \subseteq points'[c]
<1>1. points' = points \/ \E C, d : points' = [points EXCEPT ![d] = @ \cup C]
  BY DEF Step, CreateRow, CreateNode, NodeFails, UndoCreate, UndoFails,
     TransferStep, CopyPoints, MoveGraph, MoveDocs, MoveRow, RowRefused,
     CopyFails, MoveFails, DeletionStep, DeleteGraph, DeleteRow,
     DropGraph, DropRow, DeletionFails, AddStep, AddRow, AddNode,
     AddCollection, AddFails, UndoRow, UndoNode, AddAbandoned
<1> QED
  BY <1>1 DEF TypeOK

LEMMA NothingLostStep ==
  ASSUME Kept, Safe, NEW r \in Request, Step(r)
  PROVE  NothingLost'
<1> DEFINE w == req[r]
<1>1. TypeOK /\ Apart /\ w # Idle /\ w \in Requests /\ cleared' = cleared
  <2>1. TypeOK
    BY DEF Kept
  <2> QED
    BY <2>1, StepFollows, RequestType, ClearedStep DEF Kept, Orderly
<1>2. UNCHANGED <<written, unseen>>
  <2>1. TransferStep(r) => UNCHANGED <<written, unseen>>
    BY DEF TransferStep, CopyPoints, RemovePoints, MoveGraph, MoveDocs, MoveRow, RowRefused,
           CopyFails, MoveFails
  <2>2. DeletionStep(r) => UNCHANGED <<written, unseen>>
    BY DEF DeletionStep, DeletePoints, DeleteGraph, DeleteRow, DropCollection, DropGraph,
           DropRow, DeletionFails
  <2>3. AddStep(r) => UNCHANGED <<written, unseen>>
    BY DEF AddStep, AddRow, AddNode, AddCollection, AddFails, UndoRow, UndoNode, AddAbandoned
  <2> QED
    BY <2>1, <2>2, <2>3 DEF Step, CreateRow, CreateNode, NodeFails, UndoCreate, UndoFails
<1>3. SUFFICES ASSUME NEW i \in written \ unseen, i[1] \notin cleared,
                      NEW c \in Company, i \in points[c]
               PROVE  \E d \in Company : i \in points'[d]
  BY <1>1, <1>2 DEF Safe, NothingLost
<1>4. CASE RemovePoints(r)
  <2>1. w \in Move /\ w.from \in Company /\ w.to \in Company /\ w.from # w.to /\ Removing(r)
    BY <1>1, <1>4, Kinds DEF RemovePoints, At, Removing, Apart
  <2>2. points' = [points EXCEPT ![w.from] = @ \ Leaving(w)]
    BY <1>4 DEF RemovePoints
  <2>3. /\ points'[w.from] = points[w.from] \ Leaving(w)
        /\ \A d \in Company : d # w.from => points'[d] = points[d]
    BY <1>1, <2>1, <2>2 DEF TypeOK
  <2>4. CASE c = w.from /\ i \in Leaving(w)
    <3>1. i \in points[w.to]
      BY <1>3, <2>1, <2>4 DEF Leaving, Safe, Copied
    <3> QED
      BY <2>1, <2>3, <3>1
  <2> QED
    BY <1>3, <2>3, <2>4
<1>5. CASE DeletePoints(r)
  <2>1. w \in Deletion /\ w.project \in cleared
    BY <1>1, <1>5, Kinds DEF DeletePoints, At, Safe, ToldToDelete
  <2>2. points' = [points EXCEPT ![w.from] = @ \ Of(w.project)]
    BY <1>5 DEF DeletePoints
  <2>3. i \notin Of(w.project)
    BY <1>3, <2>1 DEF Of
  <2> QED
    BY <1>1, <1>3, <2>2, <2>3 DEF TypeOK
<1>6. CASE DropCollection(r)
  <2>1. w \in Drop /\ w.to \in Company /\ w.phase = "points"
    BY <1>1, <1>6, Kinds DEF DropCollection, At
  <2>2. Doomed(w.to)
    BY <2>1 DEF Safe, ToldToDrop
  <2>3. c # w.to
    BY <1>3, <2>2 DEF Doomed
  <2> QED
    BY <1>1, <1>3, <1>6, <2>3 DEF DropCollection, TypeOK
<1> QED
  BY <1>1, <1>3, <1>4, <1>5, <1>6, StepKeepsPoints

LEMMA NothingLostNext == Kept /\ Safe /\ [Next]_vars => NothingLost'
<1> SUFFICES ASSUME Kept, Safe, [Next]_vars PROVE NothingLost'
  OBVIOUS
<1>1. TypeOK
  BY DEF Kept
<1>2. CASE UNCHANGED <<points, written, unseen>> /\ cleared \subseteq cleared'
  BY <1>2 DEF Safe, NothingLost
<1>3. ASSUME NEW r \in Request, Begin(r) PROVE NothingLost'
  <2>1. PICK w \in Requests : Start(r, w)
    BY <1>1, <1>3, BeginStarts
  <2> QED
    BY <1>2, <2>1 DEF Start
<1>4. ASSUME NEW w \in writes, WritePoint(w) PROVE NothingLost'
  <2> DEFINE i == <<w.project, w.piece>>
  <2>1. w.to \in Company /\ cleared' = cleared
    BY <1>1, <1>4 DEF WritePoint, TypeOK, Storing
  <2>2. CASE w.to \notin collections
    BY <1>2, <1>4, <2>1, <2>2 DEF WritePoint
  <2>3. CASE w.to \in collections
    <3>1. /\ points' = [points EXCEPT ![w.to] = @ \cup {i}] /\ written' = written \cup {i}
          /\ unseen \subseteq unseen'
      BY <1>4, <2>3 DEF WritePoint
    <3>2. i \in points'[w.to] /\ \A c \in Company : points[c] \subseteq points'[c]
      BY <1>1, <2>1, <3>1 DEF TypeOK
    <3> QED
      BY <2>1, <3>1, <3>2 DEF Safe, NothingLost
  <2> QED
    BY <2>2, <2>3
<1>5. CASE Crash
  BY <1>2, <1>5 DEF Crash
<1> QED
  BY <1>2, <1>3, <1>4, <1>5, NothingLostStep
     DEF Next, Write, WriteBegins, WriteNode, Rests

LEMMA SafeNext == StoresFit /\ Safe /\ [Next]_vars => Safe'
  BY ToldToDeleteNext, CopiedNext, ToldToDropNext, NothingLostNext DEF StoresFit, Safe

LEMMA SafeInit == Init => Safe
<1> SUFFICES ASSUME Init PROVE Safe
  OBVIOUS
<1>1. ToldToDelete /\ Copied /\ ToldToDrop
  BY NoneAtFirst DEF ToldToDelete, Copied, ToldToDrop, Removing, Single, Sweeping
<1>2. NothingLost
  <2>1. ASSUME NEW i \in written PROVE \E c \in Company : i \in points[c]
    <3>1. i \in Item /\ i[2] = 1 /\ Home[i[1]] # None
      BY <2>1 DEF Init
    <3>2. i[1] \in Project
      BY <3>1
    <3>3. Home[i[1]] \in Company
      BY <3>1, <3>2, ConstantsAssumption
    <3>4. i \in points[Home[i[1]]]
      BY <3>1, <3>3 DEF Init
    <3> QED
      BY <3>3, <3>4
  <2> QED
    BY <2>1 DEF NothingLost
<1> QED
  BY <1>1, <1>2 DEF Safe

LEMMA SafeMeans == Safe => NothingLost
  BY DEF Safe

-----------------------------------------------------------------------------
\* Every variable keeps its type, for any number of projects and companies.
THEOREM TypeCorrect == Spec => []TypeOK
  BY TypeInit, TypeStep, PTL DEF Spec

\* No point is in two collections, however many transfers overlap with other
\* requests, failures and crashes, but between copying and removing, or when
\* removing failed.
THEOREM PointsInOnePlaceHolds == Spec => []PointsInOnePlace
  BY KeptInit, KeptStep, KeptMeans, PTL DEF Spec


\* At rest, the four stores place an unmarked project in the company its row
\* names and have nothing of a deleted one, and an unmarked company is in all
\* stores or in none: whatever requests ran side by side, and whatever was
\* undone on the way.
THEOREM StoresInStepHolds == Spec => []StoresInStep
  BY StoresFitInit, StoresFitNext, StoresFitMean, PTL DEF Spec

\* The point of a file stays in some collection until its deletion was asked
\* for, through overlapping transfers, failures and crashes.
THEOREM NothingLostHolds == Spec => []NothingLost
  BY StoresFitInit, StoresFitNext, SafeInit, SafeNext, SafeMeans, PTL DEF Spec

-----------------------------------------------------------------------------
(***************************************************************************)
(* AccountDeletion, for any number of requests, companies, collections,    *)
(* failing calls and crashes.  Nothing below refers to what is above.      *)
(***************************************************************************)
\* What is on record of a task.  Its audit record reads the companies a second
\* time: the ones of the snapshot that still have a row are then still owned.
Recording(t) == pc[t] \notin {"idle", "selected", "created", "end"}
OnRecordAt(t) ==
    /\ Recording(t) \/ removed[t] # {} => t \in audits \/ ~user
    /\ t \in audits => pc[t] \notin {"idle", "selected", "created"}
    /\ user => (snapshot[t] \ Shared) \cap companyRows \subseteq ownerRows
    /\ t \in audits => (snapshot[t] \ Shared) \cap companyRows \subseteq named[t]
    /\ t \in audits => removed[t] \ Shared \subseteq named[t]
OnRecord == (~user => audits # {}) /\ \A t \in Task : OnRecordAt(t)

\* How far a task is with the rows of its snapshot.
DeletingAt(t) ==
    /\ \A c \in snapshot[t] : c \in companyRows \/ \E v \in Task : c \in removed[v]
    /\ removed[t] \subseteq snapshot[t]
    /\ pc[t] = "idle" => removed[t] = {}
    /\ pc[t] = "rows" => left[t] \subseteq snapshot[t]
                         /\ (snapshot[t] \ left[t]) \cap companyRows = {}
    /\ pc[t] = "finish" => ~user /\ snapshot[t] \cap companyRows = {}
    /\ status[t] = "completed" => pc[t] = "end"
AccountDeleting == \A t \in Task : DeletingAt(t)

LastAt(t) == pc[t] \in {"finish", "end"} /\ left[t] = {} /\ snapshot[t] \cap companyRows = {}
GoneAt(t) == status[t] = "completed" => ~user /\ snapshot[t] \cap companyRows = {}

Saga ==
    /\ AccountTypeOK /\ OnRecord /\ AccountDeleting
    /\ CompletedMeansGone /\ UserGoesLast

-----------------------------------------------------------------------------
USE DEF rows, stores, record, accountVars, Goto, Status, CallFails

\* The first state is well formed.
LEMMA AccountTypeInit == AccountInit => AccountTypeOK
  BY AccountAssumption DEF AccountInit, AccountTypeOK

\* Every step keeps it so.
LEMMA AccountTypeStep == AccountTypeOK /\ [AccountNext]_accountVars => AccountTypeOK'
<1> SUFFICES ASSUME AccountTypeOK, [AccountNext]_accountVars PROVE AccountTypeOK'
  OBVIOUS
<1> USE AccountAssumption DEF AccountTypeOK
<1>1. CASE UNCHANGED accountVars
  BY <1>1
<1>2. ASSUME NEW c \in Owned, CreateCompany(c) PROVE AccountTypeOK'
  BY <1>2 DEF CreateCompany
<1>3. ASSUME NEW c \in Owned, InsertOwner(c) PROVE AccountTypeOK'
  BY <1>3 DEF InsertOwner
<1>4. ASSUME NEW c \in Owned, LoseOwnership(c) PROVE AccountTypeOK'
  BY <1>4 DEF LoseOwnership
<1>5. ASSUME NEW t \in Task, RequestStep(t) PROVE AccountTypeOK'
  <2>1. CASE SelectOwned(t)
    BY <2>1 DEF SelectOwned
  <2>2. CASE InsertTask(t)
    BY <2>2 DEF InsertTask
  <2>3. CASE WriteAudit(t)
    BY <2>3 DEF WriteAudit
  <2>4. CASE RequestFails(t)
    BY <2>4 DEF RequestFails
  <2> QED
    BY <1>5, <2>1, <2>2, <2>3, <2>4 DEF RequestStep
<1>6. ASSUME NEW t \in Task, CleanupStep(t) PROVE AccountTypeOK'
  <2>1. CASE InvalidateSessions(t)
    BY <2>1 DEF InvalidateSessions
  <2>2. CASE RevokeFails(t)
    BY <2>2 DEF RevokeFails, FailIn
  <2>3. CASE BeginCleanup(t)
    BY <2>3 DEF BeginCleanup
  <2>4. CASE CleanCollection(t)
    BY <2>4 DEF CleanCollection
  <2>5. CASE CleanCollectionFails(t)
    BY <2>5 DEF CleanCollectionFails, FailIn
  <2>6. CASE SkipQdrant(t)
    BY <2>6 DEF SkipQdrant
  <2>7. CASE CleanGraph(t)
    BY <2>7 DEF CleanGraph
  <2>8. CASE SkipGraph(t)
    BY <2>8 DEF SkipGraph
  <2> QED
    BY <1>6, <2>1, <2>2, <2>3, <2>4, <2>5, <2>6, <2>7, <2>8 DEF CleanupStep
<1>7. ASSUME NEW t \in Task, RowsStep(t) PROVE AccountTypeOK'
  <2>1. CASE BeginRows(t)
    BY <2>1 DEF BeginRows
  <2>2. CASE DeleteCompany(t)
    BY <2>2 DEF DeleteCompany
  <2>3. CASE DeleteUser(t)
    BY <2>3 DEF DeleteUser
  <2>4. CASE RowsFail(t)
    BY <2>4 DEF RowsFail, FailIn
  <2>5. CASE Complete(t)
    BY <2>5 DEF Complete
  <2> QED
    BY <1>7, <2>1, <2>2, <2>3, <2>4, <2>5 DEF RowsStep
<1>8. ASSUME NEW t \in Task, CommitFails(t) \/ WorkerDies(t) PROVE AccountTypeOK'
  <2>1. CASE CommitFails(t)
    BY <2>1 DEF CommitFails
  <2>2. CASE WorkerDies(t)
    BY <2>2 DEF WorkerDies
  <2> QED
    BY <1>8, <2>1, <2>2
<1> QED
  BY <1>1, <1>2, <1>3, <1>4, <1>5, <1>6, <1>7, <1>8
     DEF AccountNext, TaskStep, OtherRequest, AccountRests

\* The state stays well formed, and an ownership row keeps both the user and
\* the company it refers to (company_users, database.py).
THEOREM AccountTypeCorrect == AccountSpec => []AccountTypeOK
  BY AccountTypeInit, AccountTypeStep, PTL DEF AccountSpec

\* A company that a task has passed stays away: ids are not used again.
LEMMA DeletingStep ==
  AccountTypeOK /\ AccountDeleting /\ [AccountNext]_accountVars
  => AccountDeleting'
<1> SUFFICES ASSUME AccountTypeOK, AccountDeleting, [AccountNext]_accountVars,
                    NEW u \in Task, DeletingAt(u)
             PROVE  DeletingAt(u)'
  BY DEF AccountDeleting
<1> USE DEF AccountTypeOK, DeletingAt
<1>1. CASE UNCHANGED accountVars
  BY <1>1
<1>2. ASSUME NEW c \in Owned, CreateCompany(c) PROVE DeletingAt(u)'
  <2>1. \A v \in Task : c \notin removed[v]
    BY <1>2 DEF CreateCompany
  <2> QED
    BY <1>2, <2>1 DEF CreateCompany
<1>3. ASSUME NEW c \in Owned, InsertOwner(c) PROVE DeletingAt(u)'
  BY <1>3 DEF InsertOwner
<1>4. ASSUME NEW c \in Owned, LoseOwnership(c) PROVE DeletingAt(u)'
  BY <1>4 DEF LoseOwnership
<1>5. ASSUME NEW t \in Task, RequestStep(t) PROVE DeletingAt(u)'
  <2>1. CASE SelectOwned(t)
    BY <2>1 DEF SelectOwned
  <2>2. CASE InsertTask(t)
    BY <2>2 DEF InsertTask
  <2>3. CASE WriteAudit(t)
    BY <2>3 DEF WriteAudit
  <2>4. CASE RequestFails(t)
    BY <2>4 DEF RequestFails
  <2> QED
    BY <1>5, <2>1, <2>2, <2>3, <2>4 DEF RequestStep
<1>6. ASSUME NEW t \in Task, CleanupStep(t) PROVE DeletingAt(u)'
  <2>1. CASE InvalidateSessions(t)
    BY <2>1 DEF InvalidateSessions
  <2>2. CASE RevokeFails(t)
    BY <2>2 DEF RevokeFails, FailIn
  <2>3. CASE BeginCleanup(t)
    BY <2>3 DEF BeginCleanup
  <2>4. CASE CleanCollection(t)
    BY <2>4 DEF CleanCollection
  <2>5. CASE CleanCollectionFails(t)
    BY <2>5 DEF CleanCollectionFails, FailIn
  <2>6. CASE SkipQdrant(t)
    BY <2>6 DEF SkipQdrant
  <2>7. CASE CleanGraph(t)
    BY <2>7 DEF CleanGraph
  <2>8. CASE SkipGraph(t)
    BY <2>8 DEF SkipGraph
  <2> QED
    BY <1>6, <2>1, <2>2, <2>3, <2>4, <2>5, <2>6, <2>7, <2>8 DEF CleanupStep
<1>7. ASSUME NEW t \in Task, RowsStep(t) PROVE DeletingAt(u)'
  <2>1. CASE BeginRows(t)
    BY <2>1 DEF BeginRows
  <2>2. CASE DeleteCompany(t)
    BY <2>2 DEF DeleteCompany
  <2>3. CASE DeleteUser(t)
    BY <2>3 DEF DeleteUser
  <2>4. CASE RowsFail(t)
    BY <2>4 DEF RowsFail, FailIn
  <2>5. CASE Complete(t)
    BY <2>5 DEF Complete
  <2> QED
    BY <1>7, <2>1, <2>2, <2>3, <2>4, <2>5 DEF RowsStep
<1>8. ASSUME NEW t \in Task, CommitFails(t) \/ WorkerDies(t) PROVE DeletingAt(u)'
  <2>1. CASE CommitFails(t)
    BY <2>1 DEF CommitFails
  <2>2. CASE WorkerDies(t)
    BY <2>2 DEF WorkerDies
  <2> QED
    BY <1>8, <2>1, <2>2
<1> QED
  BY <1>1, <1>2, <1>3, <1>4, <1>5, <1>6, <1>7, <1>8
     DEF AccountNext, TaskStep, OtherRequest, AccountRests

\* Only DeleteUser takes the user away.
LEMMA UserGoes ==
  ASSUME [AccountNext]_accountVars, user, ~user' PROVE \E t \in Task : DeleteUser(t)
<1>1. ASSUME NEW t \in Task, TaskStep(t), ~DeleteUser(t) PROVE FALSE
  BY <1>1 DEF TaskStep, RequestStep, CleanupStep, RowsStep, SelectOwned, InsertTask,
     WriteAudit, RequestFails, InvalidateSessions, RevokeFails, FailIn, BeginCleanup,
     CleanCollection, CleanCollectionFails, SkipQdrant, CleanGraph, SkipGraph, BeginRows,
     DeleteCompany, RowsFail, Complete, CommitFails, WorkerDies
<1>2. ASSUME NEW c \in Owned, OtherRequest(c) PROVE FALSE
  BY <1>2 DEF OtherRequest, CreateCompany, InsertOwner, LoseOwnership
<1> QED
  BY <1>1, <1>2 DEF AccountNext, AccountRests

\* Nothing is deleted that is not on record, whatever is created, lost or deleted
\* by another task between the snapshot, the record and the deletion.
LEMMA OnRecordStep ==
  AccountTypeOK /\ OnRecord /\ AccountDeleting /\ [AccountNext]_accountVars
  => (\A u \in Task : OnRecordAt(u))'
<1> SUFFICES ASSUME AccountTypeOK, OnRecord, AccountDeleting,
                    [AccountNext]_accountVars, NEW u \in Task, OnRecordAt(u), DeletingAt(u)
             PROVE  OnRecordAt(u)'
  BY DEF OnRecord, AccountDeleting
<1> USE DEF AccountTypeOK, OnRecordAt, Recording
<1>1. CASE UNCHANGED accountVars
  BY <1>1
<1>2. ASSUME NEW c \in Owned, CreateCompany(c) PROVE OnRecordAt(u)'
  <2>1. c \notin companyRows /\ \A v \in Task : c \notin removed[v]
    BY <1>2 DEF CreateCompany
  <2>2. c \notin snapshot[u]
    BY <2>1 DEF DeletingAt
  <2> QED
    BY <1>2, <2>2 DEF CreateCompany
<1>3. ASSUME NEW c \in Owned, InsertOwner(c) PROVE OnRecordAt(u)'
  BY <1>3 DEF InsertOwner
<1>4. ASSUME NEW c \in Owned, LoseOwnership(c) PROVE OnRecordAt(u)'
  BY <1>4 DEF LoseOwnership
<1>5. ASSUME NEW t \in Task, RequestStep(t) PROVE OnRecordAt(u)'
  <2>1. CASE SelectOwned(t)
    BY <2>1 DEF SelectOwned
  <2>2. CASE InsertTask(t)
    BY <2>2 DEF InsertTask
  <2>3. CASE WriteAudit(t)
    BY <2>3 DEF WriteAudit
  <2>4. CASE RequestFails(t)
    BY <2>4 DEF RequestFails
  <2> QED
    BY <1>5, <2>1, <2>2, <2>3, <2>4 DEF RequestStep
<1>6. ASSUME NEW t \in Task, CleanupStep(t) PROVE OnRecordAt(u)'
  <2>1. CASE InvalidateSessions(t)
    BY <2>1 DEF InvalidateSessions
  <2>2. CASE RevokeFails(t)
    BY <2>2 DEF RevokeFails, FailIn
  <2>3. CASE BeginCleanup(t)
    BY <2>3 DEF BeginCleanup
  <2>4. CASE CleanCollection(t)
    BY <2>4 DEF CleanCollection
  <2>5. CASE CleanCollectionFails(t)
    BY <2>5 DEF CleanCollectionFails, FailIn
  <2>6. CASE SkipQdrant(t)
    BY <2>6 DEF SkipQdrant
  <2>7. CASE CleanGraph(t)
    BY <2>7 DEF CleanGraph
  <2>8. CASE SkipGraph(t)
    BY <2>8 DEF SkipGraph
  <2> QED
    BY <1>6, <2>1, <2>2, <2>3, <2>4, <2>5, <2>6, <2>7, <2>8 DEF CleanupStep
<1>7. ASSUME NEW t \in Task, RowsStep(t) PROVE OnRecordAt(u)'
  <2>1. CASE BeginRows(t)
    BY <2>1 DEF BeginRows
  <2>2. CASE DeleteCompany(t)
    BY <2>2 DEF DeleteCompany, DeletingAt
  <2>3. CASE DeleteUser(t)
    BY <2>3 DEF DeleteUser
  <2>4. CASE RowsFail(t)
    BY <2>4 DEF RowsFail, FailIn
  <2>5. CASE Complete(t)
    BY <2>5 DEF Complete
  <2> QED
    BY <1>7, <2>1, <2>2, <2>3, <2>4, <2>5 DEF RowsStep
<1>8. ASSUME NEW t \in Task, CommitFails(t) \/ WorkerDies(t) PROVE OnRecordAt(u)'
  <2>1. CASE CommitFails(t)
    BY <2>1 DEF CommitFails
  <2>2. CASE WorkerDies(t)
    BY <2>2 DEF WorkerDies
  <2> QED
    BY <1>8, <2>1, <2>2
<1> QED
  BY <1>1, <1>2, <1>3, <1>4, <1>5, <1>6, <1>7, <1>8
     DEF AccountNext, TaskStep, OtherRequest, AccountRests

\* The user goes with a record: the first task that deletes the user made its
\* own while the user was there.
LEMMA RecordedStep ==
  AccountTypeOK /\ OnRecord /\ AccountDeleting /\ [AccountNext]_accountVars => OnRecord'
<1> SUFFICES ASSUME AccountTypeOK, OnRecord, AccountDeleting, [AccountNext]_accountVars
             PROVE  OnRecord'
  OBVIOUS
<1>1. (\A u \in Task : OnRecordAt(u))'
  BY OnRecordStep
<1>2. audits \subseteq audits'
  <2>1. ASSUME NEW t \in Task, TaskStep(t) PROVE audits \subseteq audits'
    BY <2>1 DEF TaskStep, RequestStep, CleanupStep, RowsStep, SelectOwned, InsertTask,
       WriteAudit, RequestFails, InvalidateSessions, RevokeFails, FailIn, BeginCleanup,
       CleanCollection, CleanCollectionFails, SkipQdrant, CleanGraph, SkipGraph, BeginRows,
       DeleteCompany, DeleteUser, RowsFail, Complete, CommitFails, WorkerDies
  <2>2. ASSUME NEW c \in Owned, OtherRequest(c) PROVE audits \subseteq audits'
    BY <2>2 DEF OtherRequest, CreateCompany, InsertOwner, LoseOwnership
  <2> QED
    BY <2>1, <2>2 DEF AccountNext, AccountRests
<1>3. ASSUME user, ~user' PROVE audits' # {}
  <2>1. PICK t \in Task : DeleteUser(t)
    BY <1>3, UserGoes
  <2>2. OnRecordAt(t)
    BY DEF OnRecord
  <2>3. t \in audits
    BY <1>3, <2>1, <2>2 DEF OnRecordAt, Recording, DeleteUser
  <2> QED
    BY <1>2, <2>3
<1> QED
  BY <1>1, <1>2, <1>3 DEF OnRecord

\* Nothing of a completed task comes back: without the user no company is created.
LEMMA CompletedStep ==
  AccountTypeOK /\ AccountDeleting /\ CompletedMeansGone /\ [AccountNext]_accountVars
  => CompletedMeansGone'
<1> SUFFICES ASSUME AccountTypeOK, AccountDeleting, CompletedMeansGone,
                    [AccountNext]_accountVars, NEW u \in Task, DeletingAt(u), GoneAt(u)
             PROVE  GoneAt(u)'
  BY DEF CompletedMeansGone, GoneAt, AccountDeleting
<1> USE DEF AccountTypeOK, DeletingAt, GoneAt
<1>1. CASE UNCHANGED accountVars
  BY <1>1
<1>2. ASSUME NEW c \in Owned, CreateCompany(c) PROVE GoneAt(u)'
  BY <1>2 DEF CreateCompany
<1>3. ASSUME NEW c \in Owned, InsertOwner(c) PROVE GoneAt(u)'
  BY <1>3 DEF InsertOwner
<1>4. ASSUME NEW c \in Owned, LoseOwnership(c) PROVE GoneAt(u)'
  BY <1>4 DEF LoseOwnership
<1>5. ASSUME NEW t \in Task, RequestStep(t) PROVE GoneAt(u)'
  <2>1. CASE SelectOwned(t)
    BY <2>1 DEF SelectOwned
  <2>2. CASE InsertTask(t)
    BY <2>2 DEF InsertTask
  <2>3. CASE WriteAudit(t)
    BY <2>3 DEF WriteAudit
  <2>4. CASE RequestFails(t)
    BY <2>4 DEF RequestFails
  <2> QED
    BY <1>5, <2>1, <2>2, <2>3, <2>4 DEF RequestStep
<1>6. ASSUME NEW t \in Task, CleanupStep(t) PROVE GoneAt(u)'
  <2>1. CASE InvalidateSessions(t)
    BY <2>1 DEF InvalidateSessions
  <2>2. CASE RevokeFails(t)
    BY <2>2 DEF RevokeFails, FailIn
  <2>3. CASE BeginCleanup(t)
    BY <2>3 DEF BeginCleanup
  <2>4. CASE CleanCollection(t)
    BY <2>4 DEF CleanCollection
  <2>5. CASE CleanCollectionFails(t)
    BY <2>5 DEF CleanCollectionFails, FailIn
  <2>6. CASE SkipQdrant(t)
    BY <2>6 DEF SkipQdrant
  <2>7. CASE CleanGraph(t)
    BY <2>7 DEF CleanGraph
  <2>8. CASE SkipGraph(t)
    BY <2>8 DEF SkipGraph
  <2> QED
    BY <1>6, <2>1, <2>2, <2>3, <2>4, <2>5, <2>6, <2>7, <2>8 DEF CleanupStep
<1>7. ASSUME NEW t \in Task, RowsStep(t) PROVE GoneAt(u)'
  <2>1. CASE BeginRows(t)
    BY <2>1 DEF BeginRows
  <2>2. CASE DeleteCompany(t)
    BY <2>2 DEF DeleteCompany
  <2>3. CASE DeleteUser(t)
    BY <2>3 DEF DeleteUser
  <2>4. CASE RowsFail(t)
    BY <2>4 DEF RowsFail, FailIn
  <2>5. CASE Complete(t)
    BY <2>5 DEF Complete
  <2> QED
    BY <1>7, <2>1, <2>2, <2>3, <2>4, <2>5 DEF RowsStep
<1>8. ASSUME NEW t \in Task, CommitFails(t) \/ WorkerDies(t) PROVE GoneAt(u)'
  <2>1. CASE CommitFails(t)
    BY <2>1 DEF CommitFails
  <2>2. CASE WorkerDies(t)
    BY <2>2 DEF WorkerDies
  <2> QED
    BY <1>8, <2>1, <2>2
<1> QED
  BY <1>1, <1>2, <1>3, <1>4, <1>5, <1>6, <1>7, <1>8
     DEF AccountNext, TaskStep, OtherRequest, AccountRests

\* The task that deleted the user has nothing left to do, and nothing comes back.
LEMMA LastStep ==
  ASSUME AccountTypeOK, [AccountNext]_accountVars, ~user, NEW u \in Task, LastAt(u) PROVE LastAt(u)'
<1> USE DEF AccountTypeOK, LastAt
<1>1. CASE UNCHANGED accountVars
  BY <1>1
<1>2. ASSUME NEW c \in Owned, CreateCompany(c) PROVE LastAt(u)'
  BY <1>2 DEF CreateCompany
<1>3. ASSUME NEW c \in Owned, InsertOwner(c) PROVE LastAt(u)'
  BY <1>3 DEF InsertOwner
<1>4. ASSUME NEW c \in Owned, LoseOwnership(c) PROVE LastAt(u)'
  BY <1>4 DEF LoseOwnership
<1>5. ASSUME NEW t \in Task, RequestStep(t) PROVE LastAt(u)'
  <2>1. CASE SelectOwned(t)
    BY <2>1 DEF SelectOwned
  <2>2. CASE InsertTask(t)
    BY <2>2 DEF InsertTask
  <2>3. CASE WriteAudit(t)
    BY <2>3 DEF WriteAudit
  <2>4. CASE RequestFails(t)
    BY <2>4 DEF RequestFails
  <2> QED
    BY <1>5, <2>1, <2>2, <2>3, <2>4 DEF RequestStep
<1>6. ASSUME NEW t \in Task, CleanupStep(t) PROVE LastAt(u)'
  <2>1. CASE InvalidateSessions(t)
    BY <2>1 DEF InvalidateSessions
  <2>2. CASE RevokeFails(t)
    BY <2>2 DEF RevokeFails, FailIn
  <2>3. CASE BeginCleanup(t)
    BY <2>3 DEF BeginCleanup
  <2>4. CASE CleanCollection(t)
    BY <2>4 DEF CleanCollection
  <2>5. CASE CleanCollectionFails(t)
    BY <2>5 DEF CleanCollectionFails, FailIn
  <2>6. CASE SkipQdrant(t)
    BY <2>6 DEF SkipQdrant
  <2>7. CASE CleanGraph(t)
    BY <2>7 DEF CleanGraph
  <2>8. CASE SkipGraph(t)
    BY <2>8 DEF SkipGraph
  <2> QED
    BY <1>6, <2>1, <2>2, <2>3, <2>4, <2>5, <2>6, <2>7, <2>8 DEF CleanupStep
<1>7. ASSUME NEW t \in Task, RowsStep(t) PROVE LastAt(u)'
  <2>1. CASE BeginRows(t)
    BY <2>1 DEF BeginRows
  <2>2. CASE DeleteCompany(t)
    BY <2>2 DEF DeleteCompany
  <2>3. CASE DeleteUser(t)
    BY <2>3 DEF DeleteUser
  <2>4. CASE RowsFail(t)
    BY <2>4 DEF RowsFail, FailIn
  <2>5. CASE Complete(t)
    BY <2>5 DEF Complete
  <2> QED
    BY <1>7, <2>1, <2>2, <2>3, <2>4, <2>5 DEF RowsStep
<1>8. ASSUME NEW t \in Task, CommitFails(t) \/ WorkerDies(t) PROVE LastAt(u)'
  <2>1. CASE CommitFails(t)
    BY <2>1 DEF CommitFails
  <2>2. CASE WorkerDies(t)
    BY <2>2 DEF WorkerDies
  <2> QED
    BY <1>8, <2>1, <2>2
<1> QED
  BY <1>1, <1>2, <1>3, <1>4, <1>5, <1>6, <1>7, <1>8
     DEF AccountNext, TaskStep, OtherRequest, AccountRests

\* Only DeleteUser takes the user away, after every row of its snapshot.
LEMMA UserStep ==
  AccountTypeOK /\ AccountDeleting /\ UserGoesLast /\ [AccountNext]_accountVars
  => UserGoesLast'
<1> SUFFICES ASSUME AccountTypeOK, AccountDeleting, UserGoesLast, [AccountNext]_accountVars, ~user'
             PROVE  \E t \in Task : LastAt(t)'
  BY DEF UserGoesLast, LastAt
<1>1. CASE ~user
  <2>1. PICK t \in Task : LastAt(t)
    BY <1>1 DEF UserGoesLast, LastAt
  <2>2. LastAt(t)'
    BY <1>1, <2>1, LastStep
  <2> QED
    BY <2>2
<1>2. CASE user
  <2>1. PICK t \in Task : DeleteUser(t)
    BY <1>2, UserGoes
  <2>2. DeletingAt(t)
    BY DEF AccountDeleting
  <2>3. LastAt(t)'
    BY <2>1, <2>2 DEF AccountTypeOK, DeletingAt, DeleteUser, LastAt
  <2> QED
    BY <2>3
<1> QED
  BY <1>1, <1>2

\* Nothing has been promised at first.
LEMMA SagaInit == AccountInit => Saga
<1> SUFFICES ASSUME AccountInit PROVE Saga
  OBVIOUS
<1>1. AccountTypeOK
  BY AccountTypeInit
<1>2. OnRecord /\ AccountDeleting
  BY DEF AccountInit, OnRecord, OnRecordAt, Recording, AccountDeleting, DeletingAt
<1>3. CompletedMeansGone /\ UserGoesLast
  BY DEF AccountInit, CompletedMeansGone, UserGoesLast
<1> QED
  BY <1>1, <1>2, <1>3 DEF Saga

\* Every step keeps every part of the saga's invariant.
LEMMA SagaStep == Saga /\ [AccountNext]_accountVars => Saga'
  BY AccountTypeStep, RecordedStep, DeletingStep, CompletedStep, UserStep DEF Saga

\* The inductive invariant of the saga: what each phase has achieved so far,
\* for any interleaving of requests, failing calls and crashes.
THEOREM SagaHolds == AccountSpec => []Saga
  BY SagaInit, SagaStep, PTL DEF AccountSpec

\* What a task deletes is on record before: its audit record names the company,
\* or another task with a record had already deleted the user.
THEOREM DeletionsAuditedHolds == AccountSpec => []DeletionsAudited
<1>1. Saga => DeletionsAudited
  BY DEF Saga, OnRecord, OnRecordAt, DeletionsAudited
<1> QED
  BY <1>1, SagaHolds, PTL

\* A task that says completed left neither the user nor a company of its
\* snapshot, whatever other tasks and requests did meanwhile.
THEOREM CompletedMeansGoneHolds == AccountSpec => []CompletedMeansGone
<1>1. Saga => CompletedMeansGone
  BY DEF Saga
<1> QED
  BY <1>1, SagaHolds, PTL

\* The user row goes only after the companies of the task that deletes it.
THEOREM UserGoesLastHolds == AccountSpec => []UserGoesLast
<1>1. Saga => UserGoesLast
  BY DEF Saga
<1> QED
  BY <1>1, SagaHolds, PTL
=============================================================================
