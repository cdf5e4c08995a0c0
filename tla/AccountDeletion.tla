--------------------------- MODULE AccountDeletion ---------------------------
(***************************************************************************)
(* The authentication service deletes a user account as a saga over        *)
(* Postgres, Qdrant and Neo4j (auth/main.py): delete_current_user records  *)
(* a task and an audit entry, execute_user_deletion then runs the phases   *)
(* of DeletionTask.status as a background task of the same process.        *)
(*                                                                         *)
(* The service runs two uvicorn workers, so two deletion requests of the   *)
(* same user, and other requests of that user, interleave between any two  *)
(* commits.  One user.  Which sessions are valid is not modelled: a        *)
(* revoked user may log in again while the user row exists.                *)
(*                                                                         *)
(* The cleanup visits four collections by name and the default database    *)
(* of Neo4j.  The other services write collections and databases of other  *)
(* names (DocumentChunk_text, company_<id>, kgrag, cognee-<company>), which *)
(* the instance of MCAccountDeletion reflects: Listed and Collection are   *)
(* disjoint, Default is not in Database, and nothing is promised of them.  *)
(***************************************************************************)
EXTENDS Integers, FiniteSets

CONSTANTS
    Task,        \* DELETE /users/me requests, each with its task
    Owned,       \* companies of the user, at first or created later
    New,         \* those created later
    Shared,      \* companies with a second owner, who can remove the user
    Listed,      \* qdrant_collections, the names the cleanup visits
    Collection,  \* Qdrant collections that hold points of the companies
    Database,    \* Neo4j databases that hold nodes of the companies
    Default,     \* the one a session opens that names none
    MaxFailures, \* bound on failing calls (Postgres, Redis, Qdrant, Neo4j)
    MaxCrashes   \* bound on dying worker processes

ASSUME AccountAssumption ==
    /\ New \subseteq Owned /\ Shared \subseteq Owned
    /\ Listed # {}
    /\ MaxFailures \in Nat /\ MaxCrashes \in Nat

VARIABLES
    user,        \* the row in users, with its roles, exists
    companyRows, \* rows in companies
    ownerRows,   \* company_users rows with role owner of this user
    userPoints,  \* Qdrant points, <<collection, company>>
    userNodes,   \* Neo4j nodes, <<database, company>>
    audits,      \* tasks with a row in deletion_audit_logs
    named,       \* deletion_audit_logs.owned_companies of each task
    pc,          \* progress of each request and its background task
    status,      \* deletion_tasks.status
    snapshot,    \* deletion_tasks.owned_company_ids
    left,        \* collections, then companies, the loop still has to visit
    errorPhase,  \* deletion_tasks.error_phase, by phase
    skipped,     \* stores whose cleanup the task gave up and went on
    removed,     \* companies whose row the task deleted
    half,        \* create_company: row committed, owner not yet inserted
    failures, crashes

rows == <<user, companyRows, ownerRows, half>>
stores == <<userPoints, userNodes>>
record == <<status, snapshot, errorPhase>>
accountVars == <<rows, stores, audits, named, pc, record, left, skipped, removed, failures, crashes>>

AccountInit ==
    /\ user = TRUE /\ companyRows = Owned \ New /\ ownerRows = Owned \ New /\ half = {}
    /\ userPoints = Collection \X (Owned \ New) /\ userNodes = Database \X (Owned \ New)
    /\ audits = {} /\ named = [t \in Task |-> {}]
    /\ pc = [t \in Task |-> "idle"] /\ status = [t \in Task |-> "none"]
    /\ snapshot = [t \in Task |-> {}] /\ left = [t \in Task |-> {}]
    /\ errorPhase = [t \in Task |-> "none"]
    /\ skipped = [t \in Task |-> {}] /\ removed = [t \in Task |-> {}]
    /\ failures = 0 /\ crashes = 0

Goto(t, p) == pc' = [pc EXCEPT ![t] = p]
Status(t, s) == status' = [status EXCEPT ![t] = s]
CallFails == failures < MaxFailures /\ failures' = failures + 1

-----------------------------------------------------------------------------
(* Other requests of the user, and of the other owners.                    *)

\* create_company commits the company before it inserts its owner
CreateCompany(c) ==
    /\ user /\ c \in New /\ c \notin companyRows \cup UNION {removed[t] : t \in Task}
    /\ companyRows' = companyRows \cup {c} /\ half' = half \cup {c}
    /\ UNCHANGED <<user, ownerRows, stores, audits, named, pc, record, left, skipped,
                   removed, failures, crashes>>

\* without the user row the insert violates its foreign key, and the company
\* stays without an owner
InsertOwner(c) ==
    /\ c \in half /\ half' = half \ {c}
    /\ ownerRows' = IF user /\ c \in companyRows THEN ownerRows \cup {c} ELSE ownerRows
    /\ UNCHANGED <<user, companyRows, stores, audits, named, pc, record, left, skipped,
                   removed, failures, crashes>>

\* remove_user_from_company
LoseOwnership(c) ==
    /\ c \in Shared \cap ownerRows /\ ownerRows' = ownerRows \ {c}
    /\ UNCHANGED <<user, companyRows, half, stores, audits, named, pc, record, left,
                   skipped, removed, failures, crashes>>

-----------------------------------------------------------------------------
(* delete_current_user: one SELECT and two commits.                        *)

SelectOwned(t) ==
    /\ pc[t] = "idle" /\ user
    /\ snapshot' = [snapshot EXCEPT ![t] = ownerRows]
    /\ Goto(t, "selected")
    /\ UNCHANGED <<rows, stores, audits, named, status, errorPhase, left, skipped,
                   removed, failures, crashes>>

InsertTask(t) ==
    /\ pc[t] = "selected"
    /\ Status(t, "pending") /\ Goto(t, "created")
    /\ UNCHANGED <<rows, stores, audits, named, snapshot, errorPhase, left, skipped,
                   removed, failures, crashes>>

\* _create_deletion_audit asks once more which companies the user owns; no
\* record when the user is not found any more, and the caller goes on all the same
WriteAudit(t) ==
    /\ pc[t] = "created"
    /\ IF user THEN audits' = audits \cup {t} /\ named' = [named EXCEPT ![t] = ownerRows]
               ELSE UNCHANGED <<audits, named>>
    /\ Goto(t, "queued")
    /\ UNCHANGED <<rows, stores, record, left, skipped, removed, failures, crashes>>

\* faulty variant: the request goes on without its audit record
RequestFailsOn(t) ==
    /\ pc[t] \in {"selected", "created"} /\ CallFails
    /\ Goto(t, IF pc[t] = "created" THEN "queued" ELSE "end")
    /\ UNCHANGED <<rows, stores, audits, named, record, left, skipped, removed, crashes>>
RequestFails(t) ==
    /\ pc[t] \in {"selected", "created"} /\ CallFails
    /\ Goto(t, "end")
    /\ UNCHANGED <<rows, stores, audits, named, record, left, skipped, removed, crashes>>

-----------------------------------------------------------------------------
(* execute_user_deletion.                                                  *)

InvalidateSessions(t) ==
    /\ pc[t] = "queued"
    /\ Status(t, "session_invalidation") /\ Goto(t, "cleanup")
    /\ UNCHANGED <<rows, stores, audits, named, snapshot, errorPhase, left, skipped,
                   removed, failures, crashes>>

\* a phase that returns False ends the task
FailIn(t, phase) ==
    /\ CallFails
    /\ Status(t, "failed") /\ Goto(t, "end")
    /\ errorPhase' = [errorPhase EXCEPT ![t] = phase]
    /\ UNCHANGED <<rows, stores, audits, named, snapshot, left, skipped, removed, crashes>>

RevokeFails(t) == pc[t] = "queued" /\ FailIn(t, "sessions")

\* without owned companies there is nothing external to clean
BeginCleanup(t) ==
    /\ pc[t] = "cleanup"
    /\ Status(t, "external_cleanup")
    /\ IF snapshot[t] = {} THEN Goto(t, "postgres") ELSE Goto(t, "qdrant")
    /\ left' = [left EXCEPT ![t] = Listed]
    /\ UNCHANGED <<rows, stores, audits, named, snapshot, errorPhase, skipped, removed,
                   failures, crashes>>

\* a name no collection has counts as cleaned
CleanCollection(t) ==
    /\ pc[t] = "qdrant"
    /\ \E k \in left[t] :
        /\ userPoints' = userPoints \ ({k} \X snapshot[t])
        /\ left' = [left EXCEPT ![t] = @ \ {k}]
        /\ IF left[t] = {k} THEN Goto(t, "neo4j") ELSE UNCHANGED pc
    /\ UNCHANGED <<rows, userNodes, audits, named, record, skipped, removed, failures,
                   crashes>>

CleanCollectionFails(t) == pc[t] = "qdrant" /\ FailIn(t, "qdrant")

\* no client can be made, or the commit before a collection fails (the outer
\* handlers): logged, and the phase goes on
SkipQdrant(t) ==
    /\ pc[t] = "qdrant" /\ CallFails
    /\ skipped' = [skipped EXCEPT ![t] = @ \cup {"qdrant"}]
    /\ Goto(t, "neo4j")
    /\ UNCHANGED <<rows, stores, audits, named, record, left, removed, crashes>>

CleanGraph(t) ==
    /\ pc[t] = "neo4j"
    /\ userNodes' = userNodes \ ({Default} \X snapshot[t])
    /\ Goto(t, "postgres")
    /\ UNCHANGED <<rows, userPoints, audits, named, record, left, skipped, removed,
                   failures, crashes>>

\* every Neo4j failure is logged, and the phase goes on
SkipGraph(t) ==
    /\ pc[t] = "neo4j" /\ CallFails
    /\ skipped' = [skipped EXCEPT ![t] = @ \cup {"neo4j"}]
    /\ Goto(t, "postgres")
    /\ UNCHANGED <<rows, stores, audits, named, record, left, removed, crashes>>

BeginRows(t) ==
    /\ pc[t] = "postgres"
    /\ Status(t, "postgres_deletion") /\ Goto(t, "rows")
    /\ left' = [left EXCEPT ![t] = snapshot[t]]
    /\ UNCHANGED <<rows, stores, audits, named, snapshot, errorPhase, skipped, removed,
                   failures, crashes>>

\* one commit per company; the cascade takes its company_users rows along
DeleteCompany(t) ==
    /\ pc[t] = "rows"
    /\ \E c \in left[t] :
        /\ companyRows' = companyRows \ {c} /\ ownerRows' = ownerRows \ {c}
        /\ removed' = [removed EXCEPT ![t] = @ \cup ({c} \cap companyRows)]
        /\ left' = [left EXCEPT ![t] = @ \ {c}]
    /\ UNCHANGED <<user, half, stores, audits, named, pc, record, skipped, failures, crashes>>

\* memberships, roles and user in one commit
\* faulty variant: the user goes first and the companies follow
DeleteUserFirst(t) ==
    /\ pc[t] = "rows"
    /\ ownerRows' = {} /\ user' = FALSE
    /\ Goto(t, "finish")
    /\ UNCHANGED <<companyRows, half, stores, audits, named, record, left, skipped,
                   removed, failures, crashes>>
DeleteUser(t) ==
    /\ pc[t] = "rows" /\ left[t] = {}
    /\ ownerRows' = {} /\ user' = FALSE
    /\ Goto(t, "finish")
    /\ UNCHANGED <<companyRows, half, stores, audits, named, record, left, skipped,
                   removed, failures, crashes>>

\* rolled back to the last commit
\* faulty variant: a company that cannot be deleted is passed over
RowsFailOn(t) ==
    /\ pc[t] = "rows" /\ CallFails
    /\ \E c \in left[t] : left' = [left EXCEPT ![t] = @ \ {c}]
    /\ UNCHANGED <<rows, stores, audits, named, pc, record, skipped, removed, crashes>>
RowsFail(t) == pc[t] = "rows" /\ FailIn(t, "postgres")

Complete(t) ==
    /\ pc[t] = "finish"
    /\ Status(t, "completed") /\ Goto(t, "end")
    /\ UNCHANGED <<rows, stores, audits, named, snapshot, errorPhase, left, skipped,
                   removed, failures, crashes>>

\* a commit fails outside the phases' own handlers, or in one of them: the
\* orchestrator's handler stores "failed" if the session still can
CommitFails(t) ==
    /\ pc[t] \in {"queued", "cleanup", "qdrant", "neo4j", "postgres", "rows", "finish"} /\ CallFails
    /\ \/ Status(t, "failed")
       \/ UNCHANGED status
    /\ Goto(t, "end")
    /\ UNCHANGED <<rows, stores, audits, named, snapshot, errorPhase, left, skipped,
                   removed, crashes>>

\* the process dies; nothing looks for unfinished tasks at the next start
WorkerDies(t) ==
    /\ pc[t] \notin {"idle", "end"} /\ crashes < MaxCrashes
    /\ crashes' = crashes + 1
    /\ Goto(t, "end")
    /\ UNCHANGED <<rows, stores, audits, named, record, left, skipped, removed, failures>>

-----------------------------------------------------------------------------
RequestStep(t) == SelectOwned(t) \/ InsertTask(t) \/ WriteAudit(t) \/ RequestFails(t)
CleanupStep(t) ==
    \/ InvalidateSessions(t) \/ RevokeFails(t) \/ BeginCleanup(t)
    \/ CleanCollection(t) \/ CleanCollectionFails(t) \/ SkipQdrant(t)
    \/ CleanGraph(t) \/ SkipGraph(t)
RowsStep(t) == BeginRows(t) \/ DeleteCompany(t) \/ DeleteUser(t) \/ RowsFail(t) \/ Complete(t)
TaskStep(t) == RequestStep(t) \/ CleanupStep(t) \/ RowsStep(t) \/ CommitFails(t) \/ WorkerDies(t)
OtherRequest(c) == CreateCompany(c) \/ InsertOwner(c) \/ LoseOwnership(c)

\* every request has ended, or can no longer be made
AccountRests ==
    /\ \A t \in Task : pc[t] = "end" \/ (pc[t] = "idle" /\ ~user)
    /\ UNCHANGED accountVars

AccountNext == (\E t \in Task : TaskStep(t)) \/ (\E c \in Owned : OtherRequest(c)) \/ AccountRests
AccountSpec == AccountInit /\ [][AccountNext]_accountVars

-----------------------------------------------------------------------------
(* Properties.                                                             *)

\* The state is well formed; ownership rows keep both their foreign keys.
AccountTypeOK ==
    /\ user \in BOOLEAN /\ (ownerRows # {} => user)
    /\ companyRows \subseteq Owned /\ ownerRows \subseteq companyRows /\ half \subseteq New
    /\ userPoints \subseteq Collection \X Owned /\ userNodes \subseteq Database \X Owned
    /\ audits \subseteq Task /\ named \in [Task -> SUBSET Owned]
    /\ pc \in [Task -> {"idle", "selected", "created", "queued", "cleanup", "qdrant", "neo4j",
                        "postgres", "rows", "finish", "end"}]
    /\ status \in [Task -> {"none", "pending", "session_invalidation", "external_cleanup",
                            "postgres_deletion", "completed", "failed"}]
    /\ snapshot \in [Task -> SUBSET Owned] /\ removed \in [Task -> SUBSET Owned]
    /\ left \in [Task -> (SUBSET Listed) \cup (SUBSET Owned)]
    /\ errorPhase \in [Task -> {"none", "sessions", "qdrant", "postgres"}]
    /\ skipped \in [Task -> SUBSET {"qdrant", "neo4j"}]
    /\ failures \in 0..MaxFailures /\ crashes \in 0..MaxCrashes

\* "completed" is the truth: the user row and every company of the task's
\* snapshot are gone, with their cascades, although companies are committed one
\* by one and another task may be deleting the same rows.
CompletedMeansGone ==
    \A t \in Task : status[t] = "completed" =>
        ~user /\ snapshot[t] \cap companyRows = {}

\* The user goes last: as long as a company of the snapshot still has its row
\* because the task failed or died before it, the user row is there to own it
\* and to ask again (unless another request finished the deletion).
UserGoesLast ==
    ~user => \E t \in Task : pc[t] \in {"finish", "end"} /\ left[t] = {}
                                /\ snapshot[t] \cap companyRows = {}

\* Whatever is deleted was put on record before ("Create audit record BEFORE any
\* deletion occurs"): the record of a task names the companies it deletes later,
\* although it reads them again after the request did, but for those the user
\* has meanwhile lost to a second owner; a task has none only when another
\* one, with a record of its own, has deleted the user before.
DeletionsAudited ==
    \A t \in Task : removed[t] # {} =>
        IF t \in audits THEN removed[t] \ Shared \subseteq named[t]
                       ELSE ~user /\ audits # {}
=============================================================================
