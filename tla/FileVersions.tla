----------------------------- MODULE FileVersions -----------------------------
(***************************************************************************)
(* The code preprocessor's view of a repository: the local clone and its   *)
(* diff (git_repository_manager.py), the table of file versions            *)
(* (repository_version_store.py) and process_file, which decides for each  *)
(* changed file what to record and what to publish again                   *)
(* (_file_processing.py).                                                  *)
(*                                                                         *)
(* One repository and branch.  A file's content stands for its hash, and   *)
(* index is the file versions whose chunks were published.  process_file   *)
(* would also send deletes of old versions, but to an event emitter which  *)
(* the service never gives it (consumer.py:319): nothing is ever purged,   *)
(* and old versions stay in the index beside the new ones.                 *)
(*                                                                         *)
(* Requests are handled one at a time; the paths of one diff are disjoint, *)
(* and file workers handle them in any interleaving.                       *)
(***************************************************************************)
EXTENDS Integers, Sequences, FiniteSets

CONSTANTS
    Paths,
    Contents,     \* non-empty file contents
    TooBig,       \* contents that the file filter rejects, for their size
    MaxCommits,   \* bound on pushes to the branch
    MaxRefreshes, \* bound on requests with force_full_refresh
    MaxFaults,    \* bound on failing calls
    MaxCrashes    \* bound on crashes

Absent == "absent"
NoHash == "null"
NoJob == [at |-> "none", type |-> "A", prev |-> "none", version |-> 0]

ASSUME ConstantsAssumption ==
    /\ Absent \notin Contents \cup Paths /\ NoHash \notin Contents
    /\ TooBig \subseteq Contents
    /\ {MaxCommits, MaxRefreshes, MaxFaults, MaxCrashes} \subseteq Nat

VARIABLES
    remote,  \* content of each file at the tip of the branch
    local,   \* content of each file in the local clone
    rows,    \* repository_file_versions of each path, by version - 1
    force,   \* diff.force_full_refresh of the ingestion under way
    job,     \* the change each file worker has in hand, by path
    index,   \* file versions whose chunks were published
    missed,  \* history: paths with the content, or absence, that a filter,
             \* a failure or a crash kept from being carried out
    commits, refreshes, faults, crashes

budget == <<commits, refreshes, faults, crashes>>
vars == <<remote, local, rows, force, job, index, missed, budget>>

Init ==
    /\ remote = [p \in Paths |-> Absent] /\ local = remote
    /\ rows = [p \in Paths |-> <<>>]
    /\ force = FALSE
    /\ job = [p \in Paths |-> NoJob]
    /\ index = {} /\ missed = {}
    /\ commits = 0 /\ refreshes = 0 /\ faults = 0 /\ crashes = 0

Idle == \A p \in Paths : job[p] = NoJob
Fault == faults < MaxFaults /\ faults' = faults + 1 /\ UNCHANGED <<commits, refreshes, crashes>>

-----------------------------------------------------------------------------
(* The repository on the git server.                                       *)

Push ==
    /\ commits < MaxCommits /\ commits' = commits + 1
    /\ \/ \E p \in Paths : \E c \in (Contents \cup {Absent}) \ {remote[p]} :
              remote' = [remote EXCEPT ![p] = c]
       \/ \E p, q \in Paths :
              /\ remote[p] # Absent /\ remote[q] = Absent
              /\ remote' = [remote EXCEPT ![p] = Absent, ![q] = remote[p]]
    /\ UNCHANGED <<local, rows, force, job, index, missed, refreshes, faults, crashes>>

-----------------------------------------------------------------------------
(* sync_repository: pull, then the name-status diff between the commits.   *)

Gone == {p \in Paths : local[p] # Absent /\ remote[p] = Absent}
New == {p \in Paths : local[p] = Absent /\ remote[p] # Absent}
Modified == {p \in Paths : local[p] # Absent /\ remote[p] \notin {Absent, local[p]}}
Tracked == {p \in Paths : remote[p] # Absent}

\* git pairs a file that is gone with a new one: always when their contents
\* are the same, and perhaps when they are similar
Renamings ==
    {r \in [New -> Gone \cup {Absent}] :
        /\ \A p, q \in New : r[p] = r[q] /\ r[p] # Absent => p = q
        /\ \A p \in New : r[p] = Absent =>
              \A q \in Gone : local[q] = remote[p] => \E x \in New : r[x] = q}

Change(type, prev) == [at |-> "start", type |-> type, prev |-> prev, version |-> 0]

\* the changes in hand for each path; a refresh adds every tracked file
Diff(r, full) ==
    [p \in Paths |->
        CASE p \in New /\ r[p] # Absent -> Change("R", r[p])
          [] p \in New /\ r[p] = Absent -> Change("A", "none")
          [] p \in Gone /\ ~(\E q \in New : r[q] = p) -> Change("D", "none")
          [] p \in Modified -> Change("M", "none")
          [] p \in Tracked \ (New \cup Modified) /\ full -> Change("M", "none")
          [] OTHER -> NoJob]

\* the file filter drops every change but a delete by the size of the file
Filtered(p, change) ==
    change.at = "start" /\ change.type # "D" /\ remote[p] \in TooBig
Accepted(changes) ==
    [p \in Paths |-> IF Filtered(p, changes[p]) THEN NoJob ELSE changes[p]]

\* history: what a change would have carried out, from where it is dropped
Owed(p, change, content) ==
    {<<p, content>>}
    \cup IF change.type = "R" /\ change.at = "start" THEN {<<change.prev, Absent>>} ELSE {}

\* a request with or without force_full_refresh
Sync(full) ==
    /\ Idle /\ (full \/ local # remote)
    /\ \E r \in Renamings :
          LET changes == Diff(r, full)
          IN  /\ job' = Accepted(changes)
              /\ missed' = missed \cup UNION {Owed(p, changes[p], remote[p]) :
                               p \in {q \in Paths : Filtered(q, changes[q])}}
    /\ local' = remote /\ force' = full
    /\ IF full THEN refreshes < MaxRefreshes /\ refreshes' = refreshes + 1
               ELSE UNCHANGED refreshes
    /\ UNCHANGED <<remote, rows, index, commits, faults, crashes>>

\* the diff fails after the pull: the request is given up
DiffFails ==
    /\ Idle /\ local # remote /\ Fault
    /\ local' = remote
    /\ missed' = missed \cup {<<p, remote[p]>> : p \in {q \in Paths : local[q] # remote[q]}}
    /\ UNCHANGED <<remote, rows, force, job, index>>

-----------------------------------------------------------------------------
(* process_file.                                                           *)

Goto(p, at) == job' = [job EXCEPT ![p].at = at]
Done(p) == job' = [job EXCEPT ![p] = NoJob]
Chunking(p, n) == job' = [job EXCEPT ![p].at = "chunk", ![p].version = n]

AppendRow(p, hash, deleted) ==
    rows' = [rows EXCEPT ![p] = Append(@, [hash |-> hash, deleted |-> deleted])]

\* faulty variant: the deletion is recorded under the new name
OwnPath(p) == p
\* the path that a rename or a delete removes
RemovedPath(p) == IF job[p].type = "R" THEN job[p].prev ELSE p

\* faulty variant: a renamed file is not read
RemovalOnly(p) == Done(p)
AfterRemoval(p) == IF job[p].type = "D" THEN Done(p) ELSE Goto(p, "read")

RecordDelete(p) ==
    /\ job[p].at = "start" /\ job[p].type \in {"R", "D"}
    /\ AppendRow(RemovedPath(p), NoHash, TRUE)
    /\ missed' = missed \ {<<RemovedPath(p), Absent>>}
    /\ AfterRemoval(p)
    /\ UNCHANGED <<remote, local, force, index, budget>>

ReadFile(p) ==
    /\ job[p].at = "start" /\ job[p].type \in {"A", "M"}
    /\ Goto(p, "read")
    /\ UNCHANGED <<remote, local, rows, force, index, missed, budget>>

\* a file that cannot be read gets a row without a hash, and no chunks
Unreadable(p) ==
    /\ job[p].at = "read" /\ Fault
    /\ AppendRow(p, NoHash, FALSE)
    /\ missed' = missed \cup Owed(p, job[p], local[p])
    /\ Done(p)
    /\ UNCHANGED <<remote, local, force, index>>

LatestHash(p) == IF rows[p] = <<>> THEN NoHash ELSE rows[p][Len(rows[p])].hash

\* the deduplication of process_file: it does not ask whether this is a
\* refresh
SkipUnchanged(p) ==
    /\ job[p].at = "read" /\ local[p] = LatestHash(p)
    /\ Done(p)
    /\ UNCHANGED <<remote, local, rows, force, index, missed, budget>>

Versions(p) == {n \in 1..Len(rows[p]) : rows[p][n].hash = local[p]}

\* record_change: the last row with the same hash, if there is one and this
\* is not a refresh, stands for the file again
RecordChange(p) ==
    /\ job[p].at = "read" /\ local[p] # LatestHash(p)
    /\ IF Versions(p) # {} /\ ~force
       THEN /\ UNCHANGED rows
            /\ \E n \in Versions(p) : (\A m \in Versions(p) : m <= n) /\ Chunking(p, n)
       ELSE /\ AppendRow(p, local[p], FALSE)
            /\ Chunking(p, Len(rows[p]) + 1)
    /\ UNCHANGED <<remote, local, force, index, missed, budget>>

\* chunking, embedding and publishing; their steps are in TwoStagePipeline
PublishChunks(p) ==
    /\ job[p].at = "chunk"
    /\ index' = index \cup {<<p, job[p].version>>}
    /\ missed' = missed \ {<<p, local[p]>>}
    /\ Done(p)
    /\ UNCHANGED <<remote, local, rows, force, budget>>

\* a database error before the change is recorded, or the loss of the
\* chunks after it: the file is left
FileFails(p) ==
    /\ job[p].at \in {"start", "read", "chunk"} /\ Fault
    /\ missed' = missed \cup Owed(p, job[p], local[p])
    /\ Done(p)
    /\ UNCHANGED <<remote, local, rows, force, index>>

\* the clone and the table survive, the changes in hand do not
Crash ==
    /\ crashes < MaxCrashes /\ ~Idle
    /\ crashes' = crashes + 1
    /\ job' = [p \in Paths |-> NoJob]
    /\ missed' = missed \cup UNION {Owed(p, job[p], local[p]) :
                     p \in {q \in Paths : job[q].at # "none"}}
    /\ UNCHANGED <<remote, local, rows, force, index, commits, refreshes, faults>>

\* no request is waiting
Rests == Idle /\ local = remote /\ UNCHANGED vars

ProcessFile(p) ==
    \/ RecordDelete(p) \/ ReadFile(p) \/ SkipUnchanged(p) \/ RecordChange(p)
    \/ PublishChunks(p)

Next ==
    \/ Push \/ (\E full \in BOOLEAN : Sync(full)) \/ DiffFails \/ Crash \/ Rests
    \/ \E p \in Paths : ProcessFile(p) \/ Unreadable(p) \/ FileFails(p)

Spec == Init /\ [][Next]_vars

-----------------------------------------------------------------------------
(* Properties.                                                             *)

\* Every variable stays in its type, and the index and the jobs refer to
\* versions that the table holds.
Version == [hash : Contents \cup {NoHash}, deleted : BOOLEAN]
Job == [at : {"none", "start", "read", "chunk"}, type : {"A", "D", "M", "R"},
        prev : Paths \cup {"none"}, version : Nat]
TypeOK ==
    /\ remote \in [Paths -> Contents \cup {Absent}]
    /\ local \in [Paths -> Contents \cup {Absent}]
    /\ rows \in [Paths -> Seq(Version)]
    /\ job \in [Paths -> Job]
    /\ \A p \in Paths : job[p].version \in 0..Len(rows[p])
    /\ force \in BOOLEAN
    /\ \A v \in index : v[1] \in Paths /\ v[2] \in 1..Len(rows[v[1]])
    /\ missed \subseteq Paths \X (Contents \cup {Absent})
    /\ {commits, refreshes, faults, crashes} \subseteq Nat

Missed(p) == <<p, local[p]>> \in missed

\* a change of the path is in hand, or a rename that removes it
InHand(p) ==
    \/ job[p].at # "none"
    \/ \E q \in Paths : job[q].at = "start" /\ job[q].type = "R" /\ job[q].prev = p

LastDeleted(p) == rows[p] = <<>> \/ rows[p][Len(rows[p])].deleted

\* The table of versions follows the clone through pushes, renames, reverts
\* and full refreshes, whichever changes fail beside them: a path that left
\* the clone is recorded as deleted, and one that is there has a row with its
\* content, unless this very change was dropped.
TableFollowsClone == \A p \in Paths : ~InHand(p) /\ ~Missed(p) =>
    IF local[p] = Absent THEN LastDeleted(p) ELSE Versions(p) # {}

\* The shortcuts of process_file never cost a search result: the content of
\* every file in the clone has been published for its path, although a file
\* whose hash is the latest is skipped and a row with the hash is taken again,
\* unless this content was dropped for this path and not published since.
ContentPublished == \A p \in Paths :
    local[p] # Absent /\ job[p].at = "none" /\ ~Missed(p) =>
        \E n \in Versions(p) : <<p, n>> \in index
=============================================================================
