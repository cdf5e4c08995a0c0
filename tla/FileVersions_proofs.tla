-------------------------- MODULE FileVersions_proofs --------------------------
(***************************************************************************)
(* Proofs about FileVersions, for any paths, any contents and any number   *)
(* of pushes, ingestions, failures and crashes: the table of versions      *)
(* follows the clone, and the content of every file is published, except   *)
(* where this very content was dropped.                                    *)
(***************************************************************************)
EXTENDS FileVersions, SequenceTheorems, TLAPS

\* What a change in hand says about the clone, which stays as it is until the
\* last of them is done, and about the row it was recorded in.
JobsFit ==
    /\ \A p \in Paths : job[p].at # "none" => (job[p].type = "D" <=> local[p] = Absent)
    /\ \A p \in Paths : job[p].at \in {"read", "chunk"} => job[p].type # "D"
    /\ \A p \in Paths : job[p].at = "start" /\ job[p].type = "R" => job[p].prev \in Paths
    /\ \A p \in Paths : job[p].at = "chunk" =>
           job[p].version \in 1..Len(rows[p]) /\ rows[p][job[p].version].hash = local[p]

\* What left the clone is recorded as deleted, and what is there has a row.
GoneRecorded ==
    \A p \in Paths : local[p] = Absent /\ ~InHand(p) /\ ~Missed(p) => LastDeleted(p)
PresentRecorded ==
    \A p \in Paths : local[p] # Absent /\ job[p].at = "none" /\ ~Missed(p) => Versions(p) # {}

\* The content of each row was published, was dropped or is in hand.
Indexed(p, c) == \E n \in 1..Len(rows[p]) : rows[p][n].hash = c /\ <<p, n>> \in index
RowsPublished ==
    \A p \in Paths : \A n \in 1..Len(rows[p]) : rows[p][n].hash # NoHash =>
        \/ <<p, rows[p][n].hash>> \in missed
        \/ Indexed(p, rows[p][n].hash)
        \/ job[p].at = "chunk" /\ local[p] = rows[p][n].hash

Fits == TypeOK /\ JobsFit
Recorded == GoneRecorded /\ PresentRecorded /\ RowsPublished

-----------------------------------------------------------------------------
(* The types.                                                              *)

LEMMA RowsType ==
  ASSUME TypeOK, NEW p \in Paths
  PROVE  /\ rows[p] \in Seq(Version) /\ Len(rows[p]) \in Nat
         /\ \A n \in 1..Len(rows[p]) : rows[p][n].hash \in Contents \cup {NoHash}
<1>1. rows[p] \in Seq(Version)
  BY DEF TypeOK
<1>2. Len(rows[p]) \in Nat /\ \A n \in 1..Len(rows[p]) : rows[p][n] \in Version
  BY <1>1
<1> QED
  BY <1>1, <1>2 DEF Version

LEMMA JobType ==
  ASSUME TypeOK, NEW p \in Paths
  PROVE  /\ job[p].at \in {"none", "start", "read", "chunk"}
         /\ job[p].type \in {"A", "D", "M", "R"} /\ job[p].prev \in Paths \cup {"none"}
         /\ job[p].version \in 0..Len(rows[p]) /\ job[p].version \in Nat
         /\ local[p] \in Contents \cup {Absent} /\ remote[p] \in Contents \cup {Absent}
  BY DEF TypeOK, Job

LEMMA NoJobType == NoJob \in Job /\ NoJob.at = "none" /\ NoJob.version = 0
  BY DEF NoJob, Job

\* A row is appended to the rows of path p.
Added(p, x) ==
    /\ rows'[p] = Append(rows[p], x) /\ Len(rows'[p]) = Len(rows[p]) + 1
    /\ rows'[p][Len(rows[p]) + 1] = x
    /\ \A n \in 1..Len(rows[p]) : rows'[p][n] = rows[p][n]
    /\ \A q \in Paths \ {p} : rows'[q] = rows[q]

LEMMA RowAdded ==
  ASSUME TypeOK, NEW p \in Paths, NEW h \in Contents \cup {NoHash}, NEW d \in BOOLEAN,
         AppendRow(p, h, d)
  PROVE  /\ Added(p, [hash |-> h, deleted |-> d])
         /\ rows' \in [Paths -> Seq(Version)]
<1> DEFINE x == [hash |-> h, deleted |-> d]
<1>1. x \in Version /\ rows \in [Paths -> Seq(Version)]
  BY DEF TypeOK, Version
<1>2. rows' = [rows EXCEPT ![p] = Append(@, x)]
  BY DEF AppendRow
<1> HIDE DEF x
<1>3. /\ rows'[p] = Append(rows[p], x) /\ \A q \in Paths \ {p} : rows'[q] = rows[q]
      /\ DOMAIN rows' = Paths
  BY <1>1, <1>2
<1>4. /\ Append(rows[p], x) \in Seq(Version) /\ Len(Append(rows[p], x)) = Len(rows[p]) + 1
      /\ Append(rows[p], x)[Len(rows[p]) + 1] = x
      /\ \A n \in 1..Len(rows[p]) : Append(rows[p], x)[n] = rows[p][n]
  BY <1>1, AppendProperties
<1>5. rows' \in [Paths -> Seq(Version)]
  BY <1>1, <1>2, <1>4
<1> QED
  BY <1>3, <1>4, <1>5 DEF Added, x

\* Versions are never taken away, and keep what they say.
Grown == \A p \in Paths : /\ Len(rows[p]) \in Nat /\ Len(rows'[p]) \in Nat
                          /\ Len(rows[p]) <= Len(rows'[p])
                          /\ \A n \in 1..Len(rows[p]) : rows'[p][n] = rows[p][n]

LEMMA Grows ==
  ASSUME TypeOK, rows' = rows \/ \E p \in Paths : \E x \in Version : Added(p, x)
  PROVE  Grown
<1>1. \A p \in Paths : Len(rows[p]) \in Nat
  BY RowsType
<1>2. CASE rows' = rows
  BY <1>1, <1>2 DEF Grown
<1>3. ASSUME NEW p \in Paths, NEW x \in Version, Added(p, x) PROVE Grown
  <2>1. \A q \in Paths : q = p \/ rows'[q] = rows[q]
    BY <1>3 DEF Added
  <2>2. /\ Len(rows'[p]) = Len(rows[p]) + 1
        /\ \A n \in 1..Len(rows[p]) : rows'[p][n] = rows[p][n]
    BY <1>3 DEF Added
  <2> QED
    BY <1>1, <2>1, <2>2 DEF Grown
<1> QED
  BY <1>2, <1>3

-----------------------------------------------------------------------------
(* The steps of process_file.                                              *)

\* The change in hand for p moves on to `at`, or is done.
Moves(p, at, n) ==
    /\ job'[p].at = at /\ job'[p].version = n
    /\ at # "none" => job'[p].type = job[p].type /\ job'[p].prev = job[p].prev

Removal(p) ==
    /\ job[p].at = "start" /\ job[p].type \in {"R", "D"}
    /\ RemovedPath(p) \in Paths
    /\ Added(RemovedPath(p), [hash |-> NoHash, deleted |-> TRUE])
    /\ missed' = missed \ {<<RemovedPath(p), Absent>>} /\ index' = index
    /\ IF job[p].type = "D" THEN Moves(p, "none", 0) ELSE Moves(p, "read", job[p].version)

Reading(p) ==
    /\ job[p].at = "start" /\ job[p].type \in {"A", "M"}
    /\ Moves(p, "read", job[p].version) /\ UNCHANGED <<rows, missed, index>>

Skipping(p) ==
    /\ job[p].at = "read" /\ local[p] = LatestHash(p)
    /\ Moves(p, "none", 0) /\ UNCHANGED <<rows, missed, index>>

Recording(p) ==
    /\ job[p].at = "read" /\ UNCHANGED <<missed, index>>
    /\ \/ /\ rows' = rows
          /\ \E n \in Versions(p) : Moves(p, "chunk", n)
       \/ /\ Added(p, [hash |-> local[p], deleted |-> FALSE])
          /\ Moves(p, "chunk", Len(rows[p]) + 1)

Publishing(p) ==
    /\ job[p].at = "chunk" /\ Moves(p, "none", 0) /\ UNCHANGED rows
    /\ missed' = missed \ {<<p, local[p]>>} /\ index' = index \cup {<<p, job[p].version>>}

Dropping(p) ==
    /\ job[p].at # "none" /\ Moves(p, "none", 0) /\ UNCHANGED index
    /\ missed' = missed \cup Owed(p, job[p], local[p])
    /\ \/ rows' = rows
       \/ job[p].at = "read" /\ Added(p, [hash |-> NoHash, deleted |-> FALSE])

Alone(p) ==
    /\ \A q \in Paths \ {p} : job'[q] = job[q]
    /\ UNCHANGED <<remote, local, force, commits, refreshes, crashes>>
    /\ faults' \in Nat

ProcessStep(p) == ProcessFile(p) \/ Unreadable(p) \/ FileFails(p)

LEMMA Steps ==
  ASSUME Fits, NEW p \in Paths, ProcessStep(p)
  PROVE  /\ Alone(p) /\ rows' \in [Paths -> Seq(Version)] /\ job' \in [Paths -> Job]
         /\ Removal(p) \/ Reading(p) \/ Skipping(p) \/ Recording(p) \/ Publishing(p) \/ Dropping(p)
<1>1. /\ rows \in [Paths -> Seq(Version)] /\ job \in [Paths -> Job] /\ faults \in Nat
      /\ Len(rows[p]) \in Nat /\ job[p].version \in Nat
  BY RowsType, JobType DEF Fits, TypeOK
<1> USE DEF budget
<1>2. ASSUME Done(p)
      PROVE  /\ Moves(p, "none", 0) /\ job' \in [Paths -> Job]
             /\ \A q \in Paths \ {p} : job'[q] = job[q]
  BY <1>1, <1>2, NoJobType DEF Done, Moves
<1>3. ASSUME Goto(p, "read")
      PROVE  /\ Moves(p, "read", job[p].version) /\ job' \in [Paths -> Job]
             /\ \A q \in Paths \ {p} : job'[q] = job[q]
  BY <1>1, <1>3 DEF Goto, Moves, Job
<1>4. ASSUME NEW n \in Nat, Chunking(p, n)
      PROVE  /\ Moves(p, "chunk", n) /\ job' \in [Paths -> Job]
             /\ \A q \in Paths \ {p} : job'[q] = job[q]
  <2>1. job' = [job EXCEPT ![p] = [job[p] EXCEPT !.at = "chunk", !.version = n]]
    BY <1>1, <1>4 DEF Chunking, Job
  <2>2. job[p] \in Job
    BY <1>1
  <2>3. [job[p] EXCEPT !.at = "chunk", !.version = n] \in Job
    BY <2>2 DEF Job
  <2> QED
    BY <1>1, <2>1, <2>2, <2>3 DEF Moves, Job
<1>5. CASE RecordDelete(p)
  <2>1. RemovedPath(p) \in Paths
    BY <1>5 DEF RecordDelete, RemovedPath, Fits, JobsFit
  <2>2. /\ Added(RemovedPath(p), [hash |-> NoHash, deleted |-> TRUE])
        /\ rows' \in [Paths -> Seq(Version)]
    BY <1>5, <2>1, RowAdded DEF RecordDelete, Fits
  <2>3. CASE job[p].type = "D"
    BY <1>1, <1>2, <1>5, <2>1, <2>2, <2>3 DEF RecordDelete, AfterRemoval, Removal, Alone
  <2>4. CASE job[p].type # "D"
    BY <1>1, <1>3, <1>5, <2>1, <2>2, <2>4 DEF RecordDelete, AfterRemoval, Removal, Alone
  <2> QED
    BY <2>3, <2>4
<1>6. CASE ReadFile(p)
  BY <1>1, <1>3, <1>6 DEF ReadFile, Reading, Alone
<1>7. CASE SkipUnchanged(p)
  BY <1>1, <1>2, <1>7 DEF SkipUnchanged, Skipping, Alone
<1>8. CASE RecordChange(p)
  <2>1. CASE Versions(p) # {} /\ ~force
    <3>1. PICK n \in Versions(p) : Chunking(p, n)
      BY <1>8, <2>1 DEF RecordChange
    <3>2. n \in Nat
      BY <1>1 DEF Versions
    <3> QED
      BY <1>1, <1>4, <1>8, <2>1, <3>1, <3>2 DEF RecordChange, Recording, Alone
  <2>2. CASE ~(Versions(p) # {} /\ ~force)
    <3>1. AppendRow(p, local[p], FALSE) /\ Chunking(p, Len(rows[p]) + 1)
      BY <1>8, <2>2 DEF RecordChange
    <3>2. local[p] \in Contents
      BY <1>8, JobType DEF RecordChange, Fits, JobsFit
    <3>3. /\ Added(p, [hash |-> local[p], deleted |-> FALSE])
          /\ rows' \in [Paths -> Seq(Version)]
      BY <3>1, <3>2, RowAdded DEF Fits
    <3>4. /\ Moves(p, "chunk", Len(rows[p]) + 1) /\ job' \in [Paths -> Job]
          /\ \A q \in Paths \ {p} : job'[q] = job[q]
      BY <1>1, <1>4, <3>1
    <3> QED
      BY <1>1, <1>8, <3>3, <3>4 DEF RecordChange, Recording, Alone
  <2> QED
    BY <2>1, <2>2
<1>9. CASE PublishChunks(p)
  BY <1>1, <1>2, <1>9 DEF PublishChunks, Publishing, Alone
<1>10. CASE Unreadable(p)
  <2>1. /\ Added(p, [hash |-> NoHash, deleted |-> FALSE])
        /\ rows' \in [Paths -> Seq(Version)]
    BY <1>10, RowAdded DEF Unreadable, Fits
  <2> QED
    BY <1>1, <1>2, <1>10, <2>1 DEF Unreadable, Dropping, Alone, Fault
<1>11. CASE FileFails(p)
  BY <1>1, <1>2, <1>11 DEF FileFails, Dropping, Alone, Fault
<1> QED
  BY <1>5, <1>6, <1>7, <1>8, <1>9, <1>10, <1>11 DEF ProcessStep, ProcessFile

LEMMA StepsGrow ==
  ASSUME Fits, NEW p \in Paths, ProcessStep(p)
  PROVE  Grown /\ index \subseteq index'
<1>1. Removal(p) \/ Reading(p) \/ Skipping(p) \/ Recording(p) \/ Publishing(p) \/ Dropping(p)
  BY Steps
<1>2. /\ [hash |-> NoHash, deleted |-> TRUE] \in Version
      /\ [hash |-> NoHash, deleted |-> FALSE] \in Version
  BY DEF Version
<1>3. job[p].at = "read" => [hash |-> local[p], deleted |-> FALSE] \in Version
  BY JobType DEF Version, Fits, JobsFit
<1>4. rows' = rows \/ \E q \in Paths : \E x \in Version : Added(q, x)
  BY <1>1, <1>2, <1>3 DEF Removal, Reading, Skipping, Recording, Publishing, Dropping
<1> QED
  BY <1>1, <1>4, Grows DEF Fits, Removal, Reading, Skipping, Recording, Publishing, Dropping

LEMMA OwedType ==
  ASSUME Fits, NEW p \in Paths
  PROVE  Owed(p, job[p], local[p]) \subseteq Paths \X (Contents \cup {Absent})
  BY JobType DEF Owed, Fits, JobsFit

LEMMA StepType ==
  ASSUME Fits, NEW p \in Paths, ProcessStep(p)
  PROVE  TypeOK'
<1>1. /\ Alone(p) /\ rows' \in [Paths -> Seq(Version)] /\ job' \in [Paths -> Job]
      /\ Removal(p) \/ Reading(p) \/ Skipping(p) \/ Recording(p) \/ Publishing(p) \/ Dropping(p)
  BY Steps
<1>2. Grown /\ index \subseteq index'
  BY StepsGrow
<1>3. \A q \in Paths : job[q].version \in 0..Len(rows[q]) /\ Len(rows[q]) \in Nat
  BY JobType, RowsType DEF Fits
<1>4. job'[p].version \in 0..Len(rows'[p])
  <2>1. CASE Recording(p)
    <3>1. CASE rows' = rows
      <4>1. PICK n \in Versions(p) : Moves(p, "chunk", n)
        BY <1>3, <2>1, <3>1 DEF Recording, Added
      <4> QED
        BY <1>3, <3>1, <4>1 DEF Versions, Moves
    <3>2. CASE rows' # rows
      BY <1>3, <2>1, <3>2 DEF Recording, Added, Moves
    <3> QED
      BY <3>1, <3>2
  <2>2. CASE ~Recording(p)
    <3>1. job'[p].version \in {0, job[p].version}
      BY <1>1, <2>2 DEF Removal, Reading, Skipping, Publishing, Dropping, Moves
    <3> QED
      BY <1>2, <1>3, <3>1 DEF Grown
  <2> QED
    BY <2>1, <2>2
<1>5. \A q \in Paths : job'[q].version \in 0..Len(rows'[q])
  <2> SUFFICES ASSUME NEW q \in Paths, q # p PROVE job'[q].version \in 0..Len(rows'[q])
    BY <1>4
  <2>1. job'[q] = job[q]
    BY <1>1 DEF Alone
  <2> QED
    BY <1>2, <1>3, <2>1 DEF Grown
<1>6. \A v \in index' : v[1] \in Paths /\ v[2] \in 1..Len(rows'[v[1]])
  <2>1. \A v \in index : v[1] \in Paths /\ v[2] \in 1..Len(rows[v[1]])
    BY DEF Fits, TypeOK
  <2>2. \A v \in index : v[1] \in Paths /\ v[2] \in 1..Len(rows'[v[1]])
    BY <1>2, <2>1 DEF Grown
  <2>3. CASE Publishing(p)
    BY <1>3, <2>2, <2>3 DEF Publishing, Fits, JobsFit
  <2>4. CASE ~Publishing(p)
    BY <1>1, <2>2, <2>4 DEF Removal, Reading, Skipping, Recording, Dropping
  <2> QED
    BY <2>3, <2>4
<1>7. missed' \subseteq Paths \X (Contents \cup {Absent})
  BY <1>1, OwedType DEF Removal, Reading, Skipping, Recording, Publishing, Dropping, Fits, TypeOK
<1> QED
  BY <1>1, <1>5, <1>6, <1>7 DEF Alone, Fits, TypeOK

LEMMA StepJobs ==
  ASSUME Fits, NEW p \in Paths, ProcessStep(p)
  PROVE  JobsFit'
<1>1. /\ Alone(p)
      /\ Removal(p) \/ Reading(p) \/ Skipping(p) \/ Recording(p) \/ Publishing(p) \/ Dropping(p)
  BY Steps
<1>2. Grown
  BY StepsGrow
<1>3. \A q \in Paths \ {p} : job'[q] = job[q]
  BY <1>1 DEF Alone
<1>4. local' = local
  BY <1>1 DEF Alone
<1>5. \A q \in Paths \ {p} : job[q].at = "chunk" =>
        job[q].version \in 1..Len(rows'[q]) /\ rows'[q][job[q].version].hash = local[q]
  <2> SUFFICES ASSUME NEW q \in Paths \ {p}, job[q].at = "chunk"
               PROVE  job[q].version \in 1..Len(rows'[q])
                      /\ rows'[q][job[q].version].hash = local[q]
    OBVIOUS
  <2>1. job[q].version \in 1..Len(rows[q]) /\ rows[q][job[q].version].hash = local[q]
    BY DEF Fits, JobsFit
  <2> QED
    BY <1>2, <2>1 DEF Grown
<1>6. job'[p].at = "chunk" =>
        job'[p].version \in 1..Len(rows'[p]) /\ rows'[p][job'[p].version].hash = local[p]
  <2> SUFFICES ASSUME job'[p].at = "chunk"
               PROVE  job'[p].version \in 1..Len(rows'[p])
                      /\ rows'[p][job'[p].version].hash = local[p]
    OBVIOUS
  <2>1. Recording(p)
    BY <1>1 DEF Removal, Reading, Skipping, Publishing, Dropping, Moves
  <2>2. Len(rows[p]) \in Nat
    BY RowsType DEF Fits
  <2>3. CASE rows' = rows /\ \E n \in Versions(p) : Moves(p, "chunk", n)
    BY <2>3 DEF Versions, Moves
  <2>4. CASE Added(p, [hash |-> local[p], deleted |-> FALSE]) /\ Moves(p, "chunk", Len(rows[p]) + 1)
    BY <2>2, <2>4 DEF Added, Moves
  <2> QED
    BY <2>1, <2>3, <2>4 DEF Recording
<1>7. job'[p].at # "none" =>
        /\ job[p].at # "none" /\ job'[p].type = job[p].type /\ job'[p].prev = job[p].prev
        /\ job'[p].at \in {"read", "chunk"} /\ job[p].type # "D"
  BY <1>1 DEF Removal, Reading, Skipping, Recording, Publishing, Dropping, Moves, Fits, JobsFit
<1> QED
  BY <1>3, <1>4, <1>5, <1>6, <1>7 DEF Fits, JobsFit

-----------------------------------------------------------------------------
(* The requests, and what interrupts them.                                 *)

\* The changes that Sync hands out.
Starts(r, full, p, j) ==
    \/ p \in New /\ r[p] # Absent /\ j = Change("R", r[p])
    \/ p \in New /\ r[p] = Absent /\ j = Change("A", "none")
    \/ p \in Gone /\ (\A q \in New : r[q] # p) /\ j = Change("D", "none")
    \/ p \in Modified /\ j = Change("M", "none")
    \/ p \in Tracked \ (New \cup Modified) /\ full /\ j = Change("M", "none")

LEMMA ChangeIs ==
  \A t, v : /\ Change(t, v).at = "start" /\ Change(t, v).type = t
            /\ Change(t, v).prev = v /\ Change(t, v).version = 0
  BY DEF Change

LEMMA Clones ==
  ASSUME TypeOK
  PROVE  /\ \A p \in New : local[p] = Absent /\ remote[p] # Absent /\ p \in Paths
         /\ \A p \in Gone : local[p] # Absent /\ remote[p] = Absent /\ p \in Paths
         /\ \A p \in Modified : remote[p] # Absent /\ remote[p] # local[p] /\ p \in Paths
         /\ \A p \in Tracked : remote[p] # Absent
         /\ \A r \in Renamings : \A p \in New : r[p] # Absent => r[p] \in Gone
  BY DEF New, Gone, Modified, Tracked, Renamings

\* What a request leaves for a path: a change in hand, a change that the
\* filter drops, or nothing where nothing has changed.
Synced(r, full, p) ==
    \/ job'[p].at = "start" /\ Starts(r, full, p, job'[p])
    \/ /\ job'[p] = NoJob /\ <<p, remote[p]>> \in missed'
       /\ p \in New /\ r[p] # Absent => <<r[p], Absent>> \in missed'
       /\ remote[p] # Absent
    \/ /\ job'[p] = NoJob /\ p \notin New /\ p \notin Modified
       /\ p \in Gone => \E q \in New : r[q] = p

LEMMA Syncs ==
  ASSUME Fits, NEW full \in BOOLEAN, Sync(full)
  PROVE  \E r \in Renamings :
            /\ \A p \in Paths : Synced(r, full, p)
            /\ job' \in [Paths -> Job]
            /\ missed \subseteq missed' /\ missed' \subseteq Paths \X (Contents \cup {Absent})
<1>1. PICK r \in Renamings :
        /\ job' = Accepted(Diff(r, full))
        /\ missed' = missed \cup UNION {Owed(p, Diff(r, full)[p], remote[p]) :
                         p \in {q \in Paths : Filtered(q, Diff(r, full)[q])}}
  BY DEF Sync
<1> DEFINE d == Diff(r, full)
<1>2. ASSUME NEW p \in Paths
      PROVE  /\ d[p] = NoJob \/ Starts(r, full, p, d[p])
             /\ d[p] = NoJob => /\ p \notin New /\ p \notin Modified
                                /\ p \in Gone => \E q \in New : r[q] = p
  BY DEF Diff, Starts, Change, NoJob
<1>3. \A p \in Paths : job'[p] = IF Filtered(p, d[p]) THEN NoJob ELSE d[p]
  BY <1>1 DEF Accepted
<1>4. \A p \in Paths : Filtered(p, d[p]) => Owed(p, d[p], remote[p]) \subseteq missed'
  BY <1>1
<1>5. missed' \subseteq missed \cup UNION {Owed(p, d[p], remote[p]) :
                                  p \in {q \in Paths : Filtered(q, d[q])}} /\ missed \subseteq missed'
  BY <1>1
<1>6. DOMAIN job' = Paths /\ job' = [p \in Paths |-> job'[p]]
  BY <1>1 DEF Accepted
<1> HIDE DEF d
<1>7. TooBig \subseteq Contents /\ Absent \notin Contents
  BY ConstantsAssumption
<1>8. ASSUME NEW p \in Paths, Starts(r, full, p, d[p])
      PROVE  /\ d[p].at = "start" /\ d[p] \in Job
             /\ d[p].type = "R" => d[p].prev \in Paths
             /\ p \in New /\ r[p] # Absent => d[p].type = "R" /\ d[p].prev = r[p]
  <2>1. /\ \A x \in Gone : Change("R", x) \in Job
        /\ \A t \in {"A", "M", "D"} : Change(t, "none") \in Job
    BY Clones DEF Change, Job, Fits
  <2>2. p \in New => p \notin Gone /\ p \notin Modified
    BY DEF New, Gone, Modified
  <2> QED
    BY <1>8, <2>1, <2>2, Clones, ChangeIs DEF Starts, Fits
<1>9. ASSUME NEW p \in Paths PROVE Synced(r, full, p)
  <2>1. CASE Filtered(p, d[p])
    <3>1. d[p].at = "start" /\ remote[p] \in TooBig
      BY <2>1 DEF Filtered
    <3>2. Starts(r, full, p, d[p])
      BY <1>2, <3>1, NoJobType
    <3>3. Owed(p, d[p], remote[p]) \subseteq missed' /\ job'[p] = NoJob
      BY <1>3, <1>4, <2>1
    <3>4. p \in New /\ r[p] # Absent => <<r[p], Absent>> \in missed'
      BY <1>8, <3>2, <3>3 DEF Owed
    <3> QED
      BY <1>7, <3>1, <3>3, <3>4 DEF Synced, Owed
  <2>2. CASE ~Filtered(p, d[p])
    <3>1. job'[p] = d[p]
      BY <1>3, <2>2
    <3> QED
      BY <1>2, <1>8, <3>1 DEF Synced
  <2> QED
    BY <2>1, <2>2
<1>10. \A p \in Paths : job'[p] \in Job
  BY <1>2, <1>3, <1>8, NoJobType
<1>11. ASSUME NEW p \in Paths, Filtered(p, d[p])
       PROVE  Owed(p, d[p], remote[p]) \subseteq Paths \X (Contents \cup {Absent})
  <2>1. Starts(r, full, p, d[p])
    BY <1>2, <1>11, NoJobType DEF Filtered
  <2> QED
    BY <1>8, <2>1, JobType DEF Owed, Fits
<1>12. missed' \subseteq Paths \X (Contents \cup {Absent})
  BY <1>5, <1>11 DEF Fits, TypeOK
<1> QED
  BY <1>5, <1>6, <1>9, <1>10, <1>12

Others == Push \/ (\E full \in BOOLEAN : Sync(full)) \/ DiffFails \/ Crash \/ UNCHANGED vars

LEMMA IdleMeans == Idle => \A p \in Paths : job[p].at = "none" /\ ~InHand(p)
  BY NoJobType DEF Idle, InHand

LEMMA OthersFit ==
  ASSUME Fits, Others
  PROVE  TypeOK' /\ JobsFit'
<1>0. /\ rows \in [Paths -> Seq(Version)] /\ job \in [Paths -> Job]
      /\ remote \in [Paths -> Contents \cup {Absent}]
      /\ local \in [Paths -> Contents \cup {Absent}] /\ force \in BOOLEAN
      /\ commits \in Nat /\ refreshes \in Nat /\ faults \in Nat /\ crashes \in Nat
      /\ missed \subseteq Paths \X (Contents \cup {Absent})
  BY DEF Fits, TypeOK
<1>1. rows' = rows /\ index' = index
  BY DEF Others, Push, Sync, DiffFails, Crash, vars
<1>2. \A p \in Paths : job[p].version \in 0..Len(rows[p]) /\ Len(rows[p]) \in Nat
  BY JobType, RowsType DEF Fits
<1>a. ASSUME remote' \in [Paths -> Contents \cup {Absent}], local' \in [Paths -> Contents \cup {Absent}],
             job' \in [Paths -> Job], \A p \in Paths : job'[p].version \in {0, job[p].version},
             missed' \subseteq Paths \X (Contents \cup {Absent}), force' \in BOOLEAN,
             commits' \in Nat, refreshes' \in Nat, faults' \in Nat, crashes' \in Nat
      PROVE  TypeOK'
  <2>1. \A p \in Paths : job'[p].version \in 0..Len(rows'[p])
    BY <1>1, <1>2, <1>a
  <2>2. \A v \in index' : v[1] \in Paths /\ v[2] \in 1..Len(rows'[v[1]])
    BY <1>1 DEF Fits, TypeOK
  <2> QED
    BY <1>0, <1>1, <1>a, <2>1, <2>2 DEF TypeOK
<1>3. CASE Push
  <2>1. /\ UNCHANGED <<local, rows, force, job, index, missed, refreshes, faults, crashes>>
        /\ commits' = commits + 1
    BY <1>3 DEF Push
  <2>2. remote' \in [Paths -> Contents \cup {Absent}]
    BY <1>0, <1>3 DEF Push
  <2>3. TypeOK'
    BY <1>0, <1>a, <2>1, <2>2
  <2> QED
    BY <2>1, <2>3 DEF Fits, JobsFit
<1>4. ASSUME NEW full \in BOOLEAN, Sync(full) PROVE TypeOK' /\ JobsFit'
  <2>1. PICK r \in Renamings :
          /\ \A p \in Paths : Synced(r, full, p)
          /\ job' \in [Paths -> Job] /\ missed' \subseteq Paths \X (Contents \cup {Absent})
    BY <1>4, Syncs
  <2>2. /\ local' = remote /\ force' = full /\ UNCHANGED <<remote, commits, faults, crashes>>
        /\ refreshes' = IF full THEN refreshes + 1 ELSE refreshes
    BY <1>4 DEF Sync
  <2>3. \A p \in Paths :
          \/ job'[p].at = "none" /\ job'[p].version = 0
          \/ /\ job'[p].at = "start" /\ job'[p].version = 0
             /\ (job'[p].type = "D") = (remote[p] = Absent)
             /\ job'[p].type = "R" => job'[p].prev \in Paths
    <3> SUFFICES ASSUME NEW p \in Paths, job'[p].at = "start", Starts(r, full, p, job'[p])
                 PROVE  /\ job'[p].version = 0 /\ (job'[p].type = "D") = (remote[p] = Absent)
                        /\ job'[p].type = "R" => job'[p].prev \in Paths
      BY <2>1, NoJobType DEF Synced
    <3>1. PICK t, v : job'[p] = Change(t, v)
      BY DEF Starts
    <3> QED
      BY <3>1, Clones, ChangeIs DEF Starts, Fits
  <2>4. TypeOK'
    <3>1. refreshes' \in Nat
      BY <1>0, <2>2
    <3> QED
      BY <1>0, <1>a, <2>1, <2>2, <2>3, <3>1
  <2> QED
    BY <2>2, <2>3, <2>4 DEF JobsFit
<1>5. CASE DiffFails
  <2>1. /\ local' = remote /\ faults' = faults + 1 /\ \A p \in Paths : job[p].at = "none"
        /\ UNCHANGED <<remote, rows, force, job, index, commits, refreshes, crashes>>
        /\ missed' = missed \cup {<<p, remote[p]>> : p \in {q \in Paths : local[q] # remote[q]}}
    BY <1>5, IdleMeans DEF DiffFails, Fault
  <2>2. missed' \subseteq Paths \X (Contents \cup {Absent}) /\ faults' \in Nat
    BY <1>0, <2>1
  <2>3. TypeOK'
    BY <1>0, <1>a, <2>1, <2>2
  <2> QED
    BY <2>1, <2>3 DEF JobsFit
<1>6. CASE Crash
  <2>1. /\ job' = [p \in Paths |-> NoJob] /\ crashes' = crashes + 1
        /\ UNCHANGED <<remote, local, rows, force, index, commits, refreshes, faults>>
        /\ missed' = missed \cup UNION {Owed(p, job[p], local[p]) :
                         p \in {q \in Paths : job[q].at # "none"}}
    BY <1>6 DEF Crash
  <2>2. missed' \subseteq Paths \X (Contents \cup {Absent})
    BY <1>0, <2>1, OwedType
  <2>3. crashes' \in Nat /\ job' \in [Paths -> Job]
    BY <1>0, <2>1, NoJobType
  <2>4. \A p \in Paths : job'[p].at = "none" /\ job'[p].version = 0
    BY <2>1, NoJobType
  <2>5. TypeOK'
    BY <1>0, <1>a, <2>1, <2>2, <2>3, <2>4
  <2> QED
    BY <2>4, <2>5 DEF JobsFit
<1>7. CASE UNCHANGED vars
  BY <1>7 DEF vars, budget, Fits, TypeOK, JobsFit
<1> QED
  BY <1>3, <1>4, <1>5, <1>6, <1>7 DEF Others

LEMMA NextIsOne == [Next]_vars => Others \/ \E p \in Paths : ProcessStep(p)
  BY DEF Next, Others, Rests, ProcessStep

LEMMA InitFits == Init => Fits
<1> SUFFICES ASSUME Init PROVE Fits
  OBVIOUS
<1>1. rows \in [Paths -> Seq(Version)] /\ \A p \in Paths : Len(rows[p]) = 0
  BY DEF Init
<1>2. job \in [Paths -> Job] /\ \A p \in Paths : job[p].at = "none" /\ job[p].version = 0
  BY NoJobType DEF Init
<1>3. /\ remote \in [Paths -> Contents \cup {Absent}] /\ local \in [Paths -> Contents \cup {Absent}]
      /\ force = FALSE /\ index = {} /\ missed = {}
      /\ commits = 0 /\ refreshes = 0 /\ faults = 0 /\ crashes = 0
  BY DEF Init
<1>4. {commits, refreshes, faults, crashes} \subseteq Nat
  BY <1>3
<1>5. \A p \in Paths : job[p].version \in 0..Len(rows[p])
  BY <1>1, <1>2
<1>6. TypeOK
  BY <1>1, <1>2, <1>3, <1>4, <1>5 DEF TypeOK
<1>7. JobsFit
  BY <1>2 DEF JobsFit
<1> QED
  BY <1>6, <1>7 DEF Fits

LEMMA StepFits == Fits /\ [Next]_vars => Fits'
  BY NextIsOne, OthersFit, StepType, StepJobs DEF Fits

\* FileVersions's TypeOK: the index and the changes in hand refer to versions
\* that the table holds, whatever fails or crashes.
THEOREM TypeCorrect == Spec => []TypeOK
<1>1. Fits => TypeOK
  BY DEF Fits
<1> QED
  BY <1>1, InitFits, StepFits, PTL DEF Spec

-----------------------------------------------------------------------------
(* The table and the index.                                                *)

LEMMA StepGone ==
  ASSUME Fits, GoneRecorded, NEW p \in Paths, ProcessStep(p)
  PROVE  GoneRecorded'
<1>1. /\ Alone(p)
      /\ Removal(p) \/ Reading(p) \/ Skipping(p) \/ Recording(p) \/ Publishing(p) \/ Dropping(p)
  BY Steps
<1>2. local' = local /\ \A q \in Paths \ {p} : job'[q] = job[q]
  BY <1>1 DEF Alone
<1>3. job[p].at # "none" => (job[p].type = "D" <=> local[p] = Absent)
  BY DEF Fits, JobsFit
<1>4. job[p].at \in {"read", "chunk"} => local[p] # Absent
  BY <1>3 DEF Fits, JobsFit
<1> SUFFICES ASSUME NEW q \in Paths, local[q] = Absent, ~InHand(q)', ~Missed(q)'
             PROVE  LastDeleted(q)'
  BY <1>2 DEF GoneRecorded
<1>5. <<q, Absent>> \notin missed'
  BY <1>2 DEF Missed
<1>6. CASE Removal(p) /\ RemovedPath(p) = q
  <2>1. Len(rows[q]) \in Nat
    BY RowsType DEF Fits
  <2> QED
    BY <1>6, <2>1 DEF Removal, Added, LastDeleted
<1>7. CASE ~(Removal(p) /\ RemovedPath(p) = q)
  <2>1. <<q, Absent>> \notin missed
    BY <1>1, <1>4, <1>5, <1>7 DEF Removal, Reading, Skipping, Recording, Publishing, Dropping
  <2>2. rows'[q] = rows[q]
    BY <1>1, <1>4, <1>7 DEF Removal, Reading, Skipping, Recording, Publishing, Dropping, Added
  <2>3. ~InHand(q)
    <3>1. \A x \in Paths : job'[x].at = "none" \/ x # q
      BY DEF InHand
    <3>2. \A x \in Paths : ~(job'[x].at = "start" /\ job'[x].type = "R" /\ job'[x].prev = q)
      BY DEF InHand
    <3>3. job[q].at = "none"
      <4> SUFFICES ASSUME job[q].at # "none" PROVE FALSE
        OBVIOUS
      <4>1. q = p
        BY <1>2, <3>1
      <4>2. job[p].type = "D" /\ job[p].at \notin {"read", "chunk"}
        BY <1>3, <1>4, <4>1
      <4>3. Dropping(p)
        BY <1>1, <1>7, <4>1, <4>2
           DEF Removal, Reading, Skipping, Recording, Publishing, RemovedPath
      <4> QED
        BY <1>5, <4>1, <4>3 DEF Dropping, Owed
    <3>4. ASSUME NEW x \in Paths, job[x].at = "start", job[x].type = "R", job[x].prev = q
          PROVE  FALSE
      <4>1. x = p
        BY <1>2, <3>2, <3>4
      <4>2. Dropping(p)
        BY <1>1, <1>7, <3>4, <4>1
           DEF Removal, Reading, Skipping, Recording, Publishing, RemovedPath
      <4> QED
        BY <1>5, <3>4, <4>1, <4>2 DEF Dropping, Owed
    <3> QED
      BY <3>3, <3>4 DEF InHand
  <2> QED
    BY <2>1, <2>2, <2>3 DEF GoneRecorded, Missed, LastDeleted
<1> QED
  BY <1>6, <1>7

LEMMA LatestIsVersion ==
  ASSUME Fits, NEW p \in Paths, local[p] # Absent, local[p] = LatestHash(p)
  PROVE  Versions(p) # {}
<1>1. local[p] # NoHash
  BY JobType, ConstantsAssumption DEF Fits
<1>2. rows[p] # <<>> /\ rows[p][Len(rows[p])].hash = local[p]
  BY <1>1 DEF LatestHash
<1>3. rows[p] \in Seq(Version)
  BY RowsType DEF Fits
<1>4. Len(rows[p]) \in 1..Len(rows[p])
  BY <1>2, <1>3
<1> QED
  BY <1>2, <1>4 DEF Versions

LEMMA StepPresent ==
  ASSUME Fits, PresentRecorded, NEW p \in Paths, ProcessStep(p)
  PROVE  PresentRecorded'
<1>1. /\ Alone(p)
      /\ Removal(p) \/ Reading(p) \/ Skipping(p) \/ Recording(p) \/ Publishing(p) \/ Dropping(p)
  BY Steps
<1>2. local' = local /\ \A q \in Paths \ {p} : job'[q] = job[q]
  BY <1>1 DEF Alone
<1>3. \A q \in Paths : Versions(q) \subseteq Versions(q)'
  BY <1>2, StepsGrow DEF Grown, Versions
<1> SUFFICES ASSUME NEW q \in Paths, local[q] # Absent, job'[q].at = "none", ~Missed(q)'
             PROVE  Versions(q)' # {}
  BY <1>2 DEF PresentRecorded
<1>4. <<q, local[q]>> \notin missed'
  BY <1>2 DEF Missed
<1>5. CASE q # p
  <2>1. <<q, local[q]>> \notin missed
    BY <1>1, <1>4, <1>5 DEF Removal, Reading, Skipping, Recording, Publishing, Dropping
  <2>2. job[q].at = "none"
    BY <1>2, <1>5
  <2> QED
    BY <1>3, <2>1, <2>2 DEF PresentRecorded, Missed
<1>6. CASE q = p
  <2>1. ~Removal(p) /\ ~Reading(p) /\ ~Recording(p)
    BY <1>6 DEF Removal, Reading, Recording, Moves, Fits, JobsFit
  <2>2. ~Dropping(p)
    BY <1>4, <1>6 DEF Dropping, Owed
  <2>3. CASE Skipping(p)
    BY <1>3, <1>6, <2>3, LatestIsVersion DEF Skipping
  <2>4. CASE Publishing(p)
    <3>1. job[p].version \in Versions(p)
      BY <2>4 DEF Publishing, Versions, Fits, JobsFit
    <3> QED
      BY <1>3, <1>6, <3>1
  <2> QED
    BY <1>1, <2>1, <2>2, <2>3, <2>4
<1> QED
  BY <1>5, <1>6

\* Indexed after the step.
IndexedThen(p, c) == \E n \in 1..Len(rows'[p]) : rows'[p][n].hash = c /\ <<p, n>> \in index'

LEMMA StepPublished ==
  ASSUME Fits, RowsPublished, NEW p \in Paths, ProcessStep(p)
  PROVE  RowsPublished'
<1>1. /\ Alone(p)
      /\ Removal(p) \/ Reading(p) \/ Skipping(p) \/ Recording(p) \/ Publishing(p) \/ Dropping(p)
  BY Steps
<1>2. local' = local /\ \A q \in Paths \ {p} : job'[q] = job[q]
  BY <1>1 DEF Alone
<1>3. Grown /\ index \subseteq index'
  BY StepsGrow
<1> SUFFICES ASSUME NEW q \in Paths, NEW n \in 1..Len(rows'[q]), rows'[q][n].hash # NoHash
             PROVE  \/ <<q, rows'[q][n].hash>> \in missed'
                    \/ IndexedThen(q, rows'[q][n].hash)
                    \/ job'[q].at = "chunk" /\ local[q] = rows'[q][n].hash
  BY <1>2 DEF RowsPublished, Indexed, IndexedThen
<1>4. Len(rows[q]) \in Nat /\ Len(rows[p]) \in Nat
  BY RowsType DEF Fits
<1>5. CASE n \in 1..Len(rows[q])
  <2> DEFINE c == rows[q][n].hash
  <2>1. rows'[q][n] = rows[q][n]
    BY <1>3, <1>5 DEF Grown
  <2>2. c \in Contents
    BY <1>5, <2>1, RowsType DEF Fits
  <2>3. c # Absent /\ c # NoHash
    BY <2>2, ConstantsAssumption
  <2>4. Indexed(q, c) => IndexedThen(q, c)
    BY <1>3, <1>4 DEF Indexed, IndexedThen, Grown
  <2>5. Publishing(p) => IndexedThen(p, local[p])
    BY DEF Publishing, IndexedThen, Fits, JobsFit
  <2>6. <<q, c>> \in missed \/ Indexed(q, c) \/ (job[q].at = "chunk" /\ local[q] = c)
    BY <1>5, <2>3 DEF RowsPublished
  <2> HIDE DEF c
  <2>7. <<q, c>> \in missed' \/ IndexedThen(q, c) \/ (job'[q].at = "chunk" /\ local[q] = c)
    <3>1. CASE Indexed(q, c)
      BY <2>4, <3>1
    <3>2. CASE <<q, c>> \in missed
      <4>1. CASE Publishing(p) /\ <<q, c>> = <<p, local[p]>>
        BY <2>5, <4>1
      <4>2. CASE ~(Publishing(p) /\ <<q, c>> = <<p, local[p]>>)
        BY <1>1, <2>3, <3>2, <4>2
           DEF Removal, Reading, Skipping, Recording, Publishing, Dropping
      <4> QED
        BY <4>1, <4>2
    <3>3. CASE job[q].at = "chunk" /\ local[q] = c
      <4>1. CASE q # p
        BY <1>2, <3>3, <4>1
      <4>2. CASE q = p
        <5>1. Publishing(p) \/ Dropping(p)
          BY <1>1, <3>3, <4>2 DEF Removal, Reading, Skipping, Recording
        <5>2. Dropping(p) => <<p, local[p]>> \in missed'
          BY DEF Dropping, Owed
        <5> QED
          BY <2>5, <3>3, <4>2, <5>1, <5>2
      <4> QED
        BY <4>1, <4>2
    <3> QED
      BY <2>6, <3>1, <3>2, <3>3
  <2> QED
    BY <2>1, <2>7 DEF c
<1>6. CASE n \notin 1..Len(rows[q])
  <2>1. PICK x \in Paths, h \in {NoHash, local[p]}, d \in BOOLEAN :
          /\ Added(x, [hash |-> h, deleted |-> d])
          /\ h # NoHash => x = p /\ h = local[p] /\ job'[p].at = "chunk"
    <3>1. rows' # rows
      BY <1>6
    <3>2. CASE Removal(p)
      BY <3>2 DEF Removal
    <3>3. CASE Recording(p)
      BY <3>1, <3>3 DEF Recording, Moves
    <3>4. CASE Dropping(p)
      BY <3>1, <3>4 DEF Dropping
    <3> QED
      BY <1>1, <3>1, <3>2, <3>3, <3>4 DEF Reading, Skipping, Publishing
  <2>2. x = q
    BY <1>6, <2>1 DEF Added
  <2>3. n = Len(rows[q]) + 1
    BY <1>4, <1>6, <2>1, <2>2 DEF Added
  <2>4. rows'[q][n].hash = h
    BY <2>1, <2>2, <2>3 DEF Added
  <2> QED
    BY <2>1, <2>2, <2>4
<1> QED
  BY <1>5, <1>6

LEMMA SyncRecorded ==
  ASSUME Fits, Recorded, NEW full \in BOOLEAN, Sync(full)
  PROVE  Recorded'
<1>1. PICK r \in Renamings :
        (\A p \in Paths : Synced(r, full, p)) /\ missed \subseteq missed'
  BY Syncs
<1>2. /\ local' = remote /\ rows' = rows /\ index' = index
      /\ \A p \in Paths : job[p].at = "none" /\ ~InHand(p)
  BY IdleMeans DEF Sync
<1>3. ASSUME NEW q \in Paths, remote[q] = Absent, ~InHand(q)', ~Missed(q)'
      PROVE  LastDeleted(q)'
  <2>1. <<q, Absent>> \notin missed' /\ <<q, Absent>> \notin missed
    BY <1>1, <1>2, <1>3 DEF Missed
  <2>2. job'[q].at = "none"
    BY <1>3 DEF InHand
  <2>3. q \in Gone => \E x \in New : r[x] = q
    BY <1>1, <1>3, <2>2 DEF Synced
  <2>4. q \notin Gone
    <3> SUFFICES ASSUME q \in Gone PROVE FALSE
      OBVIOUS
    <3>1. PICK x \in New : r[x] = q
      BY <2>3
    <3>2. /\ x \in Paths /\ Synced(r, full, x)
          /\ x \notin Gone /\ x \notin Modified /\ r[x] # Absent
      BY <1>1, <3>1, ConstantsAssumption DEF New, Gone, Modified
    <3>3. CASE job'[x].at = "start" /\ Starts(r, full, x, job'[x])
      <4>1. job'[x] = Change("R", q)
        BY <3>1, <3>2, <3>3 DEF Starts
      <4> QED
        BY <1>3, <3>2, <4>1, ChangeIs DEF InHand
    <3>4. CASE ~(job'[x].at = "start" /\ Starts(r, full, x, job'[x]))
      BY <2>1, <3>1, <3>2, <3>4 DEF Synced
    <3> QED
      BY <3>3, <3>4
  <2>5. local[q] = Absent
    BY <1>3, <2>4 DEF Gone
  <2> QED
    BY <1>2, <2>1, <2>5 DEF Recorded, GoneRecorded, Missed, LastDeleted
<1>4. ASSUME NEW q \in Paths, remote[q] # Absent, job'[q].at = "none", ~Missed(q)'
      PROVE  Versions(q)' # {}
  <2>1. <<q, remote[q]>> \notin missed' /\ <<q, remote[q]>> \notin missed
    BY <1>1, <1>2, <1>4 DEF Missed
  <2>2. q \notin New /\ q \notin Modified
    BY <1>1, <1>4, <2>1 DEF Synced
  <2>3. local[q] = remote[q]
    BY <1>4, <2>2 DEF New, Modified
  <2>4. Versions(q) # {}
    BY <1>2, <1>4, <2>1, <2>3 DEF Recorded, PresentRecorded, Missed
  <2> QED
    BY <1>2, <2>3, <2>4 DEF Versions
<1>5. RowsPublished'
  BY <1>1, <1>2 DEF Recorded, RowsPublished, Indexed
<1> QED
  BY <1>2, <1>3, <1>4, <1>5 DEF Recorded, GoneRecorded, PresentRecorded

LEMMA OthersRecorded ==
  ASSUME Fits, Recorded, Others
  PROVE  Recorded'
<1>1. CASE Push \/ UNCHANGED vars
  <2>1. UNCHANGED <<local, rows, job, index, missed>>
    BY <1>1 DEF Push, vars
  <2> QED
    BY <2>1 DEF Recorded, GoneRecorded, PresentRecorded, RowsPublished, Indexed, InHand, Missed,
                LastDeleted, Versions
<1>2. CASE DiffFails
  <2>1. /\ local' = remote /\ UNCHANGED <<rows, job, index>> /\ missed \subseteq missed'
        /\ \A q \in Paths : local[q] # remote[q] => <<q, remote[q]>> \in missed'
        /\ \A q \in Paths : job[q].at = "none" /\ ~InHand(q)
    BY <1>2, IdleMeans DEF DiffFails
  <2>2. \A q \in Paths : ~Missed(q)' => local[q] = remote[q] /\ ~Missed(q)
    BY <2>1 DEF Missed
  <2>3. GoneRecorded'
    BY <2>1, <2>2 DEF Recorded, GoneRecorded, LastDeleted
  <2>4. PresentRecorded'
    BY <2>1, <2>2 DEF Recorded, PresentRecorded, Versions
  <2>5. RowsPublished'
    BY <2>1 DEF Recorded, RowsPublished, Indexed
  <2> QED
    BY <2>3, <2>4, <2>5 DEF Recorded
<1>3. CASE Crash
  <2>1. /\ UNCHANGED <<local, rows, index>> /\ missed \subseteq missed'
        /\ \A q \in Paths : job'[q].at = "none"
        /\ \A q \in Paths : job[q].at # "none" => Owed(q, job[q], local[q]) \subseteq missed'
    BY <1>3, NoJobType DEF Crash
  <2>2. \A q \in Paths : job[q].at # "none" => <<q, local[q]>> \in missed'
    BY <2>1 DEF Owed
  <2>3. \A q, x \in Paths : job[x].at = "start" /\ job[x].type = "R" /\ job[x].prev = q
                             => <<q, Absent>> \in missed'
    BY <2>1 DEF Owed
  <2>4. GoneRecorded'
    BY <2>1, <2>2, <2>3 DEF Recorded, GoneRecorded, InHand, Missed, LastDeleted
  <2>5. PresentRecorded'
    BY <2>1, <2>2 DEF Recorded, PresentRecorded, Missed, Versions
  <2>6. RowsPublished'
    BY <2>1, <2>2 DEF Recorded, RowsPublished, Indexed
  <2> QED
    BY <2>4, <2>5, <2>6 DEF Recorded
<1> QED
  BY <1>1, <1>2, <1>3, SyncRecorded DEF Others

LEMMA InitRecorded == Init => Recorded
<1> SUFFICES ASSUME Init PROVE Recorded
  OBVIOUS
<1>1. \A p \in Paths : rows[p] = <<>> /\ local[p] = Absent
  BY DEF Init
<1> QED
  BY <1>1 DEF Recorded, GoneRecorded, PresentRecorded, RowsPublished, LastDeleted

LEMMA StepRecorded == Fits /\ Recorded /\ [Next]_vars => Recorded'
  BY NextIsOne, OthersRecorded, StepGone, StepPresent, StepPublished DEF Recorded

LEMMA AlwaysRecorded == Spec => [](Fits /\ Recorded)
  BY InitFits, StepFits, InitRecorded, StepRecorded, PTL DEF Spec

\* FileVersions's TableFollowsClone, for any number of paths, contents, pushes,
\* refreshes, failures and crashes: the table of versions follows the clone
\* except where this very change was dropped.
THEOREM TableFollowsCloneHolds == Spec => []TableFollowsClone
<1>1. Fits /\ Recorded => TableFollowsClone
  BY DEF Recorded, GoneRecorded, PresentRecorded, TableFollowsClone, InHand
<1> QED
  BY <1>1, AlwaysRecorded, PTL

\* FileVersions's ContentPublished, for any constants: neither the shortcut for
\* an unchanged hash nor the row taken again hides a content that was never
\* published, except one that was dropped.
THEOREM ContentPublishedHolds == Spec => []ContentPublished
<1>1. ASSUME Fits, Recorded, NEW p \in Paths, local[p] # Absent, job[p].at = "none", ~Missed(p)
      PROVE  \E n \in Versions(p) : <<p, n>> \in index
  <2>1. PICK m \in Versions(p) : TRUE
    BY <1>1 DEF Recorded, PresentRecorded
  <2>2. m \in 1..Len(rows[p]) /\ rows[p][m].hash = local[p]
    BY <2>1 DEF Versions
  <2>3. local[p] # NoHash
    BY <1>1, JobType, ConstantsAssumption DEF Fits
  <2>4. Indexed(p, local[p])
    BY <1>1, <2>2, <2>3 DEF Recorded, RowsPublished, Missed
  <2> QED
    BY <2>4 DEF Indexed, Versions
<1>2. Fits /\ Recorded => ContentPublished
  BY <1>1 DEF ContentPublished
<1> QED
  BY <1>2, AlwaysRecorded, PTL

=============================================================================
