---------------------------- MODULE QdrantStorage ----------------------------
(***************************************************************************)
(* The Qdrant storage service: consume() feeds a bounded work queue, one   *)
(* collector packs the items into batches, a pool of workers writes the    *)
(* batches, and delete messages bypass both queues                         *)
(* (qdrant_storage_service/main.py and writer.py).                         *)
(*                                                                         *)
(* Two topics of one partition each.  Code chunks and document chunks are  *)
(* written one group after the other to the same collection.  Entities     *)
(* stand for the five other kinds of points: each is written after the     *)
(* chunks and removed as they are (triplets, unconditionally) or, like     *)
(* entities, with a check for survivors.  An embedding event carries one   *)
(* payload.                                                                *)
(***************************************************************************)
EXTENDS Integers, Sequences, FiniteSets

CONSTANTS
    Workers,      \* STREAMING_WORKERS tasks
    BatchSize,    \* QDRANT_BATCH_SIZE
    MaxRetries,   \* config.MAX_RETRIES
    Topics,       \* enriched-code-chunks and embeddings-ready
    Log,          \* [Topics -> sequence of messages]
    Points,       \* point ids, of either kind
    NameOf,       \* the name in the payload of each entity point
    Unfit,        \* messages passed over without a trace but a log line:
                  \* chunks under 50 characters, and what the parsers reject
    MaxFaults,    \* bound on failing calls (Qdrant, commit) and crashes together
    MaxDrops,     \* bound on collections removed behind the service's back
    MaxStops      \* bound on termination signals

Kinds == {"chunk", "document", "entity"}
Collections == {"chunk", "entity"}
CollectionOf(kind) == IF kind = "entity" THEN "entity" ELSE "chunk"
Versions == UNION {{Log[t][i].fv : i \in 1..Len(Log[t])} : t \in Topics}
None == "none"

Items == UNION {{<<t, i>> : i \in 1..Len(Log[t])} : t \in Topics}
Msg(x) == Log[x[1]][x[2]]
PointsOf(c) ==
    {Msg(x).id : x \in {y \in Items : Msg(y).kind \in Kinds /\ CollectionOf(Msg(y).kind) = c}}

ASSUME ConstantsAssumption ==
    /\ IsFiniteSet(Workers) /\ Workers # {}
    /\ BatchSize \in Nat \ {0} /\ MaxRetries \in Nat \ {0}
    /\ Log \in [Topics -> Seq([kind : Kinds \cup {"delete"}, id : Points \cup {None}, fv : Versions])]
    /\ \A t \in Topics : \A i \in 1..Len(Log[t]) : Log[t][i].kind \in Kinds => Log[t][i].id \in Points
    /\ PointsOf("chunk") \cap PointsOf("entity") = {}  \* two collections
    /\ None \notin Versions
    /\ Unfit \subseteq Items
    /\ {MaxFaults, MaxDrops, MaxStops} \subseteq Nat

Sentinel == <<"sentinel", 0>>
W == Cardinality(Workers)

VARIABLES
    pos,        \* offsets up to which getmany has returned messages
    committed,  \* offsets committed by consumer.commit()
    inbox,      \* messages returned by getmany and not yet handled
    mode,       \* "run", "signalled", "closing", "sentinel" or "stopped"
    del,        \* progress of _handle_delete
    workQ, batchQ,
    collector,  \* state of the collector task
    pack,       \* the batch it is building
    pills,      \* sentinels it has still to send to the workers
    wpc, batch, \* state of each worker and the batch it holds
    attempt,    \* calls made by _upsert_with_retry
    created,    \* workers whose call created the collection ("yes"/"no")
    points,     \* Qdrant: file_version_id in the payload of each point
    exists,     \* Qdrant: collections that exist
    written,    \* items whose upsert was acknowledged
    lost,       \* items of batches given up after an error
    faults, drops, crashes, stops

feedVars == <<pos, committed, inbox, mode, del>>
packVars == <<collector, pack, pills>>
workVars == <<wpc, batch, attempt, created>>
dbVars   == <<points, exists>>
logVars  == <<written, lost>>
budget   == <<faults, drops, crashes, stops>>
vars == <<feedVars, workQ, batchQ, packVars, workVars, dbVars, logVars, budget>>

NoDelete == [at |-> "none", candidates |-> {}, doomed |-> {}]

Init ==
    /\ inbox = <<>> /\ mode = "run" /\ del = NoDelete
    /\ workQ = <<>> /\ batchQ = <<>>
    /\ collector = "first" /\ pack = <<>> /\ pills = 0
    /\ wpc = [w \in Workers |-> "idle"]
    /\ batch = [w \in Workers |-> <<>>]
    /\ attempt = [w \in Workers |-> 0]
    /\ created = [w \in Workers |-> "no"]
    /\ pos = [t \in Topics |-> 0] /\ committed = pos
    /\ points = [p \in Points |-> None] /\ exists = Collections
    /\ written = {} /\ lost = {}
    /\ faults = 0 /\ drops = 0 /\ crashes = 0 /\ stops = 0

Elems(s) == {s[i] : i \in 1..Len(s)}
Goto(w, s) == wpc' = [wpc EXCEPT ![w] = s]
Trouble == faults + crashes < MaxFaults
Fault == Trouble /\ faults' = faults + 1 /\ UNCHANGED <<drops, crashes, stops>>

-----------------------------------------------------------------------------
(* consume().  getmany returns a run of messages per partition; commit     *)
(* follows once each was queued or, for a delete, handled.                 *)

Offsets(t, from, to) == [i \in 1..(to - from) |-> <<t, from + i>>]

Fetch ==
    /\ mode = "run" /\ inbox = <<>> /\ committed = pos
    /\ \E t, u \in Topics : \E p \in (pos[t] + 1)..Len(Log[t]) :
          \/ /\ t = u
             /\ pos' = [pos EXCEPT ![t] = p]
             /\ inbox' = Offsets(t, pos[t], p)
          \/ /\ t # u
             /\ \E q \in (pos[u] + 1)..Len(Log[u]) :
                   /\ pos' = [pos EXCEPT ![t] = p, ![u] = q]
                   /\ inbox' = Offsets(t, pos[t], p) \o Offsets(u, pos[u], q)
    /\ UNCHANGED <<committed, mode, del, workQ, batchQ, packVars, workVars, dbVars,
                   logVars, budget>>

NextIs(kinds) == inbox # <<>> /\ Msg(Head(inbox)).kind \in kinds

WorkQueueHasRoom == Len(workQ) < 2 * W

Enqueue ==
    /\ mode \in {"run", "signalled"} /\ NextIs(Kinds) /\ WorkQueueHasRoom
    /\ workQ' = Append(workQ, Head(inbox))
    /\ inbox' = Tail(inbox)
    /\ UNCHANGED <<pos, committed, mode, del, batchQ, packVars, workVars, dbVars,
                   logVars, budget>>

Commit ==
    /\ inbox = <<>> /\ mode \in {"run", "signalled"} /\ committed # pos
    /\ committed' = pos
    /\ UNCHANGED <<pos, inbox, mode, del, workQ, batchQ, packVars, workVars, dbVars,
                   logVars, budget>>

\* commit raises: consume() ends, and main() stops the service
CommitFails ==
    /\ inbox = <<>> /\ mode \in {"run", "signalled"} /\ committed # pos
    /\ Fault /\ mode' = "closing"
    /\ UNCHANGED <<pos, committed, inbox, del, workQ, batchQ, packVars, workVars, dbVars,
                   logVars>>

\* faulty variant: the handler puts the sentinel itself
SignalWithSentinel ==
    /\ mode = "run" /\ stops < MaxStops
    /\ mode' = "signalled" /\ stops' = stops + 1
    /\ workQ' = Append(workQ, Sentinel)
    /\ UNCHANGED <<pos, committed, inbox, del, batchQ, packVars, workVars, dbVars,
                   logVars, faults, drops, crashes>>

Signal ==
    /\ mode = "run" /\ stops < MaxStops
    /\ mode' = "signalled" /\ stops' = stops + 1
    /\ UNCHANGED <<pos, committed, inbox, del, workQ, batchQ, packVars, workVars, dbVars,
                   logVars, faults, drops, crashes>>

\* faulty variant: the fetched messages are abandoned on the signal
HandledNothing == TRUE
HandledAll == inbox = <<>> /\ committed = pos

LeaveConsume ==
    /\ mode = "signalled" /\ HandledAll
    /\ mode' = "closing"
    /\ UNCHANGED <<pos, committed, inbox, del, workQ, batchQ, packVars, workVars, dbVars,
                   logVars, budget>>

-----------------------------------------------------------------------------
(* _handle_delete and QdrantBatchWriter.delete_by_file_version_id.  Each   *)
(* call to Qdrant is a step.                                               *)

DeletedVersion == Msg(Head(inbox)).fv

\* faulty variant: a filter that matches every version
AnyVersion(p) == points[p] # None
OfDeletedVersion(p) == points[p] = DeletedVersion

DeleteChunks ==
    /\ mode \in {"run", "signalled"} /\ NextIs({"delete"}) /\ del = NoDelete
    /\ points' = [p \in Points |->
                    IF p \in PointsOf("chunk") /\ OfDeletedVersion(p) THEN None ELSE points[p]]
    /\ del' = [NoDelete EXCEPT !.at = "scroll"]
    /\ UNCHANGED <<pos, committed, inbox, mode, workQ, batchQ, packVars, workVars, exists,
                   logVars, budget>>

ScrollEntities ==
    /\ del.at = "scroll"
    /\ del' = [at |-> "check", doomed |-> {},
               candidates |-> {p \in PointsOf("entity") : points[p] = DeletedVersion}]
    /\ UNCHANGED <<pos, committed, inbox, mode, workQ, batchQ, packVars, workVars, dbVars,
                   logVars, budget>>

\* the name is looked up again for each candidate
Survives(p) ==
    \E q \in PointsOf("entity") :
        NameOf[q] = NameOf[p] /\ points[q] \notin {None, DeletedVersion}

CheckSurvivor ==
    /\ del.at = "check"
    /\ \E p \in del.candidates :
          del' = [del EXCEPT !.candidates = @ \ {p},
                             !.doomed = IF Survives(p) THEN @ ELSE @ \cup {p}]
    /\ UNCHANGED <<pos, committed, inbox, mode, workQ, batchQ, packVars, workVars, dbVars,
                   logVars, budget>>

\* the doomed points are removed by id, whatever their payload is by now
RemoveEntities ==
    /\ del.at = "check" /\ del.candidates = {}
    /\ points' = [p \in Points |-> IF p \in del.doomed THEN None ELSE points[p]]
    /\ del' = NoDelete /\ inbox' = Tail(inbox)
    /\ UNCHANGED <<pos, committed, mode, workQ, batchQ, packVars, workVars, exists,
                   logVars, budget>>

\* an error of Qdrant is logged, and the rest of the delete is given up
DeleteFails ==
    /\ mode \in {"run", "signalled"} /\ NextIs({"delete"}) /\ Fault
    /\ del' = NoDelete /\ inbox' = Tail(inbox)
    /\ UNCHANGED <<pos, committed, mode, workQ, batchQ, packVars, workVars, dbVars, logVars>>

-----------------------------------------------------------------------------
(* _collector_loop.                                                        *)

CollectFirst ==
    /\ collector = "first" /\ workQ # <<>>
    /\ IF Head(workQ) = Sentinel
       THEN collector' = "drain" /\ UNCHANGED pack
       ELSE collector' = "fill" /\ pack' = <<Head(workQ)>>
    /\ workQ' = Tail(workQ)
    /\ UNCHANGED <<feedVars, batchQ, pills, workVars, dbVars, logVars, budget>>

CollectMore ==
    /\ collector = "fill" /\ Len(pack) < BatchSize
    /\ workQ # <<>> /\ Head(workQ) # Sentinel
    /\ pack' = Append(pack, Head(workQ))
    /\ workQ' = Tail(workQ)
    /\ UNCHANGED <<feedVars, batchQ, collector, pills, workVars, dbVars, logVars, budget>>

\* a sentinel ends the batch and goes back to the queue
CollectSentinel ==
    /\ collector = "fill" /\ Len(pack) < BatchSize
    /\ workQ # <<>> /\ Head(workQ) = Sentinel
    /\ workQ' = Append(Tail(workQ), Sentinel)
    /\ collector' = "push"
    /\ UNCHANGED <<feedVars, batchQ, pack, pills, workVars, dbVars, logVars, budget>>

\* COLLECT_TIMEOUT without a new item
CollectTimeout ==
    /\ collector = "fill" /\ Len(pack) < BatchSize /\ workQ = <<>>
    /\ collector' = "push"
    /\ UNCHANGED <<feedVars, workQ, batchQ, pack, pills, workVars, dbVars, logVars, budget>>

PushBatch ==
    /\ \/ collector = "push"
       \/ collector = "fill" /\ Len(pack) = BatchSize
    /\ Len(batchQ) < W
    /\ batchQ' = Append(batchQ, pack)
    /\ pack' = <<>> /\ collector' = "first"
    /\ UNCHANGED <<feedVars, workQ, pills, workVars, dbVars, logVars, budget>>

\* faulty variant: one sentinel for the whole pool
OnePill == 1
PillCount == W

WithoutSentinels(q) == SelectSeq(q, LAMBDA x : x # Sentinel)

\* what is left behind the sentinel becomes a last batch
Drain ==
    /\ collector = "drain" /\ Len(batchQ) < W
    /\ batchQ' = IF Elems(workQ) \subseteq {Sentinel} THEN batchQ
                 ELSE Append(batchQ, WithoutSentinels(workQ))
    /\ workQ' = <<>>
    /\ collector' = "pills" /\ pills' = PillCount
    /\ UNCHANGED <<feedVars, pack, workVars, dbVars, logVars, budget>>

SendPill ==
    /\ collector = "pills" /\ pills > 0 /\ Len(batchQ) < W
    /\ batchQ' = Append(batchQ, <<Sentinel>>)
    /\ pills' = pills - 1
    /\ collector' = IF pills = 1 THEN "stopped" ELSE "pills"
    /\ UNCHANGED <<feedVars, workQ, pack, workVars, dbVars, logVars, budget>>

-----------------------------------------------------------------------------
(* _batch_worker_loop around _process_batch: first the code chunks of the  *)
(* batch are written, then its document chunks, then its entities.         *)

TakeBatch(w) ==
    /\ wpc[w] = "idle" /\ batchQ # <<>>
    /\ batchQ' = Tail(batchQ)
    /\ IF Head(batchQ) = <<Sentinel>>
       THEN Goto(w, "stopped") /\ UNCHANGED batch
       ELSE Goto(w, "chunk") /\ batch' = [batch EXCEPT ![w] = Head(batchQ)]
    /\ attempt' = [attempt EXCEPT ![w] = 0]
    /\ created' = [created EXCEPT ![w] = "no"]
    /\ UNCHANGED <<feedVars, workQ, packVars, dbVars, logVars, budget>>

Fit(x) == x \notin Unfit

\* faulty variant: an unfit chunk spoils the chunks of its batch
GroupUnlessUnfit(w) ==
    {i \in 1..Len(batch[w]) : /\ Msg(batch[w][i]).kind = wpc[w]
                              /\ \A x \in Elems(batch[w]) : Fit(x)}

\* the places in the batch of the items to write now
Group(w) == {i \in 1..Len(batch[w]) : Msg(batch[w][i]).kind = wpc[w] /\ Fit(batch[w][i])}

FollowingGroup(w) ==
    CASE wpc[w] = "chunk" -> "document"
      [] wpc[w] = "document" -> "entity"
      [] OTHER -> "idle"

\* the kinds a worker has not written yet
Pending(k) ==
    CASE k = "chunk" -> Kinds
      [] k = "document" -> {"document", "entity"}
      [] OTHER -> {"entity"}

\* the last item of the group with a point's id decides its payload
Upserted(w) ==
    [p \in Points |->
        LET s == {i \in Group(w) : Msg(batch[w][i]).id = p}
            last == CHOOSE i \in s : \A j \in s : j <= i
        IN  IF s = {} THEN points[p] ELSE Msg(batch[w][last]).fv]

NextGroup(w) ==
    /\ Goto(w, FollowingGroup(w))
    /\ attempt' = [attempt EXCEPT ![w] = 0]
    /\ created' = [created EXCEPT ![w] = "no"]
    /\ batch' = IF wpc[w] = "entity" THEN [batch EXCEPT ![w] = <<>>] ELSE batch

NoGroup(w) ==
    /\ wpc[w] \in Kinds /\ Group(w) = {}
    /\ NextGroup(w)
    /\ UNCHANGED <<feedVars, workQ, batchQ, packVars, dbVars, logVars, budget>>

Upsert(w) ==
    /\ wpc[w] \in Kinds /\ CollectionOf(wpc[w]) \in exists /\ Group(w) # {}
    /\ points' = Upserted(w)
    /\ written' = written \cup {batch[w][i] : i \in Group(w)}
    /\ NextGroup(w)
    /\ UNCHANGED <<feedVars, workQ, batchQ, packVars, exists, lost, budget>>

GivesUp(n) == n >= MaxRetries

\* one more pass of the loop in _upsert_with_retry has failed; when it was
\* the last one, the rest of the batch is dropped with a log line
AttemptFailed(w) ==
    LET n == attempt[w] + 1
        unwritten == {x \in Elems(batch[w]) : Msg(x).kind \in Pending(wpc[w]) /\ Fit(x)}
    IN  IF GivesUp(n)
        THEN /\ lost' = lost \cup unwritten
             /\ Goto(w, "idle")
             /\ batch' = [batch EXCEPT ![w] = <<>>]
             /\ attempt' = [attempt EXCEPT ![w] = 0]
        ELSE /\ attempt' = [attempt EXCEPT ![w] = n]
             /\ UNCHANGED <<lost, wpc, batch>>

\* the call may have had its effect although it failed
UpsertFails(w) ==
    /\ wpc[w] \in Kinds /\ CollectionOf(wpc[w]) \in exists /\ Group(w) # {} /\ Fault
    /\ points' \in {points, Upserted(w)}
    /\ AttemptFailed(w)
    /\ UNCHANGED <<feedVars, workQ, batchQ, packVars, created, exists, written>>

\* 404: the collection is created once, and the loop continues
UpsertMissing(w) ==
    /\ wpc[w] \in Kinds /\ CollectionOf(wpc[w]) \notin exists /\ Group(w) # {}
    /\ IF created[w] = "no"
       THEN /\ exists' = exists \cup {CollectionOf(wpc[w])}
            /\ created' = [created EXCEPT ![w] = "yes"]
       ELSE UNCHANGED <<exists, created>>
    /\ AttemptFailed(w)
    /\ UNCHANGED <<feedVars, workQ, batchQ, packVars, points, written, budget>>

\* the collection could not be created: a failed attempt like any other
CreateFails(w) ==
    /\ wpc[w] \in Kinds /\ CollectionOf(wpc[w]) \notin exists /\ Group(w) # {}
    /\ created[w] = "no" /\ Fault
    /\ AttemptFailed(w)
    /\ UNCHANGED <<feedVars, workQ, batchQ, packVars, created, dbVars, written>>

\* external: a collection is removed by hand
DropCollection ==
    /\ drops < MaxDrops /\ drops' = drops + 1
    /\ \E k \in exists :
          /\ exists' = exists \ {k}
          /\ points' = [p \in Points |-> IF p \in PointsOf(k) THEN None ELSE points[p]]
    /\ UNCHANGED <<feedVars, workQ, batchQ, packVars, workVars, logVars, faults, crashes, stops>>

-----------------------------------------------------------------------------
(* stop() and crashes.                                                     *)

PutSentinel ==
    /\ mode = "closing" /\ WorkQueueHasRoom
    /\ workQ' = Append(workQ, Sentinel)
    /\ mode' = "sentinel"
    /\ UNCHANGED <<pos, committed, inbox, del, batchQ, packVars, workVars, dbVars, logVars, budget>>

Finish ==
    /\ mode = "sentinel" /\ collector = "stopped"
    /\ \A w \in Workers : wpc[w] = "stopped"
    /\ mode' = "stopped"
    /\ UNCHANGED <<pos, committed, inbox, del, workQ, batchQ, packVars, workVars, dbVars,
                   logVars, budget>>

\* the process is gone, or has nothing to do until a message arrives
WaitsForMessages ==
    /\ mode = "run" /\ committed = pos /\ \A t \in Topics : pos[t] = Len(Log[t])
    /\ workQ = <<>> /\ batchQ = <<>> /\ collector = "first"
    /\ \A w \in Workers : wpc[w] = "idle"
Rests == (mode = "stopped" \/ WaitsForMessages) /\ UNCHANGED vars

\* the queues are lost; the group reads on from its committed offsets
Crash ==
    /\ mode # "stopped" /\ Trouble /\ crashes' = crashes + 1
    /\ inbox' = <<>> /\ mode' = "run" /\ del' = NoDelete
    /\ workQ' = <<>> /\ batchQ' = <<>>
    /\ collector' = "first" /\ pack' = <<>> /\ pills' = 0
    /\ wpc' = [w \in Workers |-> "idle"]
    /\ batch' = [w \in Workers |-> <<>>]
    /\ attempt' = [w \in Workers |-> 0]
    /\ created' = [w \in Workers |-> "no"]
    /\ pos' = committed
    /\ UNCHANGED <<committed, dbVars, logVars, faults, drops, stops>>

-----------------------------------------------------------------------------
Consume ==
    \/ Fetch \/ Enqueue \/ Commit \/ LeaveConsume
    \/ DeleteChunks \/ ScrollEntities \/ CheckSurvivor \/ RemoveEntities
    \/ PutSentinel \/ Finish
Collect ==
    \/ CollectFirst \/ CollectMore \/ CollectSentinel \/ CollectTimeout
    \/ PushBatch \/ Drain \/ SendPill
Worker(w) == TakeBatch(w) \/ NoGroup(w) \/ Upsert(w) \/ UpsertMissing(w)

Next ==
    \/ Consume \/ Collect \/ Signal \/ Rests
    \/ CommitFails \/ DeleteFails \/ DropCollection \/ Crash
    \/ \E w \in Workers : Worker(w) \/ UpsertFails(w) \/ CreateFails(w)

Spec == Init /\ [][Next]_vars

\* every task that can run is run; failures and signals are never forced
FairSpec ==
    /\ Spec
    /\ WF_vars(Consume) /\ WF_vars(Collect)
    /\ \A w \in Workers : WF_vars(Worker(w))
-----------------------------------------------------------------------------
(* Properties.                                                             *)

Queued == Items \cup {Sentinel}

\* Every variable stays in its type, and no queue exceeds its maxsize.
TypeOK ==
    /\ \A t \in Topics : pos[t] \in 0..Len(Log[t]) /\ committed[t] \in 0..pos[t]
    /\ Elems(inbox) \subseteq Items
    /\ mode \in {"run", "signalled", "closing", "sentinel", "stopped"}
    /\ del.at \in {"none", "scroll", "check"}
    /\ del.candidates \cup del.doomed \subseteq Points
    /\ Elems(workQ) \subseteq Queued /\ Len(workQ) <= 2 * W
    /\ \A b \in Elems(batchQ) : Elems(b) \subseteq Queued
    /\ Len(batchQ) <= W
    /\ collector \in {"first", "fill", "push", "drain", "pills", "stopped"}
    /\ Len(pack) <= BatchSize /\ pills \in 0..W
    /\ wpc \in [Workers -> Kinds \cup {"idle", "stopped"}]
    /\ attempt \in [Workers -> 0..(MaxRetries - 1)]
    /\ points \in [Points -> Versions \cup {None}] /\ exists \subseteq Collections
    /\ written \cup lost \subseteq Items

Carried == {x \in Items : Msg(x).kind \in Kinds}
Writes == {x \in Carried : Fit(x)}
Read == {x \in Writes : x[2] <= pos[x[1]]}
Batched == UNION {Elems(b) : b \in Elems(batchQ)}
InHand == UNION {Elems(batch[w]) : w \in Workers}
InMemory == Elems(inbox) \cup Elems(workQ) \cup Elems(pack) \cup Batched \cup InHand

\* Shutdown in order: in both queues nothing is ever put behind a sentinel
\* except another sentinel, so no batch arrives after its worker has gone
\* and the collector finds nothing to drain.
NothingBehindSentinel ==
    /\ \A i, j \in 1..Len(workQ) : i < j /\ workQ[i] = Sentinel => workQ[j] = Sentinel
    /\ \A i, j \in 1..Len(batchQ) :
          i < j /\ batchQ[i] = <<Sentinel>> => batchQ[j] = <<Sentinel>>

\* Without a crash every message read that is fit to be written is in memory,
\* was written or was lost to an error that exhausted the retries, and a
\* service that has stopped gracefully has left none in memory (README.md:258
\* of the service).  Passing over an unfit message never costs the fit ones
\* of its batch.
NothingForgotten ==
    crashes = 0 =>
        /\ Read \subseteq InMemory \cup written \cup lost
        /\ mode = "stopped" => Read \subseteq written \cup lost

\* The point of a chunk disappears only when its own file version is deleted,
\* whatever the workers write meanwhile.
ChunkDeletedByOwner ==
    [][\A p \in PointsOf("chunk") :
         points[p] # None /\ points'[p] = None /\ drops' = drops
             => NextIs({"delete"}) /\ DeletedVersion = points[p]]_vars

\* stop() terminates: no task waits for another for ever.
StopTerminates == (mode = "closing") ~> (mode = "stopped")

\* Without failures every message that is fit to be written is written unless
\* the service is stopped; one that was read before the stop is written all
\* the same, whatever unfit messages share its batch.
AllWritten == \A x \in Writes :
    /\ <>(x \in written \/ mode # "run")
    /\ x \in Read ~> x \in written
=============================================================================
