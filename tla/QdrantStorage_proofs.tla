------------------------- MODULE QdrantStorage_proofs -------------------------
(***************************************************************************)
(* Proofs about QdrantStorage, for any log, any number of workers, batch   *)
(* size and retries, and any number of faults and crashes.                 *)
(***************************************************************************)
EXTENDS QdrantStorage, SequenceTheorems, WellFoundedInduction, TLAPS

Pill == <<Sentinel>>
Modes == {"run", "signalled", "closing", "sentinel", "stopped"}
Collecting == {"first", "fill", "push", "drain", "pills", "stopped"}

Deletion == [at : {"none", "scroll", "check"}, candidates : SUBSET PointsOf("entity"),
             doomed : SUBSET PointsOf("entity")]

\* The part of the types that the arguments below need: the queues hold
\* writes and sentinels, the batches of collector and workers writes only, and
\* a delete in progress is the next message of consume().
Shape ==
    /\ pos \in [Topics -> Nat] /\ committed \in [Topics -> Nat]
    /\ inbox \in Seq(Items)
    /\ mode \in Modes
    /\ del \in Deletion
    /\ del.at # "none" => NextIs({"delete"}) /\ mode \in {"run", "signalled"}
    /\ workQ \in Seq(Carried \cup {Sentinel})
    /\ batchQ \in Seq(Seq(Carried) \cup {Pill})
    /\ collector \in Collecting /\ pack \in Seq(Carried)
    /\ wpc \in [Workers -> Kinds \cup {"idle", "stopped"}]
    /\ batch \in [Workers -> Seq(Carried)]
    /\ exists \subseteq Collections
    /\ drops \in Nat

\* The order of a shutdown.  A sentinel in the work queue is its last element;
\* when the collector has taken it, nothing follows.  The collector puts pills
\* into the batch queue when it puts nothing else any more.
OnlyLast(q, x) == \A i \in 1..Len(q) : q[i] = x => i = Len(q)
Ending == collector \in {"drain", "pills", "stopped"}
Shutdown ==
    /\ OnlyLast(workQ, Sentinel)
    /\ Sentinel \in Elems(workQ) => mode \in {"sentinel", "stopped"}
    /\ Ending => workQ = << >> /\ mode \in {"sentinel", "stopped"}
    /\ Ending \/ collector = "first" => pack = << >>
    /\ \A i \in 1..Len(batchQ) : batchQ[i] = Pill => collector \in {"pills", "stopped"}
    /\ \A i, j \in 1..Len(batchQ) : i < j /\ batchQ[i] = Pill => batchQ[j] = Pill
    /\ \A w \in Workers : wpc[w] = "stopped" =>
          /\ collector \in {"pills", "stopped"}
          /\ \A i \in 1..Len(batchQ) : batchQ[i] = Pill

-----------------------------------------------------------------------------
USE DEF feedVars, packVars, workVars, dbVars, logVars, budget, vars, NoDelete

LEMMA SentinelNoItem == Sentinel \notin Items
  BY DEF Sentinel, Items

LEMMA PillNoBatch == Pill \notin Seq(Carried)
<1>1. SUFFICES ASSUME Pill \in Seq(Carried) PROVE FALSE
  OBVIOUS
<1>2. Len(Pill) = 1 /\ Pill[1] = Sentinel
  BY DEF Pill
<1>3. Pill[1] \in Carried
  BY <1>1, <1>2, ElementOfSeq
<1> QED
  BY <1>2, <1>3, SentinelNoItem DEF Carried

\* The first element of a queue, and the queue without it.
LEMMA Taken ==
  ASSUME NEW S, NEW q \in Seq(S), q # << >>
  PROVE  /\ Len(q) \in Nat \ {0} /\ Head(q) = q[1] /\ Head(q) \in S
         /\ Tail(q) \in Seq(S) /\ Len(Tail(q)) = Len(q) - 1
         /\ \A i \in 1..Len(q) - 1 : Tail(q)[i] = q[i + 1]
<1>1. Len(q) \in Nat \ {0}
  BY EmptySeq
<1> QED
  BY <1>1, HeadTailProperties

\* A queue with an element at its end.
LEMMA Put ==
  ASSUME NEW S, NEW q \in Seq(S), NEW x \in S
  PROVE  /\ Append(q, x) \in Seq(S) /\ Len(q) \in Nat /\ Len(Append(q, x)) = Len(q) + 1
         /\ \A i \in 1..Len(q) : Append(q, x)[i] = q[i]
         /\ Append(q, x)[Len(q) + 1] = x
  BY AppendProperties, LenProperties

LEMMA ElemsNone == Elems(<< >>) = {}
  BY DEF Elems

LEMMA Single ==
  ASSUME NEW S, NEW x \in S
  PROVE  << x >> \in Seq(S) /\ Elems(<< x >>) = {x}
<1>1. << x >> \in Seq(S) /\ Len(<< x >>) = 1 /\ << x >>[1] = x
  OBVIOUS
<1> QED
  BY <1>1 DEF Elems

LEMMA ElemsPut ==
  ASSUME NEW S, NEW q \in Seq(S), NEW x \in S
  PROVE  Elems(Append(q, x)) = Elems(q) \cup {x}
<1>1. /\ Len(q) \in Nat /\ Len(Append(q, x)) = Len(q) + 1
      /\ \A i \in 1..Len(q) : Append(q, x)[i] = q[i]
      /\ Append(q, x)[Len(q) + 1] = x
  BY Put
<1> QED
  BY <1>1 DEF Elems

LEMMA ElemsTaken ==
  ASSUME NEW S, NEW q \in Seq(S), q # << >>
  PROVE  Elems(q) = {Head(q)} \cup Elems(Tail(q))
<1>1. /\ Len(q) \in Nat \ {0} /\ Head(q) = q[1] /\ Len(Tail(q)) = Len(q) - 1
      /\ \A i \in 1..Len(q) - 1 : Tail(q)[i] = q[i + 1]
  BY Taken
<1>2. ASSUME NEW i \in 1..Len(q)
      PROVE  i = 1 \/ (i - 1 \in 1..Len(q) - 1 /\ q[i] = Tail(q)[i - 1])
  BY <1>1
<1>3. Elems(q) \subseteq {Head(q)} \cup Elems(Tail(q))
  <2> SUFFICES ASSUME NEW i \in 1..Len(q) PROVE q[i] \in {Head(q)} \cup Elems(Tail(q))
    BY DEF Elems
  <2> QED
    BY <1>1, <1>2 DEF Elems
<1>4. Elems(Tail(q)) \subseteq Elems(q)
  BY <1>1 DEF Elems
<1>5. Head(q) \in Elems(q)
  BY <1>1 DEF Elems
<1> QED
  BY <1>3, <1>4, <1>5

\* An element that only the end of a queue has, when the queue loses its head
\* and when something is put at its end.
LEMMA LastTaken ==
  ASSUME NEW S, NEW q \in Seq(S), q # << >>, NEW x, OnlyLast(q, x)
  PROVE  OnlyLast(Tail(q), x) /\ (Head(q) = x => Tail(q) = << >>)
<1> DEFINE r == Tail(q)
<1>1. /\ Len(q) \in Nat \ {0} /\ Head(q) = q[1] /\ Len(r) = Len(q) - 1 /\ r \in Seq(S)
      /\ \A i \in 1..Len(q) - 1 : r[i] = q[i + 1]
  BY Taken
<1>2. r # << >> => Len(r) # 0
  BY <1>1, EmptySeq
<1> HIDE DEF r
<1>3. ASSUME NEW i \in 1..Len(r), r[i] = x
      PROVE  i = Len(r)
  <2>1. i + 1 \in 1..Len(q) /\ q[i + 1] = x
    BY <1>1, <1>3
  <2> QED
    BY <1>1, <2>1 DEF OnlyLast
<1>4. Head(q) = x => Len(q) = 1
  <2>1. 1 \in 1..Len(q)
    BY <1>1
  <2> QED
    BY <1>1, <2>1 DEF OnlyLast
<1>5. OnlyLast(r, x) /\ (Head(q) = x => r = << >>)
  BY <1>1, <1>2, <1>3, <1>4 DEF OnlyLast
<1> QED
  BY <1>5 DEF r

LEMMA LastPut ==
  ASSUME NEW S, NEW q \in Seq(S), NEW x, NEW y \in S, x \notin Elems(q)
  PROVE  OnlyLast(Append(q, y), x)
<1>1. /\ Len(q) \in Nat /\ Len(Append(q, y)) = Len(q) + 1
      /\ \A i \in 1..Len(q) : Append(q, y)[i] = q[i]
  BY Put
<1> QED
  BY <1>1 DEF OnlyLast, Elems

\* The elements of a sequence are in the set it is built from.
LEMMA ElemsOf ==
  ASSUME NEW S, NEW q \in Seq(S)
  PROVE  Elems(q) \subseteq S /\ (Elems(q) = {} => q = << >>)
<1>1. Len(q) \in Nat /\ \A i \in 1..Len(q) : q[i] \in S
  BY LenProperties, ElementOfSeq
<1>2. q # << >> => q[1] \in Elems(q)
  BY <1>1, EmptySeq DEF Elems
<1> QED
  BY <1>1, <1>2 DEF Elems

\* The elements of two sequences in a row.
LEMMA ElemsBoth ==
  ASSUME NEW S, NEW q \in Seq(S), NEW r \in Seq(S)
  PROVE  q \o r \in Seq(S) /\ Elems(q) \cup Elems(r) \subseteq Elems(q \o r)
<1>1. /\ q \o r \in Seq(S) /\ Len(q \o r) = Len(q) + Len(r)
      /\ \A i \in 1..Len(q) : (q \o r)[i] = q[i]
      /\ \A i \in 1..Len(r) : (q \o r)[Len(q) + i] = r[i]
      /\ Len(q) \in Nat /\ Len(r) \in Nat
  BY ConcatProperties, LenProperties
<1>2. ASSUME NEW i \in 1..Len(r)
      PROVE  r[i] \in Elems(q \o r)
  <2>1. Len(q) + i \in 1..Len(q \o r) /\ (q \o r)[Len(q) + i] = r[i]
    BY <1>1
  <2> QED
    BY <2>1 DEF Elems
<1>3. ASSUME NEW i \in 1..Len(q)
      PROVE  q[i] \in Elems(q \o r)
  <2>1. i \in 1..Len(q \o r) /\ (q \o r)[i] = q[i]
    BY <1>1
  <2> QED
    BY <2>1 DEF Elems
<1> QED
  BY <1>1, <1>2, <1>3 DEF Elems

\* What getmany returns of a partition: the items after one offset, up to
\* another.
LEMMA Fetched ==
  ASSUME NEW t \in Topics, NEW m \in Nat, NEW p \in (m + 1)..Len(Log[t])
  PROVE  /\ Offsets(t, m, p) \in Seq(Items)
         /\ \A i \in (m + 1)..p : <<t, i>> \in Elems(Offsets(t, m, p))
<1>1. p \in Nat /\ p - m \in Nat
  OBVIOUS
<1>2. ASSUME NEW i \in 1..(p - m)
      PROVE  <<t, m + i>> \in Items
  BY <1>1, <1>2, ConstantsAssumption DEF Items
<1>3. Offsets(t, m, p) \in Seq(Items) /\ Len(Offsets(t, m, p)) = p - m
  BY <1>1, <1>2 DEF Offsets
<1>4. ASSUME NEW i \in (m + 1)..p
      PROVE  <<t, i>> \in Elems(Offsets(t, m, p))
  <2>1. i - m \in 1..(p - m) /\ Offsets(t, m, p)[i - m] = <<t, i>>
    BY <1>1 DEF Offsets
  <2> QED
    BY <2>1, <1>3 DEF Elems
<1> QED
  BY <1>3, <1>4

-----------------------------------------------------------------------------
(* The shape is kept.                                                      *)

LEMMA ShapeInit == Init => Shape
  BY EmptySeq DEF Init, Shape, Modes, Collecting, Kinds, Deletion

LEMMA ShapeConsume == Shape /\ Consume => Shape'
<1> SUFFICES ASSUME Shape, Consume PROVE Shape'
  OBVIOUS
<1> USE DEF Shape, Modes, NextIs
<1>1. CASE Fetch
  <2>1. inbox' \in Seq(Items) /\ pos' \in [Topics -> Nat]
    <3>1. PICK t \in Topics, u \in Topics : \E p \in (pos[t] + 1)..Len(Log[t]) :
            \/ /\ t = u
               /\ pos' = [pos EXCEPT ![t] = p]
               /\ inbox' = Offsets(t, pos[t], p)
            \/ /\ t # u
               /\ \E q \in (pos[u] + 1)..Len(Log[u]) :
                     /\ pos' = [pos EXCEPT ![t] = p, ![u] = q]
                     /\ inbox' = Offsets(t, pos[t], p) \o Offsets(u, pos[u], q)
      BY <1>1 DEF Fetch
    <3>2. PICK p \in (pos[t] + 1)..Len(Log[t]) :
            \/ /\ pos' = [pos EXCEPT ![t] = p]
               /\ inbox' = Offsets(t, pos[t], p)
            \/ \E q \in (pos[u] + 1)..Len(Log[u]) :
                  /\ pos' = [pos EXCEPT ![t] = p, ![u] = q]
                  /\ inbox' = Offsets(t, pos[t], p) \o Offsets(u, pos[u], q)
      BY <3>1
    <3>3. pos[t] \in Nat /\ pos[u] \in Nat /\ p \in Nat
      OBVIOUS
    <3>4. Offsets(t, pos[t], p) \in Seq(Items)
      BY <3>3, Fetched
    <3>5. CASE pos' = [pos EXCEPT ![t] = p] /\ inbox' = Offsets(t, pos[t], p)
      BY <3>3, <3>4, <3>5
    <3>6. ASSUME NEW q \in (pos[u] + 1)..Len(Log[u]),
                 pos' = [pos EXCEPT ![t] = p, ![u] = q],
                 inbox' = Offsets(t, pos[t], p) \o Offsets(u, pos[u], q)
          PROVE  inbox' \in Seq(Items) /\ pos' \in [Topics -> Nat]
      <4>1. Offsets(u, pos[u], q) \in Seq(Items) /\ q \in Nat
        BY <3>3, Fetched
      <4> QED
        BY <3>3, <3>4, <3>6, <4>1, ElemsBoth
    <3> QED
      BY <3>2, <3>5, <3>6
  <2> QED
    BY <1>1, <2>1 DEF Fetch
<1>2. CASE Enqueue
  <2>1. Head(inbox) \in Carried /\ Tail(inbox) \in Seq(Items)
    BY <1>2, Taken DEF Enqueue, NextIs, Carried
  <2>2. workQ' \in Seq(Carried \cup {Sentinel})
    BY <1>2, <2>1, Put DEF Enqueue
  <2>3. del.at = "none"
    BY <1>2 DEF Enqueue, Kinds
  <2> QED
    BY <1>2, <2>1, <2>2, <2>3 DEF Enqueue
<1>3. CASE Commit
  BY <1>3 DEF Commit
<1>4. CASE LeaveConsume
  BY <1>4 DEF LeaveConsume, HandledAll
<1>5. CASE DeleteChunks
  <2>1. del' = [at |-> "scroll", candidates |-> {}, doomed |-> {}]
    BY <1>5 DEF DeleteChunks
  <2>2. del' \in Deletion
    BY <2>1 DEF Deletion
  <2> QED
    BY <1>5, <2>2 DEF DeleteChunks, NextIs
<1>6. CASE ScrollEntities
  <2>1. del' \in Deletion
    BY <1>6 DEF ScrollEntities, Deletion
  <2> QED
    BY <1>6, <2>1 DEF ScrollEntities, NextIs
<1>7. CASE CheckSurvivor
  <2>1. PICK p \in del.candidates :
          del' = [del EXCEPT !.candidates = @ \ {p},
                             !.doomed = IF Survives(p) THEN @ ELSE @ \cup {p}]
    BY <1>7 DEF CheckSurvivor
  <2> DEFINE d == [del EXCEPT !.candidates = @ \ {p}]
             D == IF Survives(p) THEN del.doomed ELSE del.doomed \cup {p}
  <2>2. d \in Deletion /\ d.doomed = del.doomed
    BY DEF Deletion
  <2>3. D \in SUBSET PointsOf("entity")
    BY DEF Deletion
  <2>4. del' = [d EXCEPT !.doomed = D]
    BY <2>1, <2>2, Zenon
  <2> HIDE DEF d, D
  <2>5. del' \in Deletion
    BY <2>2, <2>3, <2>4 DEF Deletion
  <2> QED
    BY <1>7, <2>5 DEF CheckSurvivor, NextIs
<1>8. CASE RemoveEntities
  <2>1. inbox # << >>
    BY <1>8 DEF RemoveEntities, NextIs
  <2>2. Tail(inbox) \in Seq(Items)
    BY <2>1, Taken
  <2>3. del' \in Deletion /\ del'.at = "none"
    BY <1>8 DEF RemoveEntities, Deletion
  <2> QED
    BY <1>8, <2>2, <2>3 DEF RemoveEntities
<1>9. CASE PutSentinel
  BY <1>9, Put DEF PutSentinel
<1>10. CASE Finish
  BY <1>10 DEF Finish
<1> QED
  BY <1>1, <1>2, <1>3, <1>4, <1>5, <1>6, <1>7, <1>8, <1>9, <1>10 DEF Consume

LEMMA ShapeCollect == Shape /\ Shutdown /\ Collect => Shape'
<1> SUFFICES ASSUME Shape, Shutdown, Collect PROVE Shape'
  OBVIOUS
<1> USE DEF Shape, Collecting, NextIs
<1>1. workQ # << >> => /\ Tail(workQ) \in Seq(Carried \cup {Sentinel})
                       /\ Head(workQ) \in Carried \cup {Sentinel}
  BY Taken
<1>2. CASE CollectFirst
  <2>1. CASE Head(workQ) = Sentinel
    BY <1>1, <1>2, <2>1 DEF CollectFirst
  <2>2. CASE Head(workQ) # Sentinel
    <3>1. pack' = << Head(workQ) >> /\ Head(workQ) \in Carried
      BY <1>1, <1>2, <2>2 DEF CollectFirst
    <3>2. pack' \in Seq(Carried)
      BY <3>1, Single, Zenon
    <3> QED
      BY <1>1, <1>2, <2>2, <3>2 DEF CollectFirst
  <2> QED
    BY <2>1, <2>2
<1>3. CASE CollectMore
  <2>1. pack' \in Seq(Carried)
    BY <1>1, <1>3, Put DEF CollectMore
  <2> QED
    BY <1>1, <1>3, <2>1 DEF CollectMore
<1>4. CASE CollectSentinel
  <2>1. workQ' \in Seq(Carried \cup {Sentinel})
    BY <1>1, <1>4, Put DEF CollectSentinel
  <2> QED
    BY <1>4, <2>1 DEF CollectSentinel
<1>5. CASE CollectTimeout
  BY <1>5 DEF CollectTimeout
<1>6. CASE PushBatch
  <2>1. batchQ' \in Seq(Seq(Carried) \cup {Pill})
    BY <1>6, Put DEF PushBatch
  <2> QED
    BY <1>6, <2>1 DEF PushBatch
<1>7. CASE Drain
  <2>1. batchQ' = batchQ
    BY <1>7, ElemsNone DEF Drain, Shutdown, Ending
  <2> QED
    BY <1>7, <2>1 DEF Drain
<1>8. CASE SendPill
  <2>1. batchQ' \in Seq(Seq(Carried) \cup {Pill})
    BY <1>8, Put DEF SendPill, Pill
  <2> QED
    BY <1>8, <2>1 DEF SendPill
<1> QED
  BY <1>2, <1>3, <1>4, <1>5, <1>6, <1>7, <1>8 DEF Collect

\* What NextGroup does to the state of a worker.
LEMMA GroupDone ==
  ASSUME Shape, NEW w \in Workers, wpc[w] \in Kinds, NextGroup(w)
  PROVE  /\ wpc' \in [Workers -> Kinds \cup {"idle", "stopped"}]
         /\ batch' \in [Workers -> Seq(Carried)]
         /\ wpc'[w] # "stopped"
         /\ \A v \in Workers \ {w} : wpc'[v] = wpc[v] /\ batch'[v] = batch[v]
         /\ wpc[w] # "entity" => /\ wpc'[w] \in Kinds /\ batch'[w] = batch[w]
                                 /\ Pending(wpc[w]) = Pending(wpc'[w]) \cup {wpc[w]}
         /\ wpc[w] = "entity" => wpc'[w] = "idle" /\ batch'[w] = << >>
<1>1. << >> \in Seq(Carried)
  BY EmptySeq
<1> QED
  BY <1>1 DEF Shape, NextGroup, Goto, FollowingGroup, Pending, Kinds

\* After a failed attempt the worker tries again, or it gives up what it has.
LEMMA Failed ==
  ASSUME Shape, NEW w \in Workers, AttemptFailed(w)
  PROVE  \/ wpc' = wpc /\ batch' = batch /\ lost' = lost
         \/ /\ wpc' = [wpc EXCEPT ![w] = "idle"]
            /\ batch' = [batch EXCEPT ![w] = << >>]
            /\ lost' = lost \cup {x \in Elems(batch[w]) :
                                     Msg(x).kind \in Pending(wpc[w]) /\ Fit(x)}
  BY DEF AttemptFailed, Goto

LEMMA FailedShape ==
  ASSUME Shape, NEW w \in Workers, AttemptFailed(w), wpc[w] \in Kinds
  PROVE  /\ wpc' \in [Workers -> Kinds \cup {"idle", "stopped"}]
         /\ batch' \in [Workers -> Seq(Carried)]
         /\ \A v \in Workers : wpc'[v] = "stopped" => wpc[v] = "stopped"
<1>1. << >> \in Seq(Carried)
  BY EmptySeq
<1> QED
  BY <1>1, Failed DEF Shape

LEMMA ShapeWorker ==
  ASSUME Shape, NEW w \in Workers, Worker(w) \/ UpsertFails(w) \/ CreateFails(w)
  PROVE  Shape'
<1> USE DEF Shape, NextIs
<1>1. CASE TakeBatch(w)
  <2>1. batchQ' \in Seq(Seq(Carried) \cup {Pill}) /\ Head(batchQ) \in Seq(Carried) \cup {Pill}
    BY <1>1, Taken DEF TakeBatch
  <2>2. CASE Head(batchQ) = Pill
    BY <1>1, <2>1, <2>2 DEF TakeBatch, Goto, Pill
  <2>3. CASE Head(batchQ) # Pill
    BY <1>1, <2>1, <2>3 DEF TakeBatch, Goto, Pill, Kinds
  <2> QED
    BY <2>2, <2>3
<1>2. CASE NoGroup(w)
  BY <1>2, GroupDone DEF NoGroup
<1>3. CASE Upsert(w)
  BY <1>3, GroupDone DEF Upsert
<1>4. CASE UpsertMissing(w)
  <2>1. exists' \subseteq Collections
    BY <1>4 DEF UpsertMissing, Collections, CollectionOf
  <2> QED
    BY <1>4, <2>1, FailedShape DEF UpsertMissing
<1>5. CASE UpsertFails(w)
  BY <1>5, FailedShape DEF UpsertFails, Fault
<1>6. CASE CreateFails(w)
  BY <1>6, FailedShape DEF CreateFails, Fault
<1> QED
  BY <1>1, <1>2, <1>3, <1>4, <1>5, <1>6 DEF Worker

Others ==
    Signal \/ Rests \/ CommitFails \/ DeleteFails \/ DropCollection \/ Crash \/ UNCHANGED vars

LEMMA Steps ==
  [Next]_vars => Consume \/ Collect \/ Others
                 \/ \E w \in Workers : Worker(w) \/ UpsertFails(w) \/ CreateFails(w)
  BY DEF Next, Others

LEMMA ShapeOthers == Shape /\ Others => Shape'
<1> SUFFICES ASSUME Shape, Others PROVE Shape'
  OBVIOUS
<1> USE DEF Shape, Modes, NextIs
<1>1. CASE Signal
  BY <1>1 DEF Signal
<1>2. CASE Rests \/ UNCHANGED vars
  BY <1>2 DEF Rests
<1>3. CASE CommitFails
  BY <1>3 DEF CommitFails, Fault
<1>4. CASE DeleteFails
  <2>1. Tail(inbox) \in Seq(Items)
    BY <1>4, Taken DEF DeleteFails
  <2>2. del' \in Deletion /\ del'.at = "none"
    BY <1>4 DEF DeleteFails, Deletion
  <2> QED
    BY <1>4, <2>1, <2>2 DEF DeleteFails, Fault
<1>5. CASE DropCollection
  <2>1. exists' \subseteq Collections /\ drops' \in Nat
    BY <1>5 DEF DropCollection
  <2> QED
    BY <1>5, <2>1 DEF DropCollection
<1>6. CASE Crash
  <2>1. /\ inbox' \in Seq(Items) /\ pack' \in Seq(Carried)
        /\ workQ' \in Seq(Carried \cup {Sentinel})
        /\ batchQ' \in Seq(Seq(Carried) \cup {Pill})
    BY <1>6, EmptySeq DEF Crash
  <2>2. batch' \in [Workers -> Seq(Carried)]
    BY <1>6, EmptySeq DEF Crash
  <2>3. wpc' \in [Workers -> Kinds \cup {"idle", "stopped"}]
    BY <1>6 DEF Crash
  <2>4. del' \in Deletion /\ del'.at = "none"
    BY <1>6 DEF Crash, Deletion
  <2> QED
    BY <1>6, <2>1, <2>2, <2>3, <2>4 DEF Crash, Collecting
<1> QED
  BY <1>1, <1>2, <1>3, <1>4, <1>5, <1>6 DEF Others

\* Every step keeps the shape.
LEMMA ShapeStep == Shape /\ Shutdown /\ [Next]_vars => Shape'
  BY Steps, ShapeConsume, ShapeCollect, ShapeWorker, ShapeOthers

-----------------------------------------------------------------------------
(* The order of a shutdown is kept.                                        *)

LEMMA ShutdownInit == Init => Shutdown
  BY ElemsNone DEF Init, Shutdown, Ending, OnlyLast

LEMMA ShutdownConsume == Shape /\ Shutdown /\ Consume => Shutdown'
<1> SUFFICES ASSUME Shape, Shutdown, Consume PROVE Shutdown'
  OBVIOUS
<1> USE DEF Shutdown, Ending
<1>0. workQ \in Seq(Carried \cup {Sentinel}) /\ inbox \in Seq(Items)
  BY DEF Shape
<1>1. CASE Enqueue
  <2>1. Head(inbox) \in Carried /\ Head(inbox) # Sentinel
    BY <1>0, <1>1, Taken, SentinelNoItem DEF Enqueue, NextIs, Carried
  <2>2. mode \in {"run", "signalled"} /\ mode' = mode /\ workQ' = Append(workQ, Head(inbox))
    BY <1>1 DEF Enqueue
  <2>3. OnlyLast(workQ', Sentinel)
    <3>1. Sentinel \notin Elems(workQ)
      BY <2>2
    <3> QED
      BY <1>0, <2>1, <2>2, <3>1, LastPut
  <2>4. Elems(workQ') = Elems(workQ) \cup {Head(inbox)}
    <3>1. Head(inbox) \in Carried \cup {Sentinel}
      BY <2>1
    <3>2. Elems(Append(workQ, Head(inbox))) = Elems(workQ) \cup {Head(inbox)}
      BY <1>0, <3>1, ElemsPut
    <3> QED
      BY <2>2, <3>2
  <2> QED
    BY <1>1, <2>1, <2>2, <2>3, <2>4 DEF Enqueue
<1>2. CASE PutSentinel
  <2>1. mode = "closing" /\ mode' = "sentinel" /\ workQ' = Append(workQ, Sentinel)
    BY <1>2 DEF PutSentinel
  <2>2. OnlyLast(workQ', Sentinel)
    BY <1>0, <2>1, LastPut
  <2> QED
    BY <1>2, <2>1, <2>2 DEF PutSentinel
<1>3. CASE Fetch
  BY <1>3 DEF Fetch
<1>4. CASE Commit
  BY <1>4 DEF Commit
<1>5. CASE LeaveConsume
  BY <1>5 DEF LeaveConsume
<1>6. CASE DeleteChunks
  BY <1>6 DEF DeleteChunks
<1>7. CASE ScrollEntities
  BY <1>7 DEF ScrollEntities
<1>8. CASE CheckSurvivor
  BY <1>8 DEF CheckSurvivor
<1>9. CASE RemoveEntities
  BY <1>9 DEF RemoveEntities
<1>10. CASE Finish
  BY <1>10 DEF Finish
<1> QED
  BY <1>1, <1>2, <1>3, <1>4, <1>5, <1>6, <1>7, <1>8, <1>9, <1>10 DEF Consume

LEMMA ShutdownCollect == Shape /\ Shutdown /\ Collect => Shutdown'
<1> SUFFICES ASSUME Shape, Shutdown, Collect PROVE Shutdown'
  OBVIOUS
<1> USE DEF Shutdown, Ending
<1> DEFINE q == Tail(workQ)
<1>1. /\ workQ \in Seq(Carried \cup {Sentinel}) /\ batchQ \in Seq(Seq(Carried) \cup {Pill})
      /\ pack \in Seq(Carried) /\ collector \in Collecting
  BY DEF Shape
<1>2. ASSUME workQ # << >>
      PROVE  /\ OnlyLast(q, Sentinel) /\ (Head(workQ) = Sentinel => q = << >>)
             /\ Sentinel \in Elems(q) => mode \in {"sentinel", "stopped"}
             /\ Head(workQ) = Sentinel => mode \in {"sentinel", "stopped"}
  <2>1. Elems(workQ) = {Head(workQ)} \cup Elems(q)
    BY <1>1, <1>2, ElemsTaken
  <2>2. OnlyLast(q, Sentinel) /\ (Head(workQ) = Sentinel => q = << >>)
    BY <1>1, <1>2, LastTaken
  <2> QED
    BY <2>1, <2>2
<1>3. CASE CollectFirst
  <2>1. CASE Head(workQ) = Sentinel
    BY <1>2, <1>3, <2>1 DEF CollectFirst
  <2>2. CASE Head(workQ) # Sentinel
    BY <1>2, <1>3, <2>2 DEF CollectFirst
  <2> QED
    BY <2>1, <2>2
<1>4. CASE CollectMore
  BY <1>2, <1>4 DEF CollectMore
<1>5. CASE CollectSentinel
  <2>1. q = << >> /\ mode \in {"sentinel", "stopped"}
    BY <1>2, <1>5 DEF CollectSentinel
  <2>2. workQ' = Append(q, Sentinel)
    BY <1>5 DEF CollectSentinel
  <2>3. OnlyLast(workQ', Sentinel)
    BY <2>1, <2>2, ElemsNone, EmptySeq, LastPut
  <2> QED
    BY <1>5, <2>1, <2>3 DEF CollectSentinel
<1>6. CASE CollectTimeout
  BY <1>6 DEF CollectTimeout
<1>7. CASE PushBatch
  <2>1. collector \in {"push", "fill"} /\ collector' = "first" /\ pack' = << >>
    BY <1>7 DEF PushBatch
  <2>2. /\ Len(batchQ) \in Nat /\ Len(batchQ') = Len(batchQ) + 1
        /\ \A i \in 1..Len(batchQ) : batchQ'[i] = batchQ[i]
        /\ batchQ'[Len(batchQ) + 1] = pack
    BY <1>1, <1>7, Put DEF PushBatch
  <2>3. pack # Pill
    BY <1>1, PillNoBatch
  <2>4. \A i \in 1..Len(batchQ') : batchQ'[i] # Pill
    BY <2>1, <2>2, <2>3
  <2>5. \A w \in Workers : wpc'[w] # "stopped"
    BY <1>7, <2>1 DEF PushBatch
  <2> QED
    BY <1>7, <2>1, <2>4, <2>5 DEF PushBatch
<1>8. CASE Drain
  <2>1. batchQ' = batchQ
    BY <1>8, ElemsNone DEF Drain
  <2> QED
    BY <1>8, <2>1, ElemsNone DEF Drain
<1>9. CASE SendPill
  <2>1. collector = "pills" /\ collector' \in {"pills", "stopped"}
    BY <1>9 DEF SendPill
  <2>2. /\ Len(batchQ) \in Nat /\ Len(batchQ') = Len(batchQ) + 1
        /\ \A i \in 1..Len(batchQ) : batchQ'[i] = batchQ[i]
        /\ batchQ'[Len(batchQ) + 1] = Pill
    BY <1>1, <1>9, Put DEF SendPill, Pill
  <2>3. \A i, j \in 1..Len(batchQ') : i < j /\ batchQ'[i] = Pill => batchQ'[j] = Pill
    BY <2>2
  <2>4. \A w \in Workers : wpc'[w] = "stopped" => \A i \in 1..Len(batchQ') : batchQ'[i] = Pill
    BY <1>9, <2>2 DEF SendPill
  <2> QED
    BY <1>9, <2>1, <2>3, <2>4 DEF SendPill
<1> QED
  BY <1>3, <1>4, <1>5, <1>6, <1>7, <1>8, <1>9 DEF Collect

\* A worker that takes a batch: what is left of the queue.
LEMMA ShutdownTake ==
  ASSUME Shape, Shutdown, NEW w \in Workers, TakeBatch(w)
  PROVE  Shutdown'
<1> DEFINE q == Tail(batchQ)
<1>1. /\ Len(batchQ) \in Nat \ {0} /\ Head(batchQ) = batchQ[1] /\ Len(q) = Len(batchQ) - 1
      /\ \A i \in 1..Len(batchQ) - 1 : q[i] = batchQ[i + 1]
  BY Taken DEF Shape, TakeBatch
<1>2. /\ wpc \in [Workers -> Kinds \cup {"idle", "stopped"}] /\ batchQ' = q
      /\ IF Head(batchQ) = Pill THEN wpc' = [wpc EXCEPT ![w] = "stopped"]
                               ELSE wpc' = [wpc EXCEPT ![w] = "chunk"]
  BY DEF Shape, TakeBatch, Goto, Pill
<1> HIDE DEF q
<1>3. ASSUME NEW i \in 1..Len(q)
      PROVE  i \in 1..Len(batchQ) /\ i + 1 \in 1..Len(batchQ) /\ q[i] = batchQ[i + 1] /\ 1 < i + 1
  BY <1>1
<1>4. \A i \in 1..Len(q) : q[i] = Pill => collector \in {"pills", "stopped"}
  BY <1>3 DEF Shutdown
<1>5. ASSUME NEW i \in 1..Len(q), NEW j \in 1..Len(q), i < j, q[i] = Pill PROVE q[j] = Pill
  <2>1. i + 1 < j + 1 /\ batchQ[i + 1] = Pill
    BY <1>3, <1>5
  <2> QED
    BY <1>3, <2>1 DEF Shutdown
<1>6. Head(batchQ) = Pill => /\ collector \in {"pills", "stopped"}
                             /\ \A i \in 1..Len(q) : q[i] = Pill
  <2>1. 1 \in 1..Len(batchQ)
    BY <1>1
  <2> QED
    BY <1>1, <1>3, <2>1 DEF Shutdown
<1>7. \A v \in Workers : wpc'[v] = "stopped" =>
        /\ collector \in {"pills", "stopped"} /\ \A i \in 1..Len(q) : q[i] = Pill
  BY <1>2, <1>3, <1>6 DEF Shutdown
<1> QED
  BY <1>2, <1>4, <1>5, <1>7 DEF Shutdown, Ending, TakeBatch

LEMMA ShutdownWorker ==
  ASSUME Shape, Shutdown, NEW w \in Workers, Worker(w) \/ UpsertFails(w) \/ CreateFails(w)
  PROVE  Shutdown'
<1>1. CASE TakeBatch(w)
  BY <1>1, ShutdownTake
<1>2. CASE ~TakeBatch(w)
  <2>1. /\ \A v \in Workers : wpc'[v] = "stopped" => wpc[v] = "stopped"
        /\ UNCHANGED <<feedVars, workQ, batchQ, packVars>>
    <3>1. CASE NoGroup(w)
      BY <3>1, GroupDone DEF NoGroup
    <3>2. CASE Upsert(w)
      BY <3>2, GroupDone DEF Upsert, Shape
    <3>3. CASE UpsertMissing(w)
      BY <3>3, FailedShape DEF UpsertMissing
    <3>4. CASE UpsertFails(w)
      BY <3>4, FailedShape DEF UpsertFails, Shape
    <3>5. CASE CreateFails(w)
      BY <3>5, FailedShape DEF CreateFails
    <3> QED
      BY <1>2, <3>1, <3>2, <3>3, <3>4, <3>5 DEF Worker
  <2> QED
    BY <2>1 DEF Shutdown, Ending
<1> QED
  BY <1>1, <1>2

LEMMA ShutdownOthers == Shape /\ Shutdown /\ Others => Shutdown'
<1> SUFFICES ASSUME Shape, Shutdown, Others PROVE Shutdown'
  OBVIOUS
<1> USE DEF Shutdown, Ending
<1>1. CASE Signal
  BY <1>1 DEF Signal
<1>2. CASE Rests \/ UNCHANGED vars
  BY <1>2 DEF Rests
<1>3. CASE CommitFails
  BY <1>3 DEF CommitFails
<1>4. CASE DeleteFails
  BY <1>4 DEF DeleteFails
<1>5. CASE DropCollection
  BY <1>5 DEF DropCollection
<1>6. CASE Crash
  BY <1>6, ElemsNone DEF Crash, OnlyLast
<1> QED
  BY <1>1, <1>2, <1>3, <1>4, <1>5, <1>6 DEF Others

\* Every step keeps the order.
LEMMA ShutdownStep == Shape /\ Shutdown /\ [Next]_vars => Shutdown'
  BY Steps, ShutdownConsume, ShutdownCollect, ShutdownWorker, ShutdownOthers

LEMMA Ordered == Spec => [](Shape /\ Shutdown)
<1>1. Init => Shape /\ Shutdown
  BY ShapeInit, ShutdownInit
<1>2. Shape /\ Shutdown /\ [Next]_vars => (Shape /\ Shutdown)'
  BY ShapeStep, ShutdownStep
<1> QED
  BY <1>1, <1>2, PTL DEF Spec

\* In both queues nothing is ever put behind a sentinel except another
\* sentinel, so no batch comes after its worker has gone: main.py:135 to 144,
\* 274 to 304 and 338.
THEOREM SentinelsLast == Spec => []NothingBehindSentinel
<1>1. Shape /\ Shutdown => NothingBehindSentinel
  <2> SUFFICES ASSUME Shape, Shutdown PROVE NothingBehindSentinel
    OBVIOUS
  <2>1. Len(workQ) \in Nat
    BY LenProperties DEF Shape
  <2>2. \A i, j \in 1..Len(workQ) : i < j /\ workQ[i] = Sentinel => FALSE
    BY <2>1 DEF Shutdown, OnlyLast
  <2> QED
    BY <2>2 DEF Shutdown, NothingBehindSentinel, Pill
<1> QED
  BY <1>1, Ordered, PTL

-----------------------------------------------------------------------------
(* Where the items are.                                                    *)

\* Item x is in memory, or it is done with.
Held(x) ==
    \/ x \in Elems(inbox) \/ x \in Elems(workQ) \/ x \in Elems(pack)
    \/ \E b \in Elems(batchQ) : x \in Elems(b)
    \/ \E w \in Workers : x \in Elems(batch[w])
    \/ x \in written \cup lost

\* consume() leaves its loop with nothing in hand, a worker without a batch
\* holds nothing, and one that is writing has done with the groups before.
Hands ==
    /\ mode \in {"closing", "sentinel", "stopped"} => inbox = << >>
    /\ mode = "stopped" => collector = "stopped" /\ \A w \in Workers : wpc[w] = "stopped"
    /\ \A w \in Workers : wpc[w] \in {"idle", "stopped"} => batch[w] = << >>
    /\ \A w \in Workers : wpc[w] \in Kinds =>
          \A x \in Elems(batch[w]) :
              Fit(x) /\ Msg(x).kind \notin Pending(wpc[w]) => x \in written \cup lost

Conserved ==
    /\ crashes \in Nat
    /\ crashes = 0 => \A x \in Read : Held(x)

LEMMA HeldIs == \A x : Held(x) <=> x \in InMemory \cup written \cup lost
<1> SUFFICES ASSUME NEW x PROVE Held(x) <=> x \in InMemory \cup written \cup lost
  OBVIOUS
<1>1. x \in Batched <=> \E b \in Elems(batchQ) : x \in Elems(b)
  BY DEF Batched
<1>2. x \in InHand <=> \E w \in Workers : x \in Elems(batch[w])
  BY DEF InHand
<1> QED
  BY <1>1, <1>2 DEF Held, InMemory

\* The items of a batch that are not of the group being written.
LEMMA Grouped ==
  ASSUME Shape, NEW w \in Workers, NEW x \in Elems(batch[w])
  PROVE  /\ x \in Carried /\ Msg(x).kind \in Kinds
         /\ Msg(x).kind = wpc[w] /\ Fit(x) => Group(w) # {} /\ x \in {batch[w][i] : i \in Group(w)}
<1>1. x \in Carried
  BY ElemsOf DEF Shape
<1> QED
  BY <1>1 DEF Carried, Elems, Group

LEMMA HandsConsume == Shape /\ Hands /\ Consume => Hands'
<1> SUFFICES ASSUME Shape, Hands, Consume PROVE Hands'
  OBVIOUS
<1> USE DEF Hands
<1>1. CASE Fetch
  BY <1>1 DEF Fetch
<1>2. CASE Enqueue
  BY <1>2 DEF Enqueue
<1>3. CASE Commit
  BY <1>3 DEF Commit
<1>4. CASE LeaveConsume
  BY <1>4 DEF LeaveConsume, HandledAll
<1>5. CASE DeleteChunks
  BY <1>5 DEF DeleteChunks
<1>6. CASE ScrollEntities
  BY <1>6 DEF ScrollEntities
<1>7. CASE CheckSurvivor
  BY <1>7 DEF CheckSurvivor
<1>8. CASE RemoveEntities
  BY <1>8 DEF RemoveEntities, Shape
<1>9. CASE PutSentinel
  BY <1>9 DEF PutSentinel
<1>10. CASE Finish
  BY <1>10 DEF Finish
<1> QED
  BY <1>1, <1>2, <1>3, <1>4, <1>5, <1>6, <1>7, <1>8, <1>9, <1>10 DEF Consume

LEMMA HandsCollect == Hands /\ Collect => Hands'
<1> SUFFICES ASSUME Hands, Collect PROVE Hands'
  OBVIOUS
<1>1. UNCHANGED <<feedVars, workVars, logVars>> /\ collector # "stopped"
  BY DEF Collect, CollectFirst, CollectMore, CollectSentinel, CollectTimeout, PushBatch,
         Drain, SendPill
<1> QED
  BY <1>1 DEF Hands

\* A worker that has written its group, or had none to write.
LEMMA HandsWritten ==
  ASSUME Shape, Hands, NEW w \in Workers, wpc[w] \in Kinds, NextGroup(w),
         written' = written \cup {batch[w][i] : i \in Group(w)},
         UNCHANGED <<feedVars, packVars, lost>>
  PROVE  Hands'
<1>1. \A v \in Workers : wpc'[v] \in {"idle", "stopped"} => batch'[v] = << >>
  BY GroupDone DEF Hands, Kinds
<1>2. ASSUME NEW v \in Workers, wpc'[v] \in Kinds, NEW x \in Elems(batch'[v]),
             Fit(x), Msg(x).kind \notin Pending(wpc'[v])
      PROVE  x \in written' \cup lost'
  <2>1. CASE v = w
    <3>1. /\ batch'[w] = batch[w] /\ wpc[w] # "entity"
          /\ Pending(wpc[w]) = Pending(wpc'[w]) \cup {wpc[w]}
      BY <1>2, <2>1, GroupDone DEF Kinds
    <3>2. CASE Msg(x).kind = wpc[w]
      BY <1>2, <2>1, <3>1, <3>2, Grouped
    <3>3. CASE Msg(x).kind # wpc[w]
      BY <1>2, <2>1, <3>1, <3>3 DEF Hands
    <3> QED
      BY <3>2, <3>3
  <2>2. CASE v # w
    BY <1>2, <2>2, GroupDone DEF Hands
  <2> QED
    BY <2>1, <2>2
<1>3. mode' = "stopped" => FALSE
  BY DEF Hands, Kinds
<1> QED
  BY <1>1, <1>2, <1>3 DEF Hands

LEMMA HandsFailed ==
  ASSUME Shape, Hands, NEW w \in Workers, wpc[w] \in Kinds, AttemptFailed(w),
         UNCHANGED <<feedVars, packVars, written>>
  PROVE  Hands'
<1>1. CASE wpc' = wpc /\ batch' = batch /\ lost' = lost
  BY <1>1 DEF Hands
<1>2. CASE /\ wpc' = [wpc EXCEPT ![w] = "idle"] /\ batch' = [batch EXCEPT ![w] = << >>]
           /\ lost \subseteq lost'
  BY <1>2, ElemsNone DEF Hands, Shape, Kinds
<1> QED
  BY <1>1, <1>2, Failed

LEMMA HandsWorker ==
  ASSUME Shape, Hands, NEW w \in Workers, Worker(w) \/ UpsertFails(w) \/ CreateFails(w)
  PROVE  Hands'
<1>1. CASE TakeBatch(w)
  <2>1. CASE Head(batchQ) = Pill
    BY <1>1, <2>1 DEF TakeBatch, Goto, Pill, Hands, Shape, Kinds
  <2>2. CASE Head(batchQ) # Pill
    <3>1. /\ wpc' = [wpc EXCEPT ![w] = "chunk"] /\ batch' = [batch EXCEPT ![w] = Head(batchQ)]
          /\ batchQ # << >> /\ UNCHANGED <<feedVars, packVars, logVars>> /\ wpc[w] = "idle"
      BY <1>1, <2>2 DEF TakeBatch, Goto, Pill
    <3>2. Head(batchQ) \in Seq(Carried)
      BY <2>2, <3>1, Taken DEF Shape
    <3>3. \A x \in Elems(batch'[w]) : Msg(x).kind \in Pending("chunk")
      BY <3>1, <3>2, ElemsOf DEF Carried, Pending, Shape
    <3> QED
      BY <3>1, <3>3 DEF Hands, Shape, Kinds
  <2> QED
    BY <2>1, <2>2
<1>2. CASE NoGroup(w)
  <2>1. written' = written \cup {batch[w][i] : i \in Group(w)}
    BY <1>2 DEF NoGroup
  <2> QED
    BY <1>2, <2>1, HandsWritten DEF NoGroup
<1>3. CASE Upsert(w)
  BY <1>3, HandsWritten DEF Upsert, Shape
<1>4. CASE UpsertMissing(w)
  BY <1>4, HandsFailed DEF UpsertMissing
<1>5. CASE UpsertFails(w)
  BY <1>5, HandsFailed DEF UpsertFails
<1>6. CASE CreateFails(w)
  BY <1>6, HandsFailed DEF CreateFails
<1> QED
  BY <1>1, <1>2, <1>3, <1>4, <1>5, <1>6 DEF Worker

LEMMA HandsOthers == Shape /\ Hands /\ Others => Hands'
<1> SUFFICES ASSUME Shape, Hands, Others PROVE Hands'
  OBVIOUS
<1> USE DEF Hands
<1>1. CASE Signal
  BY <1>1 DEF Signal
<1>2. CASE Rests \/ UNCHANGED vars
  BY <1>2 DEF Rests
<1>3. CASE CommitFails
  BY <1>3 DEF CommitFails
<1>4. CASE DeleteFails
  BY <1>4 DEF DeleteFails
<1>5. CASE DropCollection
  BY <1>5 DEF DropCollection
<1>6. CASE Crash
  BY <1>6 DEF Crash, Kinds
<1> QED
  BY <1>1, <1>2, <1>3, <1>4, <1>5, <1>6 DEF Others

LEMMA HandsStep == Shape /\ Hands /\ [Next]_vars => Hands'
  BY Steps, HandsConsume, HandsCollect, HandsWorker, HandsOthers

LEMMA WorkPut ==
  ASSUME NEW q \in Seq(Carried \cup {Sentinel})
  PROVE  Elems(Append(q, Sentinel)) = Elems(q) \cup {Sentinel}
<1> DEFINE S == Carried \cup {Sentinel}
<1>1. Sentinel \in S /\ q \in Seq(S)
  OBVIOUS
<1> HIDE DEF S
<1> QED
  BY <1>1, ElemsPut

\* What is held stays held: consume() moves an item from hand to the queue.
LEMMA HeldConsume ==
  ASSUME Shape, Consume, NEW x \in Carried, Held(x)
  PROVE  Held(x)'
<1>1. inbox \in Seq(Items) /\ workQ \in Seq(Carried \cup {Sentinel})
  BY DEF Shape
<1>2. UNCHANGED <<batchQ, packVars, workVars, logVars>>
  BY DEF Consume, Fetch, Enqueue, Commit, LeaveConsume, DeleteChunks, ScrollEntities,
         CheckSurvivor, RemoveEntities, PutSentinel, Finish
<1>3. SUFFICES x \in Elems(inbox) \cup Elems(workQ) => x \in Elems(inbox') \cup Elems(workQ')
  BY <1>2 DEF Held
<1>4. CASE Fetch
  BY <1>4, ElemsNone DEF Fetch
<1>5. CASE Enqueue
  <2>1. inbox # << >> /\ Head(inbox) \in Carried
    BY <1>1, <1>5, Taken DEF Enqueue, NextIs, Carried
  <2>2. Elems(inbox) = {Head(inbox)} \cup Elems(Tail(inbox))
    BY <1>1, <2>1, ElemsTaken
  <2>3. Elems(Append(workQ, Head(inbox))) = Elems(workQ) \cup {Head(inbox)}
    <3>1. Head(inbox) \in Carried \cup {Sentinel}
      BY <2>1
    <3> QED
      BY <1>1, <3>1, ElemsPut
  <2> QED
    BY <1>5, <2>2, <2>3 DEF Enqueue
<1>6. CASE RemoveEntities
  <2>1. inbox # << >> /\ Head(inbox) \notin Carried
    BY <1>6 DEF RemoveEntities, Shape, NextIs, Carried, Kinds
  <2>2. Elems(inbox) = {Head(inbox)} \cup Elems(Tail(inbox))
    BY <1>1, <2>1, ElemsTaken
  <2> QED
    BY <1>6, <2>1, <2>2 DEF RemoveEntities
<1>7. CASE PutSentinel
  <2>1. Elems(Append(workQ, Sentinel)) = Elems(workQ) \cup {Sentinel}
    BY <1>1, ElemsPut
  <2> QED
    BY <1>7, <2>1 DEF PutSentinel
<1>8. CASE Commit \/ LeaveConsume \/ DeleteChunks \/ ScrollEntities \/ CheckSurvivor \/ Finish
  BY <1>8 DEF Commit, LeaveConsume, DeleteChunks, ScrollEntities, CheckSurvivor, Finish
<1> QED
  BY <1>4, <1>5, <1>6, <1>7, <1>8 DEF Consume

\* The collector moves it from the work queue to the batch queue.
LEMMA HeldCollect ==
  ASSUME Shape, Shutdown, Collect, NEW x \in Carried, Held(x)
  PROVE  Held(x)'
<1>1. /\ workQ \in Seq(Carried \cup {Sentinel}) /\ pack \in Seq(Carried)
      /\ batchQ \in Seq(Seq(Carried) \cup {Pill})
  BY DEF Shape
<1>2. UNCHANGED <<feedVars, workVars, logVars>>
  BY DEF Collect, CollectFirst, CollectMore, CollectSentinel, CollectTimeout, PushBatch,
         Drain, SendPill
<1>3. x # Sentinel
  BY SentinelNoItem DEF Carried
<1> DEFINE Here == \/ x \in Elems(workQ) \/ x \in Elems(pack)
                   \/ \E b \in Elems(batchQ) : x \in Elems(b)
<1> SUFFICES ASSUME Here PROVE Here'
  BY <1>2 DEF Held
<1>5. workQ # << >> => /\ Elems(workQ) = {Head(workQ)} \cup Elems(Tail(workQ))
                       /\ Tail(workQ) \in Seq(Carried \cup {Sentinel})
                       /\ Head(workQ) # Sentinel => Head(workQ) \in Carried
  BY <1>1, ElemsTaken, Taken
<1>6. CASE CollectFirst
  <2>1. workQ # << >> /\ workQ' = Tail(workQ) /\ pack = << >> /\ batchQ' = batchQ
    BY <1>6 DEF CollectFirst, Shutdown
  <2>2. CASE Head(workQ) = Sentinel
    BY <1>3, <1>5, <1>6, <2>1, <2>2 DEF CollectFirst
  <2>3. CASE Head(workQ) # Sentinel
    <3>1. pack' = << Head(workQ) >> /\ Elems(<< Head(workQ) >>) = {Head(workQ)}
      BY <1>5, <1>6, <2>3, Single DEF CollectFirst
    <3> QED
      BY <1>5, <2>1, <3>1, ElemsNone
  <2> QED
    BY <2>2, <2>3
<1>7. CASE CollectMore
  <2>1. workQ # << >> /\ workQ' = Tail(workQ) /\ batchQ' = batchQ
        /\ pack' = Append(pack, Head(workQ)) /\ Head(workQ) \in Carried
    BY <1>5, <1>7 DEF CollectMore
  <2>2. Elems(Append(pack, Head(workQ))) = Elems(pack) \cup {Head(workQ)}
    BY <1>1, <2>1, ElemsPut
  <2> QED
    BY <1>5, <2>1, <2>2
<1>8. CASE CollectSentinel
  <2>1. /\ workQ # << >> /\ workQ' = Append(Tail(workQ), Sentinel) /\ Head(workQ) = Sentinel
        /\ UNCHANGED <<pack, batchQ>>
    BY <1>8 DEF CollectSentinel
  <2>2. Elems(Append(Tail(workQ), Sentinel)) = Elems(Tail(workQ)) \cup {Sentinel}
    BY <1>5, <2>1, WorkPut
  <2> QED
    BY <1>3, <1>5, <2>1, <2>2
<1>9. CASE PushBatch
  <2>1. batchQ' = Append(batchQ, pack) /\ workQ' = workQ
    BY <1>9 DEF PushBatch
  <2>2. Elems(Append(batchQ, pack)) = Elems(batchQ) \cup {pack}
    BY <1>1, ElemsPut
  <2> QED
    BY <2>1, <2>2
<1>10. CASE Drain
  <2>1. workQ = << >> /\ batchQ' = batchQ /\ pack' = pack
    BY <1>10, ElemsNone DEF Drain, Shutdown, Ending
  <2> QED
    BY <2>1, ElemsNone
<1>11. CASE SendPill
  <2>1. batchQ' = Append(batchQ, Pill) /\ UNCHANGED <<workQ, pack>>
    BY <1>11 DEF SendPill, Pill
  <2>2. Elems(Append(batchQ, Pill)) = Elems(batchQ) \cup {Pill}
    BY <1>1, ElemsPut
  <2> QED
    BY <2>1, <2>2
<1>12. CASE CollectTimeout
  BY <1>12 DEF CollectTimeout
<1> QED
  BY <1>6, <1>7, <1>8, <1>9, <1>10, <1>11, <1>12 DEF Collect

\* A worker keeps the items of its batch until they are written or lost.
LEMMA HeldWritten ==
  ASSUME Shape, Hands, NEW w \in Workers, wpc[w] \in Kinds, NextGroup(w),
         written' = written \cup {batch[w][i] : i \in Group(w)},
         UNCHANGED <<feedVars, workQ, batchQ, packVars, lost>>, NEW x, Fit(x), Held(x)
  PROVE  Held(x)'
<1>1. ASSUME NEW v \in Workers, x \in Elems(batch[v]), x \notin Elems(batch'[v])
      PROVE  x \in written' \cup lost'
  <2>1. v = w /\ wpc[w] = "entity"
    BY <1>1, GroupDone DEF Kinds
  <2>2. CASE Msg(x).kind # "entity"
    BY <1>1, <2>1, <2>2 DEF Hands, Pending
  <2>3. CASE Msg(x).kind = "entity"
    BY <1>1, <2>1, <2>3, Grouped
  <2> QED
    BY <2>2, <2>3
<1> QED
  BY <1>1 DEF Held

LEMMA HeldFailed ==
  ASSUME Shape, Hands, NEW w \in Workers, wpc[w] \in Kinds, AttemptFailed(w),
         UNCHANGED <<feedVars, workQ, batchQ, packVars, written>>, NEW x, Fit(x), Held(x)
  PROVE  Held(x)'
<1>1. CASE wpc' = wpc /\ batch' = batch /\ lost' = lost
  BY <1>1 DEF Held
<1>2. CASE /\ wpc' = [wpc EXCEPT ![w] = "idle"]
           /\ batch' = [batch EXCEPT ![w] = << >>]
           /\ lost' = lost \cup {y \in Elems(batch[w]) :
                                    Msg(y).kind \in Pending(wpc[w]) /\ Fit(y)}
  <2>1. ASSUME NEW v \in Workers, x \in Elems(batch[v]), x \notin Elems(batch'[v])
        PROVE  x \in written' \cup lost'
    <3>1. v = w
      BY <1>2, <2>1 DEF Shape
    <3>2. CASE Msg(x).kind \in Pending(wpc[w])
      BY <1>2, <2>1, <3>1, <3>2
    <3>3. CASE Msg(x).kind \notin Pending(wpc[w])
      BY <1>2, <2>1, <3>1, <3>3 DEF Hands
    <3> QED
      BY <3>2, <3>3
  <2> QED
    BY <1>2, <2>1 DEF Held
<1> QED
  BY <1>1, <1>2, Failed

LEMMA HeldWorker ==
  ASSUME Shape, Hands, NEW w \in Workers, Worker(w) \/ UpsertFails(w) \/ CreateFails(w), NEW x \in Carried, Fit(x), Held(x)
  PROVE  Held(x)'
<1>1. CASE TakeBatch(w)
  <2>1. /\ batchQ # << >> /\ batchQ' = Tail(batchQ) /\ batch[w] = << >>
        /\ UNCHANGED <<feedVars, workQ, packVars, logVars>>
    BY <1>1 DEF TakeBatch, Hands
  <2>2. Elems(batchQ) = {Head(batchQ)} \cup Elems(batchQ')
    BY <2>1, ElemsTaken DEF Shape
  <2>3. Elems(Pill) = {Sentinel} /\ x # Sentinel
    BY Single, SentinelNoItem DEF Pill, Carried
  <2>4. x \in Elems(Head(batchQ)) => x \in Elems(batch'[w])
    <3>1. CASE Head(batchQ) = Pill
      BY <2>3, <3>1
    <3>2. CASE Head(batchQ) # Pill
      <4>1. batch'[w] = Head(batchQ)
        BY <1>1, <3>2 DEF TakeBatch, Pill, Shape
      <4> QED
        BY <4>1
    <3> QED
      BY <3>1, <3>2
  <2>5. \A v \in Workers : x \in Elems(batch[v]) => x \in Elems(batch'[v])
    BY <1>1, <2>1, ElemsNone DEF TakeBatch, Shape
  <2> QED
    BY <2>1, <2>2, <2>4, <2>5 DEF Held
<1>2. CASE NoGroup(w)
  <2>1. written' = written \cup {batch[w][i] : i \in Group(w)}
    BY <1>2 DEF NoGroup
  <2> QED
    BY <1>2, <2>1, HeldWritten DEF NoGroup
<1>3. CASE Upsert(w)
  BY <1>3, HeldWritten DEF Upsert, Shape
<1>4. CASE UpsertMissing(w)
  BY <1>4, HeldFailed DEF UpsertMissing
<1>5. CASE UpsertFails(w)
  BY <1>5, HeldFailed DEF UpsertFails
<1>6. CASE CreateFails(w)
  BY <1>6, HeldFailed DEF CreateFails
<1> QED
  BY <1>1, <1>2, <1>3, <1>4, <1>5, <1>6 DEF Worker

\* Of the rest only a crash drops what is in memory.
LEMMA HeldOthers ==
  ASSUME Shape, Others, ~Crash, NEW x \in Carried, Held(x)
  PROVE  Held(x)'
<1>1. CASE DeleteFails
  <2>1. inbox \in Seq(Items) /\ inbox # << >> /\ Head(inbox) \notin Carried
    BY <1>1 DEF DeleteFails, Shape, NextIs, Carried, Kinds
  <2>2. Elems(inbox) = {Head(inbox)} \cup Elems(Tail(inbox))
    BY <2>1, ElemsTaken
  <2>3. UNCHANGED <<workQ, batchQ, packVars, workVars, logVars>> /\ inbox' = Tail(inbox)
    BY <1>1 DEF DeleteFails
  <2> QED
    BY <2>1, <2>2, <2>3 DEF Held
<1>2. CASE ~DeleteFails
  <2>1. UNCHANGED <<inbox, workQ, batchQ, packVars, workVars, logVars>>
    BY <1>2 DEF Others, Signal, Rests, CommitFails, DropCollection
  <2> QED
    BY <2>1 DEF Held
<1> QED
  BY <1>1, <1>2

\* Only a fetch reads on, and only a crash reads again.
LEMMA ReadOn ==
  ASSUME Shape, [Next]_vars, ~Crash, NEW x \in Read', x \notin Read
  PROVE  x \in Elems(inbox')
<1>1. CASE Fetch
  <2>1. PICK t \in Topics, u \in Topics : \E p \in (pos[t] + 1)..Len(Log[t]) :
          \/ /\ pos' = [pos EXCEPT ![t] = p]
             /\ inbox' = Offsets(t, pos[t], p)
          \/ /\ t # u
             /\ \E q \in (pos[u] + 1)..Len(Log[u]) :
                   /\ pos' = [pos EXCEPT ![t] = p, ![u] = q]
                   /\ inbox' = Offsets(t, pos[t], p) \o Offsets(u, pos[u], q)
    BY <1>1 DEF Fetch
  <2>2. PICK p \in (pos[t] + 1)..Len(Log[t]) :
          \/ /\ pos' = [pos EXCEPT ![t] = p]
             /\ inbox' = Offsets(t, pos[t], p)
          \/ /\ t # u
             /\ \E q \in (pos[u] + 1)..Len(Log[u]) :
                   /\ pos' = [pos EXCEPT ![t] = p, ![u] = q]
                   /\ inbox' = Offsets(t, pos[t], p) \o Offsets(u, pos[u], q)
    BY <2>1
  <2>3. PICK r \in Topics, k \in Nat : k \in 1..Len(Log[r]) /\ x = <<r, k>>
    BY DEF Read, Writes, Carried, Items
  <2>4. /\ pos \in [Topics -> Nat] /\ pos[t] \in Nat /\ pos[u] \in Nat
        /\ k \in Nat /\ k <= pos'[r] /\ pos[r] < k
    BY <2>3 DEF Shape, Read
  <2>5. /\ Offsets(t, pos[t], p) \in Seq(Items)
        /\ \A i \in (pos[t] + 1)..p : <<t, i>> \in Elems(Offsets(t, pos[t], p))
    BY <2>4, Fetched
  <2>6. CASE pos' = [pos EXCEPT ![t] = p] /\ inbox' = Offsets(t, pos[t], p)
    <3>1. r = t /\ k \in (pos[t] + 1)..p
      BY <2>4, <2>6
    <3> QED
      BY <2>3, <2>5, <2>6, <3>1
  <2>7. ASSUME t # u, NEW q \in (pos[u] + 1)..Len(Log[u]),
               pos' = [pos EXCEPT ![t] = p, ![u] = q],
               inbox' = Offsets(t, pos[t], p) \o Offsets(u, pos[u], q)
        PROVE  x \in Elems(inbox')
    <3>1. /\ Offsets(u, pos[u], q) \in Seq(Items)
          /\ \A i \in (pos[u] + 1)..q : <<u, i>> \in Elems(Offsets(u, pos[u], q))
      BY <2>4, Fetched
    <3>2. Elems(Offsets(t, pos[t], p)) \cup Elems(Offsets(u, pos[u], q)) \subseteq Elems(inbox')
      BY <2>5, <2>7, <3>1, ElemsBoth
    <3>3. \/ r = t /\ k \in (pos[t] + 1)..p
          \/ r = u /\ k \in (pos[u] + 1)..q
      BY <2>4, <2>7
    <3> QED
      BY <2>3, <2>5, <3>1, <3>2, <3>3
  <2> QED
    BY <2>2, <2>6, <2>7
<1>2. CASE ~Fetch
  <2>1. pos' = pos
    BY <1>2 DEF Next, Consume, Enqueue, Commit, LeaveConsume, DeleteChunks, ScrollEntities,
                CheckSurvivor, RemoveEntities, PutSentinel, Finish,
                Collect, CollectFirst, CollectMore, CollectSentinel, CollectTimeout, PushBatch,
                Drain, SendPill, Signal, Rests, CommitFails, DeleteFails, DropCollection,
                Worker, TakeBatch, NoGroup, Upsert, UpsertMissing, UpsertFails, CreateFails
  <2> QED
    BY <2>1 DEF Read
<1> QED
  BY <1>1, <1>2

LEMMA ConservedStep ==
  ASSUME Shape, Shutdown, Hands, Conserved, [Next]_vars
  PROVE  Conserved'
<1>1. CASE Crash
  BY <1>1 DEF Crash, Conserved
<1>2. CASE ~Crash
  <2>1. crashes' = crashes
    BY <1>2 DEF Next, Consume, Fetch, Enqueue, Commit, LeaveConsume, DeleteChunks, ScrollEntities,
                CheckSurvivor, RemoveEntities, PutSentinel, Finish, Fault,
                Collect, CollectFirst, CollectMore, CollectSentinel, CollectTimeout, PushBatch,
                Drain, SendPill, Signal, Rests, CommitFails, DeleteFails, DropCollection,
                Worker, TakeBatch, NoGroup, Upsert, UpsertMissing, UpsertFails, CreateFails
  <2>2. ASSUME NEW x \in Carried, Fit(x), Held(x) PROVE Held(x)'
    BY <1>2, <2>2, Steps, HeldConsume, HeldCollect, HeldWorker, HeldOthers
  <2>3. ASSUME crashes = 0, NEW x \in Read' PROVE Held(x)'
    <3>1. CASE x \in Read
      BY <2>2, <2>3, <3>1 DEF Conserved, Read, Writes
    <3>2. CASE x \notin Read
      BY <1>2, <3>2, ReadOn DEF Held
    <3> QED
      BY <3>1, <3>2
  <2> QED
    BY <2>1, <2>3 DEF Conserved
<1> QED
  BY <1>1, <1>2

LEMMA KeptInit == Init => Hands /\ Conserved
<1> SUFFICES ASSUME Init PROVE Hands /\ Conserved
  OBVIOUS
<1>1. Hands /\ crashes = 0
  BY DEF Init, Hands, Kinds
<1>2. ASSUME NEW x \in Read PROVE FALSE
  <2>1. PICK t \in Topics, i \in Nat : i \in 1..Len(Log[t]) /\ x = <<t, i>>
    BY DEF Read, Writes, Carried, Items
  <2> QED
    BY <2>1 DEF Init, Read
<1> QED
  BY <1>1, <1>2 DEF Conserved

\* Without a crash every message read that is fit to be written is in memory,
\* was written or was given up after the retries, and a service that has stopped gracefully has none
\* left in memory, whatever the signals, the failing calls and the batch size:
\* main.py:135 to 144 and 271 to 338, README.md:258 of the service.
THEOREM GracefulStop == Spec => []NothingForgotten
<1>1. Init => Hands /\ Conserved
  BY KeptInit
<1>2. Shape /\ Shutdown /\ Hands /\ Conserved /\ [Next]_vars => (Hands /\ Conserved)'
  BY HandsStep, ConservedStep
<1>3. Shape /\ Shutdown /\ Hands /\ Conserved => NothingForgotten
  <2> SUFFICES ASSUME Shape, Shutdown, Hands, Conserved, crashes = 0
               PROVE  /\ Read \subseteq InMemory \cup written \cup lost
                      /\ mode = "stopped" => Read \subseteq written \cup lost
    BY DEF NothingForgotten
  <2>1. \A x \in Read : Held(x)
    BY DEF Conserved
  <2>2. ASSUME mode = "stopped", NEW x \in Read PROVE x \in written \cup lost
    <3>1. /\ inbox = << >> /\ workQ = << >> /\ pack = << >>
          /\ \A w \in Workers : batch[w] = << >>
      BY <2>2 DEF Hands, Shutdown, Ending
    <3>2. ASSUME NEW b \in Elems(batchQ) PROVE x \notin Elems(b)
      <4>1. b = Pill
        BY <2>2, ConstantsAssumption DEF Hands, Shutdown, Elems
      <4>2. x # Sentinel
        BY SentinelNoItem DEF Read, Writes, Carried
      <4> QED
        BY <4>1, <4>2, Single DEF Pill
    <3> QED
      BY <2>1, <2>2, <3>1, <3>2, ElemsNone DEF Held
  <2> QED
    BY <2>1, <2>2, HeldIs
<1> QED
  BY <1>1, <1>2, <1>3, Ordered, PTL DEF Spec

-----------------------------------------------------------------------------
(* Deletes.                                                                *)

\* A set of places in a sequence has a last one.
LEMMA Greatest ==
  ASSUME NEW n \in Nat, NEW T \in SUBSET (1..n), T # {}
  PROVE  \E i \in T : \A j \in T : j <= i
<1> DEFINE R == {ss \in Nat \X Nat : ss[1] < ss[2]}
           U == {n - i : i \in T}
<1>1. IsWellFoundedOn(R, Nat)
  BY NatLessThanWellFounded DEF OpToRel
<1>2. U \subseteq Nat /\ U # {}
  <2>1. \A i \in T : n - i \in Nat
    OBVIOUS
  <2> QED
    BY <2>1
<1>3. PICK x \in U : \A y \in U : ~ (<<y, x>> \in R)
  <2> HIDE DEF R, U
  <2> QED
    BY <1>1, <1>2, WFMin
<1>4. \A y \in U : ~ (y < x)
  <2> SUFFICES ASSUME NEW y \in U, y < x PROVE FALSE
    OBVIOUS
  <2>1. <<y, x>> \in R
    BY <1>2
  <2> QED
    BY <1>3, <2>1
<1>5. PICK i \in T : x = n - i
  OBVIOUS
<1>6. ASSUME NEW j \in T PROVE j <= i
  <2>1. ~ (n - j < x)
    BY <1>4
  <2> QED
    BY <1>5, <2>1
<1> QED
  BY <1>6

\* The payload of a written point is a file version.
LEMMA UpsertedSome ==
  ASSUME Shape, NEW w \in Workers, NEW p \in Points, points[p] # None
  PROVE  Upserted(w)[p] # None
<1> DEFINE s == {i \in Group(w) : Msg(batch[w][i]).id = p}
           last == CHOOSE i \in s : \A j \in s : j <= i
<1>1. Upserted(w)[p] = IF s = {} THEN points[p] ELSE Msg(batch[w][last]).fv
  BY DEF Upserted
<1>2. CASE s # {}
  <2>1. Len(batch[w]) \in Nat /\ \A i \in 1..Len(batch[w]) : batch[w][i] \in Carried
    BY LenProperties, ElementOfSeq DEF Shape
  <2>2. s \in SUBSET (1..Len(batch[w]))
    BY DEF Group
  <2>3. last \in s
    <3> HIDE DEF s
    <3>1. \E i \in s : \A j \in s : j <= i
      BY <1>2, <2>1, <2>2, Greatest
    <3> QED
      BY <3>1
  <2>4. batch[w][last] \in Carried
    BY <2>1, <2>2, <2>3
  <2>5. ASSUME NEW x \in Carried PROVE Msg(x).fv # None
    <3>1. PICK t \in Topics, i \in Nat : i \in 1..Len(Log[t]) /\ x = <<t, i>>
      BY DEF Carried, Items
    <3>2. Log[t][i].fv \in Versions
      BY <3>1 DEF Versions
    <3> QED
      BY <3>1, <3>2, ConstantsAssumption DEF Msg
  <2> QED
    BY <1>1, <1>2, <2>4, <2>5
<1> QED
  BY <1>1, <1>2

\* A step that removes the point of a chunk, and is no removal of a whole
\* collection, is a delete of the point's own file version.
LEMMA OwnerStep ==
  ASSUME Shape, [Next]_vars, NEW p \in PointsOf("chunk"),
         points[p] # None, points'[p] = None, drops' = drops
  PROVE  NextIs({"delete"}) /\ DeletedVersion = points[p]
<1>1. p \in Points /\ p \notin PointsOf("entity")
  <2>1. PICK x \in Items : Msg(x).kind \in Kinds /\ p = Msg(x).id
    BY DEF PointsOf
  <2>2. PICK t \in Topics, i \in Nat : i \in 1..Len(Log[t]) /\ x = <<t, i>>
    BY DEF Items
  <2>3. Log[t][i].kind \in Kinds /\ Log[t][i].id = p
    BY <2>1, <2>2 DEF Msg, Kinds
  <2>4. p \in Points
    BY <2>2, <2>3, ConstantsAssumption
  <2> QED
    BY <2>4, ConstantsAssumption
<1>2. CASE DeleteChunks
  BY <1>1, <1>2 DEF DeleteChunks, OfDeletedVersion
<1>3. ASSUME points' # points PROVE
        \/ DeleteChunks \/ RemoveEntities \/ DropCollection
        \/ \E w \in Workers : points' = Upserted(w)
  BY <1>3 DEF Next, Consume, Fetch, Enqueue, Commit, LeaveConsume, ScrollEntities,
              CheckSurvivor, PutSentinel, Finish,
              Collect, CollectFirst, CollectMore, CollectSentinel, CollectTimeout, PushBatch,
              Drain, SendPill, Signal, Rests, CommitFails, DeleteFails, Crash,
              Worker, TakeBatch, NoGroup, Upsert, UpsertMissing, UpsertFails, CreateFails
<1>4. CASE RemoveEntities
  <2>1. p \notin del.doomed
    BY <1>1 DEF Shape, Deletion
  <2> QED
    BY <1>1, <1>4, <2>1 DEF RemoveEntities
<1>5. CASE DropCollection
  BY <1>5 DEF DropCollection, Shape
<1>6. CASE \E w \in Workers : points' = Upserted(w)
  BY <1>1, <1>6, UpsertedSome
<1> QED
  BY <1>2, <1>3, <1>4, <1>5, <1>6

\* The point of a chunk disappears only when its own file version is deleted,
\* whatever the workers write between the calls of the delete: writer.py:189 to
\* 345 and 453 to 594.
THEOREM OwnerDeletes == Spec => ChunkDeletedByOwner
<1>1. Shape /\ [Next]_vars =>
        [\A p \in PointsOf("chunk") :
           points[p] # None /\ points'[p] = None /\ drops' = drops
               => NextIs({"delete"}) /\ DeletedVersion = points[p]]_vars
  BY OwnerStep
<1> QED
  BY <1>1, Ordered, PTL DEF Spec, ChunkDeletedByOwner
=============================================================================
