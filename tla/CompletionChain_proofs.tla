----------------------- MODULE CompletionChain_proofs -----------------------
(* Proofs about CompletionChain, for any chunks, items, batch size, number *)
(* of embedding workers and failing calls.                                  *)
EXTENDS CompletionChain, FiniteSetTheorems, TLAPS

Checking == {"check", "upstream", "announce", "finalize"}
Holding == {"entities", "summaries", "embed"}

\* A worker past the embedding call has a check left for an item of its batch,
\* and one before it holds a batch: left never goes below zero.
Bounded ==
    /\ IsFiniteSet(waiting)
    /\ \A w \in Workers :
        /\ IsFiniteSet(batch[w])
        /\ wpc[w] \in Holding => batch[w] # {}
        /\ wpc[w] \in Checking => left[w] > 0
TypeInv == TypeOK /\ Bounded

Told(s) == events[s] > 0 \/ faults > 0

\* Whoever relies on an upstream service being complete does so after its event.
ChainInOrder ==
    /\ \A s \in Upstream : status[s] = "complete" => Told(s)
    /\ \A s \in Upstream, c \in Chunk : phase[s][c] = "finalize" => Told(s)
    /\ \A w \in Workers : wpc[w] = "announce" => \A s \in Upstream : Told(s)
    /\ EventsInOrder

-----------------------------------------------------------------------------
USE DEF vars, upVars, topicVars, embedVars, doneVars, At, GotoChunk, Goto, Fault, Trouble,
        Service, Upstream

\* What one message holds is finite: one item for each number.
LEMMA ItemsFinite ==
  ASSUME NEW s \in Upstream, NEW c \in Chunk
  PROVE  Items(s, c) \subseteq Item /\ IsFiniteSet(Items(s, c))
<1> DEFINE N == 1..Embeddable[s][c]
           item == [k \in N |-> [from |-> s, chunk |-> c, n |-> k]]
<1>1. Embeddable[s][c] \in Nat
  BY EmbeddableAssumption
<1>2. Items(s, c) \subseteq Item
  BY <1>1 DEF Items, Item
<1>3. IsFiniteSet(N)
  BY <1>1, FS_Interval
<1>4. item \in Surjection(N, Items(s, c))
  BY DEF Surjection, Items
<1> QED
  BY <1>2, <1>3, <1>4, FS_Surjection

\* What a restart finds in the topics is finite.
LEMMA RereadFinite ==
  ASSUME NEW M, M \subseteq Message
  PROVE  /\ UNION {Items(m[1], m[2]) : m \in M} \subseteq Item
         /\ IsFiniteSet(UNION {Items(m[1], m[2]) : m \in M})
<1> DEFINE item == [m \in M |-> Items(m[1], m[2])]
           S == {Items(m[1], m[2]) : m \in M}
<1>1. IsFiniteSet(M)
  <2>1. IsFiniteSet(Upstream)
    <3>1. IsFiniteSet({"extraction"}) /\ IsFiniteSet({"summarization"})
      BY FS_Singleton
    <3>2. Upstream = {"extraction"} \cup {"summarization"}
      OBVIOUS
    <3> QED
      BY <3>1, <3>2, FS_Union
  <2>2. IsFiniteSet(Message)
    BY <2>1, ChunkAssumption, FS_Product DEF Message
  <2> QED
    BY <2>2, FS_Subset
<1>2. item \in Surjection(M, S)
  BY DEF Surjection
<1>3. IsFiniteSet(S)
  <2> HIDE DEF S, item
  <2> QED
    BY <1>1, <1>2, FS_Surjection
<1>4. \A T \in S : T \subseteq Item /\ IsFiniteSet(T)
  <2>1. \A m \in M : m[1] \in Upstream /\ m[2] \in Chunk
    BY DEF Message
  <2>2. \A m \in M : Items(m[1], m[2]) \subseteq Item /\ IsFiniteSet(Items(m[1], m[2]))
    BY <2>1, ItemsFinite
  <2> QED
    BY <2>2
<1>5. IsFiniteSet(UNION S)
  <2> HIDE DEF S
  <2> QED
    BY <1>3, <1>4, FS_UNION
<1> QED
  BY <1>4, <1>5

\* The first state is well formed.
LEMMA TypeInit == Init => TypeInv
  BY NotSetAssumption, FS_EmptySet DEF Init, TypeInv, TypeOK, Bounded, Phase, EmbedState,
     NothingRead, Holding, Checking

\* The next check, or a worker free again.
LEMMA NextItemType ==
  ASSUME TypeInv, NEW w \in Workers, wpc[w] \in Checking, NextItem(w)
  PROVE  /\ wpc' \in [Workers -> EmbedState] /\ left' \in [Workers -> Nat]
         /\ batch' \in [Workers -> SUBSET Item] /\ own' \in [Workers -> [Upstream -> Nat]]
         /\ \A v \in Workers :
             /\ IsFiniteSet(batch'[v])
             /\ wpc'[v] \in Holding => batch'[v] # {}
             /\ wpc'[v] \in Checking => left'[v] > 0
<1> USE DEF TypeInv, TypeOK, Bounded, Phase, EmbedState, Holding, Checking, NextItem
<1>1. CASE left[w] > 1
  <2>1. batch' = batch
    BY <1>1
  <2>2. wpc' \in [Workers -> EmbedState] /\ left' \in [Workers -> Nat]
    BY <1>1
  <2>3. own' \in [Workers -> [Upstream -> Nat]]
    BY DEF NothingRead
  <2>4. \A v \in Workers : (wpc'[v] \in Holding => batch'[v] # {})
                          /\ (wpc'[v] \in Checking => left'[v] > 0)
    BY <1>1, <2>1
  <2> QED
    BY <2>1, <2>2, <2>3, <2>4
<1>2. CASE left[w] = 1
  <2>1. batch' = [batch EXCEPT ![w] = {}] /\ wpc' = [wpc EXCEPT ![w] = "idle"]
        /\ left' = [left EXCEPT ![w] = 0]
    BY <1>2
  <2>2. \A v \in Workers : IsFiniteSet(batch'[v])
    BY <2>1, FS_EmptySet
  <2>3. own' \in [Workers -> [Upstream -> Nat]]
    BY DEF NothingRead
  <2>4. \A v \in Workers : (wpc'[v] \in Holding => batch'[v] # {})
                          /\ (wpc'[v] \in Checking => left'[v] > 0)
    BY <2>1
  <2> QED
    BY <2>1, <2>2, <2>3, <2>4
<1> QED
  BY <1>1, <1>2

\* Every step keeps it so.
LEMMA TypeStep == TypeInv /\ [Next]_vars => TypeInv'
<1> SUFFICES ASSUME TypeInv, [Next]_vars PROVE TypeInv'
  OBVIOUS
<1> USE NotSetAssumption, BoundAssumption
    DEF TypeInv, TypeOK, Bounded, Phase, EmbedState, Holding, Checking, OfKind
<1>1. CASE ReportTotal
  <2>1. Cardinality(Chunk) \in Nat
    BY ChunkAssumption, FS_CardinalityType
  <2> QED
    BY <1>1, <2>1 DEF ReportTotal
<1>2. CASE UNCHANGED vars
  BY <1>2
<1>5. CASE Restart
  <2>1. /\ uncommitted' \subseteq Message
        /\ waiting' = UNION {Items(m[1], m[2]) : m \in uncommitted'}
    BY <1>5 DEF Restart
  <2>2. waiting' \subseteq Item /\ IsFiniteSet(waiting')
    BY <2>1, RereadFinite
  <2>3. \A s \in Upstream : Cardinality(OfKind(waiting' \ waiting, s)) \in Nat
    BY <2>2, FS_Subset, FS_CardinalityType
  <2>4. again' \in [Upstream -> Nat]
    <3> HIDE DEF OfKind
    <3> QED
      BY <1>5, <2>3 DEF Restart
  <2>5. /\ wpc' = [w \in Workers |-> "idle"] /\ batch' = [w \in Workers |-> {}]
        /\ left' = [w \in Workers |-> 0] /\ own' = [w \in Workers |-> NothingRead]
        /\ completed' \subseteq completed /\ restarts' = restarts + 1
        /\ UNCHANGED <<total, upVars, counted, embedded, status, events, faults>>
    BY <1>5 DEF Restart
  <2> QED
    BY <2>1, <2>2, <2>4, <2>5, FS_EmptySet DEF NothingRead
<1>3. ASSUME NEW s \in Upstream, NEW c \in Chunk,
             UpstreamStep(s, c) \/ ChunkFails(s, c) \/ PublishSwallowed(s, c)
      PROVE  TypeInv'
  <2>1. CASE CountReceived(s, c)
    BY <2>1 DEF CountReceived
  <2>2. CASE CallModel(s, c)
    BY <2>2 DEF CallModel
  <2>3. CASE Tally(s, c)
    <3>1. Made[s][c] \in Nat
      BY MadeAssumption
    <3> QED
      BY <2>3, <3>1 DEF Tally
  <2>4. CASE Publish(s, c)
    <3>1. IsFiniteSet(waiting') /\ waiting' \subseteq Item
      BY <2>4, ItemsFinite, FS_Union DEF Publish
    <3>2. uncommitted' \subseteq Message
      BY <2>4 DEF Publish, Message
    <3> QED
      BY <2>4, <3>1, <3>2 DEF Publish
  <2>5. CASE Compare(s, c)
    BY <2>5 DEF Compare
  <2>6. CASE Announce(s, c)
    BY <2>6 DEF Announce
  <2>7. CASE Finalize(s, c)
    BY <2>7 DEF Finalize
  <2>8. CASE ChunkFails(s, c)
    BY <2>8 DEF ChunkFails
  <2>9. CASE PublishSwallowed(s, c)
    BY <2>9 DEF PublishSwallowed
  <2> QED
    BY <1>3, <2>1, <2>2, <2>3, <2>4, <2>5, <2>6, <2>7, <2>8, <2>9 DEF UpstreamStep
<1>4. ASSUME NEW w \in Workers, EmbedStep(w) \/ EmbedFault(w)
      PROVE  TypeInv'
  <2>1. CASE TakeBatch(w)
    <3>1. PICK B \in SUBSET waiting :
             /\ B # {}
             /\ batch' = [batch EXCEPT ![w] = B] /\ waiting' = waiting \ B
             /\ Goto(w, IF OfKind(B, "extraction") # {} THEN "entities" ELSE "summaries")
      BY <2>1 DEF TakeBatch
    <3>2. IsFiniteSet(B) /\ IsFiniteSet(waiting')
      BY <3>1, FS_Subset
    <3> QED
      BY <2>1, <3>1, <3>2 DEF TakeBatch
  <2>2. CASE CountEntities(w)
    <3>1. Cardinality(OfKind(batch[w], "extraction")) \in Nat
      BY FS_Subset, FS_CardinalityType
    <3> QED
      BY <2>2, <3>1 DEF CountEntities, Count
  <2>3. CASE CountSummaries(w)
    <3>1. Cardinality(OfKind(batch[w], "summarization")) \in Nat
      BY FS_Subset, FS_CardinalityType
    <3> QED
      BY <2>3, <3>1 DEF CountSummaries, Count
  <2>4. CASE Embed(w)
    <3>1. Cardinality(batch[w]) \in Nat /\ Cardinality(batch[w]) > 0
      BY <2>4, FS_CardinalityType, FS_EmptySet DEF Embed
    <3> QED
      BY <2>4, <3>1 DEF Embed
  <2>5. CASE SkipDone(w)
    BY <2>5, FS_EmptySet, NextItemType DEF SkipDone
  <2>6. CASE ReadOwn(w)
    BY <2>6 DEF ReadOwn
  <2>7. CASE ReadUpstream(w)
    <3>1. CASE AllEmbedded(w)
      BY <2>7, <3>1 DEF ReadUpstream, NothingRead
    <3>2. CASE ~AllEmbedded(w)
      BY <2>7, <3>2, NextItemType DEF ReadUpstream
    <3> QED
      BY <3>1, <3>2
  <2>8. CASE AnnounceEmbedded(w)
    BY <2>8 DEF AnnounceEmbedded
  <2>9. CASE FinalizeEmbedded(w)
    BY <2>9, FS_EmptySet, NextItemType DEF FinalizeEmbedded
  <2>10. CASE BatchFails(w)
    BY <2>10, FS_EmptySet, NextItemType DEF BatchFails
  <2>11. CASE CheckFails(w)
    BY <2>11, FS_EmptySet, NextItemType DEF CheckFails
  <2>12. CASE EmbedSwallowed(w)
    <3>1. Cardinality(batch[w]) \in Nat /\ Cardinality(batch[w]) > 0
      BY <2>12, FS_CardinalityType, FS_EmptySet DEF EmbedSwallowed
    <3>2. embedded' \subseteq Item
      BY <2>12 DEF EmbedSwallowed
    <3> QED
      BY <2>12, <3>1, <3>2 DEF EmbedSwallowed
  <2>13. CASE EventSwallowed(w)
    BY <2>13 DEF EventSwallowed
  <2> QED
    BY <1>4, <2>1, <2>2, <2>3, <2>4, <2>5, <2>6, <2>7, <2>8, <2>9, <2>10, <2>11, <2>12, <2>13
       DEF EmbedStep, EmbedFault
<1> QED
  BY <1>1, <1>2, <1>3, <1>4, <1>5 DEF Next, Rests

\* Every variable keeps its type: in particular no worker checks more often
\* than its batch has items (_process_batch of the embedding service).
THEOREM TypeCorrect == Spec => []TypeOK
<1>1. TypeInv => TypeOK
  BY DEF TypeInv
<1> QED
  BY <1>1, TypeInit, TypeStep, PTL DEF Spec

\* An event that was sent stays sent, a failed call stays counted.
LEMMA ToldStep ==
  ASSUME TypeInv, [Next]_vars, NEW u \in Upstream, Told(u) PROVE Told(u)'
<1> USE BoundAssumption DEF TypeInv, TypeOK, Told
<1>1. CASE ReportTotal
  BY <1>1 DEF ReportTotal
<1>2. CASE UNCHANGED vars
  BY <1>2
<1>5. CASE Restart
  BY <1>5 DEF Restart
<1>3. ASSUME NEW s \in Upstream, NEW c \in Chunk,
             UpstreamStep(s, c) \/ ChunkFails(s, c) \/ PublishSwallowed(s, c)
      PROVE  Told(u)'
  <2>1. CASE CountReceived(s, c)
    BY <2>1 DEF CountReceived
  <2>2. CASE CallModel(s, c)
    BY <2>2 DEF CallModel
  <2>3. CASE Tally(s, c)
    BY <2>3 DEF Tally
  <2>4. CASE Publish(s, c)
    BY <2>4 DEF Publish
  <2>5. CASE Compare(s, c)
    BY <2>5 DEF Compare
  <2>6. CASE Announce(s, c)
    BY <2>6 DEF Announce
  <2>7. CASE Finalize(s, c)
    BY <2>7 DEF Finalize
  <2>8. CASE ChunkFails(s, c)
    BY <2>8 DEF ChunkFails
  <2>9. CASE PublishSwallowed(s, c)
    BY <2>9 DEF PublishSwallowed
  <2> QED
    BY <1>3, <2>1, <2>2, <2>3, <2>4, <2>5, <2>6, <2>7, <2>8, <2>9 DEF UpstreamStep
<1>4. ASSUME NEW w \in Workers, EmbedStep(w) \/ EmbedFault(w)
      PROVE  Told(u)'
  <2>1. CASE TakeBatch(w)
    BY <2>1 DEF TakeBatch
  <2>2. CASE CountEntities(w)
    BY <2>2 DEF CountEntities, Count
  <2>3. CASE CountSummaries(w)
    BY <2>3 DEF CountSummaries, Count
  <2>4. CASE Embed(w)
    BY <2>4 DEF Embed
  <2>5. CASE SkipDone(w)
    BY <2>5 DEF SkipDone, NextItem
  <2>6. CASE ReadOwn(w)
    BY <2>6 DEF ReadOwn
  <2>7. CASE ReadUpstream(w)
    BY <2>7 DEF ReadUpstream, AllEmbedded, NextItem
  <2>8. CASE AnnounceEmbedded(w)
    <3>1. events'[u] = events[u]
      BY <2>8 DEF AnnounceEmbedded
    <3> QED
      BY <2>8, <3>1 DEF AnnounceEmbedded
  <2>9. CASE FinalizeEmbedded(w)
    BY <2>9 DEF FinalizeEmbedded, NextItem
  <2>10. CASE BatchFails(w)
    BY <2>10 DEF BatchFails
  <2>11. CASE CheckFails(w)
    BY <2>11 DEF CheckFails, NextItem
  <2>12. CASE EmbedSwallowed(w)
    BY <2>12 DEF EmbedSwallowed
  <2>13. CASE EventSwallowed(w)
    BY <2>13 DEF EventSwallowed
  <2> QED
    BY <1>4, <2>1, <2>2, <2>3, <2>4, <2>5, <2>6, <2>7, <2>8, <2>9, <2>10, <2>11, <2>12, <2>13
       DEF EmbedStep, EmbedFault
<1> QED
  BY <1>1, <1>2, <1>3, <1>4, <1>5 DEF Next, Rests

\* Each step that relies on a completion keeps the order.
LEMMA OrderStep == TypeInv /\ ChainInOrder /\ [Next]_vars => ChainInOrder'
<1> SUFFICES ASSUME TypeInv, ChainInOrder, [Next]_vars PROVE ChainInOrder'
  OBVIOUS
<1> HIDE DEF vars
<1>0. \A u \in Upstream : Told(u) => Told(u)'
  BY ToldStep
<1> USE <1>0, BoundAssumption DEF TypeInv, TypeOK, ChainInOrder, EventsInOrder, vars
<1>1. CASE ReportTotal
  BY <1>1 DEF ReportTotal
<1>2. CASE UNCHANGED vars
  BY <1>2
<1>5. CASE Restart
  BY <1>5 DEF Restart
<1>3. ASSUME NEW s \in Upstream, NEW c \in Chunk,
             UpstreamStep(s, c) \/ ChunkFails(s, c) \/ PublishSwallowed(s, c)
      PROVE  ChainInOrder'
  <2>1. CASE CountReceived(s, c)
    BY <2>1 DEF CountReceived
  <2>2. CASE CallModel(s, c)
    BY <2>2 DEF CallModel
  <2>3. CASE Tally(s, c)
    BY <2>3 DEF Tally
  <2>4. CASE Publish(s, c)
    BY <2>4 DEF Publish
  <2>5. CASE Compare(s, c)
    BY <2>5 DEF Compare
  <2>6. CASE Announce(s, c)
    <3>1. Told(s)'
      BY <2>6 DEF Announce, Told
    <3> QED
      BY <2>6, <3>1 DEF Announce
  <2>7. CASE Finalize(s, c)
    BY <2>7 DEF Finalize
  <2>8. CASE ChunkFails(s, c)
    BY <2>8 DEF ChunkFails
  <2>9. CASE PublishSwallowed(s, c)
    <3>1. \A u \in Upstream : Told(u)'
      BY <2>9 DEF PublishSwallowed, Told
    <3> QED
      BY <2>9, <3>1 DEF PublishSwallowed, Told
  <2> QED
    BY <1>3, <2>1, <2>2, <2>3, <2>4, <2>5, <2>6, <2>7, <2>8, <2>9 DEF UpstreamStep
<1>4. ASSUME NEW w \in Workers, EmbedStep(w) \/ EmbedFault(w)
      PROVE  ChainInOrder'
  <2>1. CASE TakeBatch(w)
    BY <2>1 DEF TakeBatch
  <2>2. CASE CountEntities(w)
    BY <2>2 DEF CountEntities, Count
  <2>3. CASE CountSummaries(w)
    BY <2>3 DEF CountSummaries, Count
  <2>4. CASE Embed(w)
    BY <2>4 DEF Embed
  <2>5. CASE SkipDone(w)
    BY <2>5 DEF SkipDone, NextItem
  <2>6. CASE ReadOwn(w)
    BY <2>6 DEF ReadOwn
  <2>7. CASE ReadUpstream(w)
    BY <2>7 DEF ReadUpstream, AllEmbedded, NextItem
  <2>8. CASE AnnounceEmbedded(w)
    <3>1. \A u \in Upstream : Told(u)'
      BY <2>8 DEF AnnounceEmbedded
    <3> QED
      BY <2>8, <3>1 DEF AnnounceEmbedded, Told
  <2>9. CASE FinalizeEmbedded(w)
    BY <2>9 DEF FinalizeEmbedded, NextItem
  <2>10. CASE BatchFails(w)
    BY <2>10 DEF BatchFails
  <2>11. CASE CheckFails(w)
    BY <2>11 DEF CheckFails, NextItem
  <2>12. CASE EmbedSwallowed(w)
    BY <2>12 DEF EmbedSwallowed
  <2>13. CASE EventSwallowed(w)
    BY <2>13 DEF EventSwallowed
  <2> QED
    BY <1>4, <2>1, <2>2, <2>3, <2>4, <2>5, <2>6, <2>7, <2>8, <2>9, <2>10, <2>11, <2>12, <2>13
       DEF EmbedStep, EmbedFault
<1> QED
  BY <1>1, <1>2, <1>3, <1>4, <1>5 DEF Next, Rests

\* Nothing is complete at first.
LEMMA OrderInit == Init => ChainInOrder
  BY DEF Init, ChainInOrder, EventsInOrder, Told

\* No embedding_complete without both upstream completion events, whatever the
\* number of chunks and workers, unless a call failed (_check_and_emit_completion).
THEOREM EventsInOrderHolds == Spec => []EventsInOrder
<1>1. ChainInOrder => EventsInOrder
  BY DEF ChainInOrder
<1> QED
  BY <1>1, TypeInit, TypeStep, OrderInit, OrderStep, PTL DEF Spec

-----------------------------------------------------------------------------
(* Embedding counts behind its producers.                                  *)

\* Where a worker has its items of this kind still to count.
Uncounted(s) == IF s = "extraction" THEN {"entities"} ELSE {"entities", "summaries"}

\* The items an upstream service has counted and embedding has not.
Owing(i) ==
    \/ i \in waiting
    \/ \E w \in Workers : i \in batch[w] /\ wpc[w] \in Uncounted(i.from)
    \/ i \in Items(i.from, i.chunk) /\ phase[i.from][i.chunk] = "publish"
Owed(s) == {i \in Item : i.from = s /\ Owing(i)}

\* An item is in one place, and there only after its publication.
Places ==
    /\ \A w \in Workers : batch[w] \cap waiting = {}
    /\ \A w, v \in Workers : w # v => batch[w] \cap batch[v] = {}
    /\ \A i \in Item : i \in waiting \/ (\E w \in Workers : i \in batch[w]) =>
          phase[i.from][i.chunk] \in {"check", "announce", "finalize", "over"}
    /\ \A m \in uncommitted : phase[m[1]][m[2]] \in {"check", "announce", "finalize", "over"}

\* What embedding has counted, and what it still has to count, was reported
\* or is read again.
Balance(s) ==
    IsFiniteSet(Owed(s)) /\ counted[s] + Cardinality(Owed(s)) <= Reported(s) + again[s]

LEMMA ItemsBounded ==
  ASSUME NEW s \in Upstream, NEW c \in Chunk
  PROVE  Cardinality(Items(s, c)) <= Embeddable[s][c] /\ Embeddable[s][c] \in Nat
<1> DEFINE N == 1..Embeddable[s][c]
           item == [k \in N |-> [from |-> s, chunk |-> c, n |-> k]]
<1>1. Embeddable[s][c] \in Nat
  BY EmbeddableAssumption
<1>2. IsFiniteSet(N) /\ Cardinality(N) = Embeddable[s][c]
  <2> DEFINE e == Embeddable[s][c]
  <2>1. 1 \in Int /\ e \in Int
    BY <1>1
  <2> HIDE DEF e
  <2>2. IsFiniteSet(1..e) /\ Cardinality(1..e) = IF 1 > e THEN 0 ELSE e - 1 + 1
    BY <2>1, FS_Interval
  <2> QED
    BY <1>1, <2>2 DEF e
<1>3. item \in Surjection(N, Items(s, c))
  BY DEF Items, Surjection
<1> HIDE DEF item, N
<1>4. Cardinality(Items(s, c)) <= Cardinality(N)
  BY <1>2, <1>3, FS_Surjection
<1> QED
  BY <1>1, <1>2, <1>4

LEMMA PlacesStep == TypeInv /\ Places /\ [Next]_vars => Places'
<1> SUFFICES ASSUME TypeInv, Places, [Next]_vars PROVE Places'
  OBVIOUS
<1> USE DEF Places
<1>0. /\ phase \in [Upstream -> [Chunk -> Phase]] /\ waiting \subseteq Item
      /\ batch \in [Workers -> SUBSET Item] /\ wpc \in [Workers -> EmbedState]
      /\ left \in [Workers -> Nat] /\ uncommitted \subseteq Upstream \X Chunk
  BY DEF TypeInv, TypeOK, Message
<1>1. CASE ReportTotal \/ UNCHANGED vars
  BY <1>1 DEF ReportTotal
<1>4. CASE Restart
  <2>1. /\ uncommitted' \subseteq uncommitted /\ batch' = [w \in Workers |-> {}]
        /\ waiting' = UNION {Items(m[1], m[2]) : m \in uncommitted'} /\ phase' = phase
    BY <1>4 DEF Restart
  <2>2. ASSUME NEW i \in waiting'
        PROVE  phase[i.from][i.chunk] \in {"check", "announce", "finalize", "over"}
    <3>1. PICK m \in uncommitted : i \in Items(m[1], m[2])
      BY <2>1, <2>2
    <3>2. i.from = m[1] /\ i.chunk = m[2]
      BY <3>1 DEF Items
    <3> QED
      BY <3>1, <3>2
  <2> QED
    BY <2>1, <2>2
<1>2. ASSUME NEW s \in Upstream, NEW c \in Chunk,
             UpstreamStep(s, c) \/ ChunkFails(s, c) \/ PublishSwallowed(s, c)
      PROVE  Places'
  <2>1. batch' = batch
    BY <1>2 DEF UpstreamStep, CountReceived, CallModel, Tally, Publish, Compare, Announce,
                Finalize, ChunkFails, PublishSwallowed
  <2>2. ASSUME NEW i \in Item
        PROVE  phase[i.from][i.chunk] \in {"check", "announce", "finalize", "over"} =>
               phase'[i.from][i.chunk] \in {"check", "announce", "finalize", "over"}
    <3>1. i.from \in Upstream /\ i.chunk \in Chunk
      BY DEF Item
    <3> QED
      BY <1>0, <1>2, <3>1 DEF UpstreamStep, CountReceived, CallModel, Tally, Publish, Compare,
                             Announce, Finalize, ChunkFails, PublishSwallowed
  <2>5. ASSUME NEW m \in uncommitted
        PROVE  phase'[m[1]][m[2]] \in {"check", "announce", "finalize", "over"}
    <3>1. m[1] \in Upstream /\ m[2] \in Chunk
      BY <1>0
    <3> QED
      BY <1>0, <1>2, <3>1 DEF UpstreamStep, CountReceived, CallModel, Tally, Publish, Compare,
                             Announce, Finalize, ChunkFails, PublishSwallowed
  <2>3. CASE waiting' = waiting /\ uncommitted' = uncommitted
    BY <2>1, <2>2, <2>3, <2>5
  <2>4. CASE Publish(s, c)
    <3>1. ASSUME NEW i \in Items(s, c)
          PROVE  /\ i.from = s /\ i.chunk = c /\ phase'[s][c] = "check"
                 /\ i \in Item /\ \A w \in Workers : i \notin batch[w]
      <4>1. i.from = s /\ i.chunk = c /\ i \in Item
        BY ItemsFinite DEF Items
      <4> QED
        BY <1>0, <2>4, <4>1 DEF Publish
    <3>2. waiting' = waiting \cup Items(s, c) /\ uncommitted' = uncommitted \cup {<<s, c>>}
      BY <2>4 DEF Publish
    <3>3. phase'[s][c] = "check"
      BY <1>0, <2>4 DEF Publish
    <3> QED
      BY <2>1, <2>2, <2>5, <3>1, <3>2, <3>3
  <2> QED
    BY <1>2, <2>3, <2>4 DEF UpstreamStep, CountReceived, CallModel, Tally, Compare, Announce,
                            Finalize, ChunkFails, PublishSwallowed
<1>3. ASSUME NEW w \in Workers, EmbedStep(w) \/ EmbedFault(w)
      PROVE  Places'
  <2>1. CASE TakeBatch(w)
    <3>1. PICK B \in SUBSET waiting :
             batch' = [batch EXCEPT ![w] = B] /\ waiting' = waiting \ B
      BY <2>1 DEF TakeBatch
    <3>2. phase' = phase /\ uncommitted' = uncommitted
      BY <2>1 DEF TakeBatch
    <3> QED
      BY <1>0, <3>1, <3>2
  <2>2. CASE ~TakeBatch(w)
    <3>1. phase' = phase /\ waiting' = waiting /\ uncommitted' = uncommitted
      BY <1>3, <2>2 DEF EmbedStep, CountEntities, CountSummaries, Count, Embed, SkipDone,
           ReadOwn, ReadUpstream, AnnounceEmbedded, FinalizeEmbedded, EmbedFault, BatchFails, EmbedSwallowed,
           CheckFails, EventSwallowed
    <3>2. batch' = batch \/ batch' = [batch EXCEPT ![w] = {}]
      BY <1>0, <1>3, <2>2 DEF EmbedStep, CountEntities, CountSummaries, Count, Embed, SkipDone,
           ReadOwn, ReadUpstream, AnnounceEmbedded, FinalizeEmbedded, EmbedFault, BatchFails, EmbedSwallowed,
           CheckFails, EventSwallowed,
           NextItem
    <3> QED
      BY <1>0, <3>1, <3>2
  <2> QED
    BY <2>1, <2>2
<1> QED
  BY <1>1, <1>2, <1>3, <1>4 DEF Next, Rests

\* What a step of an upstream service does to the items owed: only a tally
\* adds some, and it reports as many.
LEMMA UpstreamOwes ==
  ASSUME TypeInv, Places, NEW s \in Upstream, NEW c \in Chunk,
         UpstreamStep(s, c) \/ ChunkFails(s, c) \/ PublishSwallowed(s, c),
         NEW u \in Upstream
  PROVE  /\ counted' = counted /\ again' = again
         /\ \/ Owed(u)' \subseteq Owed(u) /\ Reported(u)' = Reported(u)
            \/ /\ Owed(u)' \subseteq Owed(u) \cup Items(u, c)
               /\ Reported(u)' = Reported(u) + Made[u][c]
<1>0. /\ phase \in [Upstream -> [Chunk -> Phase]]
      /\ made \in [Upstream -> Nat \cup {NotSet}]
  BY DEF TypeInv, TypeOK
<1>1. /\ batch' = batch /\ wpc' = wpc /\ counted' = counted /\ again' = again
  BY DEF UpstreamStep, CountReceived, CallModel, Tally, Publish, Compare, Announce,
         Finalize, ChunkFails, PublishSwallowed
<1>2. CASE Tally(s, c)
  <2>1. waiting' = waiting
    BY <1>2 DEF Tally
  <2>2. ASSUME NEW i \in Owed(u)', i \notin Owed(u)
        PROVE  i \in Items(u, c) /\ u = s
    <3>1. i \in Item /\ i.from = u /\ i.chunk \in Chunk
      BY <2>2 DEF Owed, Item
    <3>2. i \in Items(u, i.chunk) /\ phase'[u][i.chunk] = "publish" /\ phase[u][i.chunk] # "publish"
      BY <1>1, <2>1, <2>2, <3>1 DEF Owed, Owing
    <3>3. u = s /\ i.chunk = c
      BY <1>0, <1>2, <3>1, <3>2 DEF Tally
    <3> QED
      BY <3>2, <3>3
  <2>3. CASE u = s
    <3>1. Reported(u)' = Reported(u) + Made[u][c]
      BY <1>0, <1>2, <2>3, MadeAssumption, NotSetAssumption DEF Tally, Reported
    <3> QED
      BY <1>1, <2>2, <3>1
  <2>4. CASE u # s
    <3>1. Reported(u)' = Reported(u)
      BY <1>0, <1>2, <2>4 DEF Tally, Reported
    <3> QED
      BY <1>1, <2>2, <2>4, <3>1
  <2> QED
    BY <2>3, <2>4
<1>3. CASE ~Tally(s, c)
  <2>1. made' = made
    BY <1>3 DEF UpstreamStep, CountReceived, CallModel, Publish, Compare, Announce,
                Finalize, ChunkFails, PublishSwallowed
  <2>2. ASSUME NEW i \in Owed(u)' PROVE i \in Owed(u)
    <3>1. i \in Item /\ i.from = u /\ i.chunk \in Chunk
      BY <2>2 DEF Owed, Item
    <3>2. phase'[u][i.chunk] = "publish" => phase[u][i.chunk] = "publish"
      BY <1>0, <1>3, <3>1 DEF UpstreamStep, CountReceived, CallModel, Publish, Compare, Announce,
                Finalize, ChunkFails, PublishSwallowed
    <3>3. i \in waiting' => \/ i \in waiting
                            \/ i \in Items(u, i.chunk) /\ phase[u][i.chunk] = "publish"
      <4>1. CASE Publish(s, c)
        BY <3>1, <4>1 DEF Publish, Items
      <4>2. CASE ~Publish(s, c)
        BY <1>3, <4>2 DEF UpstreamStep, CountReceived, CallModel, Compare, Announce,
                Finalize, ChunkFails, PublishSwallowed
      <4> QED
        BY <4>1, <4>2
    <3> QED
      BY <1>1, <2>2, <3>1, <3>2, <3>3 DEF Owed, Owing
  <2> QED
    BY <1>1, <2>1, <2>2 DEF Reported
<1> QED
  BY <1>2, <1>3

\* What a step of an embedding worker does: counting a kind settles what the
\* worker has of it.
LEMMA EmbedOwes ==
  ASSUME TypeInv, Places, NEW w \in Workers, EmbedStep(w) \/ EmbedFault(w),
         NEW u \in Upstream
  PROVE  /\ Reported(u)' = Reported(u) /\ again' = again
         /\ \/ counted'[u] = counted[u] /\ Owed(u)' \subseteq Owed(u)
            \/ /\ OfKind(batch[w], u) \subseteq Owed(u)
               /\ counted'[u] = counted[u] + Cardinality(OfKind(batch[w], u))
               /\ Owed(u)' \subseteq Owed(u) \ OfKind(batch[w], u)
<1>0. /\ waiting \subseteq Item /\ batch \in [Workers -> SUBSET Item]
      /\ wpc \in [Workers -> EmbedState] /\ counted \in [Upstream -> Nat]
      /\ left \in [Workers -> Nat]
  BY DEF TypeInv, TypeOK
<1>1. phase' = phase /\ made' = made /\ again' = again
  BY DEF EmbedStep, TakeBatch, CountEntities, CountSummaries, Count, Embed, SkipDone, ReadOwn,
         ReadUpstream, AnnounceEmbedded, FinalizeEmbedded, EmbedFault, BatchFails, EmbedSwallowed,
           CheckFails, EventSwallowed
<1>2. Reported(u)' = Reported(u) /\ again' = again
  BY <1>1 DEF Reported
<1>3. CASE TakeBatch(w)
  <2>1. PICK B \in SUBSET waiting :
           /\ batch' = [batch EXCEPT ![w] = B] /\ waiting' = waiting \ B
           /\ wpc' = [wpc EXCEPT ![w] = IF OfKind(B, "extraction") # {} THEN "entities"
                                        ELSE "summaries"]
    BY <1>3 DEF TakeBatch
  <2>2. ASSUME NEW i \in Owed(u)' PROVE i \in Owed(u)
    <3>1. i \in Item /\ i.from = u
      BY <2>2 DEF Owed
    <3>2. ASSUME NEW v \in Workers, i \in batch'[v], wpc'[v] \in Uncounted(u)
          PROVE  i \in waiting \/ (i \in batch[v] /\ wpc[v] \in Uncounted(u))
      BY <1>0, <2>1, <3>2
    <3> QED
      BY <1>1, <2>1, <2>2, <3>1, <3>2 DEF Owed, Owing
  <2> QED
    BY <1>2, <1>3, <2>2 DEF TakeBatch
<1>4. ASSUME NEW s \in Upstream, NEW here, NEW there, Count(w, here, s, there),
             here \in Uncounted(s), there \notin Uncounted(s),
             here \notin Uncounted(u) /\ u # s => there \notin Uncounted(u)
      PROVE  \/ counted'[u] = counted[u] /\ Owed(u)' \subseteq Owed(u)
             \/ /\ OfKind(batch[w], u) \subseteq Owed(u)
                /\ counted'[u] = counted[u] + Cardinality(OfKind(batch[w], u))
                /\ Owed(u)' \subseteq Owed(u) \ OfKind(batch[w], u)
  <2>1. /\ waiting' = waiting /\ batch' = batch /\ wpc[w] = here
        /\ wpc' = [wpc EXCEPT ![w] = there]
        /\ counted' = [counted EXCEPT ![s] = @ + Cardinality(OfKind(batch[w], s))]
    BY <1>4 DEF Count
  <2>2. ASSUME NEW i \in Owed(u)'
        PROVE  i \in Owed(u) /\ (u = s => i \notin OfKind(batch[w], u))
    <3>1. i \in Item /\ i.from = u /\ i.from \in Upstream
      BY <2>2 DEF Owed
    <3>2. ASSUME NEW v \in Workers, i \in batch[v], wpc'[v] \in Uncounted(u)
          PROVE  wpc[v] \in Uncounted(u) /\ (u = s => v # w)
      BY <1>0, <1>4, <2>1, <3>2
    <3>3. i \in Owed(u)
      BY <1>1, <2>1, <2>2, <3>1, <3>2 DEF Owed, Owing
    <3>4. ASSUME u = s, i \in batch[w] PROVE FALSE
      <4>1. i \notin waiting /\ \A v \in Workers \ {w} : i \notin batch[v]
        BY <3>4 DEF Places
      <4>2. phase[i.from][i.chunk] # "publish"
        BY <3>1, <3>4 DEF Places
      <4> QED
        BY <1>1, <2>1, <2>2, <3>1, <3>2, <3>4, <4>1, <4>2 DEF Owed, Owing
    <3> QED
      BY <3>3, <3>4 DEF OfKind
  <2>3. CASE u = s
    <3>1. OfKind(batch[w], u) \subseteq Owed(u)
      BY <1>0, <1>4, <2>1, <2>3 DEF OfKind, Owed, Owing
    <3> QED
      BY <1>0, <2>1, <2>2, <2>3, <3>1
  <2>4. CASE u # s
    BY <1>0, <2>1, <2>2, <2>4
  <2> QED
    BY <2>3, <2>4
<1>5. CASE CountEntities(w)
  BY <1>2, <1>4, <1>5 DEF CountEntities, Uncounted
<1>6. CASE CountSummaries(w)
  BY <1>2, <1>4, <1>6 DEF CountSummaries, Uncounted
<1>7. CASE ~TakeBatch(w) /\ ~CountEntities(w) /\ ~CountSummaries(w)
  <2>1. /\ waiting' = waiting /\ counted' = counted
        /\ \A v \in Workers : batch'[v] \subseteq batch[v]
    BY <1>0, <1>7 DEF EmbedStep, Embed, SkipDone, ReadOwn, ReadUpstream, AnnounceEmbedded,
                      FinalizeEmbedded, EmbedFault, BatchFails, EmbedSwallowed,
           CheckFails, EventSwallowed, NextItem
  <2>2. \A v \in Workers : wpc'[v] \in {"entities", "summaries"} => wpc'[v] = wpc[v]
    BY <1>0, <1>7 DEF EmbedStep, Embed, SkipDone, ReadOwn, ReadUpstream, AnnounceEmbedded,
                      FinalizeEmbedded, EmbedFault, BatchFails, EmbedSwallowed,
           CheckFails, EventSwallowed, NextItem
  <2>3. Owed(u)' \subseteq Owed(u)
    BY <1>1, <2>1, <2>2 DEF Owed, Owing, Uncounted
  <2> QED
    BY <1>2, <2>1, <2>3
<1> QED
  BY <1>3, <1>5, <1>6, <1>7

LEMMA ReportedCounts ==
  ASSUME TypeInv, NEW u \in Upstream
  PROVE  Reported(u) \in Nat /\ counted[u] \in Nat /\ again[u] \in Nat
  BY DEF TypeInv, TypeOK, Reported

\* The balance is kept: less is owed, or as much more as was reported, or what
\* was owed has been counted.
LEMMA BalanceStep ==
  ASSUME TypeInv, Places, [Next]_vars, NEW u \in Upstream, Balance(u)
  PROVE  Balance(u)'
<1> DEFINE O == Owed(u)
           P == Owed(u)'
<1>0. /\ IsFiniteSet(O) /\ Cardinality(O) \in Nat /\ counted[u] \in Nat /\ Reported(u) \in Nat
      /\ again[u] \in Nat /\ counted[u] + Cardinality(O) <= Reported(u) + again[u]
  BY ReportedCounts, FS_CardinalityType DEF Balance
<1>1. ASSUME counted'[u] = counted[u], Reported(u)' = Reported(u), again'[u] = again[u],
             P \subseteq O
      PROVE  Balance(u)'
  <2>1. IsFiniteSet(P) /\ Cardinality(P) \in Nat /\ Cardinality(P) <= Cardinality(O)
    <3> HIDE DEF O, P
    <3> QED
      BY <1>0, <1>1, FS_Subset, FS_CardinalityType
  <2> QED
    BY <1>0, <1>1, <2>1 DEF Balance
<1>2. CASE ReportTotal \/ UNCHANGED vars
  <2>1. counted' = counted /\ Reported(u)' = Reported(u) /\ again' = again /\ P \subseteq O
    BY <1>2 DEF ReportTotal, Reported, Owed, Owing
  <2> QED
    BY <1>1, <2>1
<1>5. CASE Restart
  <2> DEFINE R == OfKind(waiting' \ waiting, u)
  <2>1. /\ counted' = counted /\ Reported(u)' = Reported(u) /\ phase' = phase
        /\ again'[u] = again[u] + Cardinality(R) /\ \A v \in Workers : batch'[v] = {}
    BY <1>5 DEF Restart, Reported
  <2>2. P \subseteq O \cup R
    BY <2>1 DEF Owed, Owing, OfKind, Items
  <2>3. IsFiniteSet(R)
    <3>1. IsFiniteSet(waiting')
      BY <1>5, TypeStep DEF TypeInv, Bounded
    <3> QED
      BY <3>1, FS_Subset DEF OfKind
  <2>4. /\ IsFiniteSet(P) /\ Cardinality(P) \in Nat /\ Cardinality(R) \in Nat
        /\ Cardinality(P) <= Cardinality(O) + Cardinality(R)
    <3> HIDE DEF O, P, R
    <3>1. /\ IsFiniteSet(O \cup R)
          /\ Cardinality(O \cup R) = Cardinality(O) + Cardinality(R) - Cardinality(O \cap R)
      BY <1>0, <2>3, FS_Union
    <3>2. Cardinality(O \cap R) \in Nat /\ Cardinality(O \cup R) \in Nat /\ Cardinality(R) \in Nat
      BY <1>0, <2>3, <3>1, FS_Intersection, FS_CardinalityType
    <3>3. IsFiniteSet(P) /\ Cardinality(P) <= Cardinality(O \cup R) /\ Cardinality(P) \in Nat
      BY <2>2, <3>1, FS_Subset, FS_CardinalityType
    <3> QED
      BY <1>0, <3>1, <3>2, <3>3
  <2> HIDE DEF R
  <2> QED
    BY <1>0, <2>1, <2>4 DEF Balance
<1>3. ASSUME NEW s \in Upstream, NEW c \in Chunk,
             UpstreamStep(s, c) \/ ChunkFails(s, c) \/ PublishSwallowed(s, c)
      PROVE  Balance(u)'
  <2>1. CASE P \subseteq O /\ Reported(u)' = Reported(u)
    BY <1>1, <1>3, <2>1, UpstreamOwes
  <2>2. CASE P \subseteq O \cup Items(u, c) /\ Reported(u)' = Reported(u) + Made[u][c]
    <3> DEFINE I == Items(u, c)
    <3>1. /\ IsFiniteSet(I) /\ Cardinality(I) \in Nat
          /\ Cardinality(I) <= Made[u][c] /\ Made[u][c] \in Nat
      <4>1. Embeddable[u][c] <= Made[u][c] /\ Made[u][c] \in Nat
        BY EmbeddableAssumption, MadeAssumption
      <4>2. IsFiniteSet(I) /\ Cardinality(I) \in Nat
        BY ItemsFinite, FS_CardinalityType
      <4> QED
        BY <4>1, <4>2, ItemsBounded
    <3>2. /\ IsFiniteSet(P) /\ Cardinality(P) \in Nat
          /\ Cardinality(P) <= Cardinality(O) + Cardinality(I)
      <4> HIDE DEF O, P, I
      <4>1. /\ IsFiniteSet(O \cup I)
            /\ Cardinality(O \cup I) = Cardinality(O) + Cardinality(I) - Cardinality(O \cap I)
        BY <1>0, <3>1, FS_Union
      <4>2. Cardinality(O \cap I) \in Nat /\ Cardinality(O \cup I) \in Nat
        BY <1>0, <4>1, FS_Intersection, FS_CardinalityType
      <4>3. IsFiniteSet(P) /\ Cardinality(P) <= Cardinality(O \cup I) /\ Cardinality(P) \in Nat
        BY <2>2, <4>1, FS_Subset, FS_CardinalityType DEF I
      <4> QED
        BY <1>0, <3>1, <4>1, <4>2, <4>3
    <3>3. counted' = counted /\ again' = again
      BY <1>3, UpstreamOwes
    <3> QED
      BY <1>0, <2>2, <3>1, <3>2, <3>3 DEF Balance
  <2> QED
    BY <1>3, <2>1, <2>2, UpstreamOwes
<1>4. ASSUME NEW w \in Workers, EmbedStep(w) \/ EmbedFault(w)
      PROVE  Balance(u)'
  <2> DEFINE D == OfKind(batch[w], u)
  <2>1. CASE counted'[u] = counted[u] /\ P \subseteq O
    BY <1>1, <1>4, <2>1, EmbedOwes
  <2>2. CASE D \subseteq O /\ counted'[u] = counted[u] + Cardinality(D) /\ P \subseteq O \ D
    <3>1. /\ IsFiniteSet(P) /\ Cardinality(P) \in Nat /\ Cardinality(D) \in Nat
          /\ Cardinality(P) <= Cardinality(O) - Cardinality(D)
      <4> HIDE DEF O, P, D
      <4>1. IsFiniteSet(D) /\ O \cap D = D
        BY <1>0, <2>2, FS_Subset
      <4>2. IsFiniteSet(O \ D) /\ Cardinality(O \ D) = Cardinality(O) - Cardinality(D)
        BY <1>0, <4>1, FS_Difference
      <4>3. IsFiniteSet(P) /\ Cardinality(P) <= Cardinality(O \ D)
        BY <2>2, <4>2, FS_Subset
      <4> QED
        BY <4>1, <4>2, <4>3, FS_CardinalityType
    <3>2. Reported(u)' = Reported(u) /\ again' = again
      BY <1>4, EmbedOwes
    <3> QED
      BY <1>0, <2>2, <3>1, <3>2 DEF Balance
  <2> QED
    BY <1>4, <2>1, <2>2, EmbedOwes
<1> QED
  BY <1>2, <1>3, <1>4, <1>5 DEF Next, Rests

Accounts == Places /\ \A s \in Upstream : Balance(s)

LEMMA AccountsInit == Init => Accounts
<1> SUFFICES ASSUME Init PROVE Accounts
  OBVIOUS
<1>1. Places
  BY DEF Init, Places
<1>2. ASSUME NEW s \in Upstream PROVE Balance(s)
  <2>1. Owed(s) = {}
    BY DEF Init, Owed, Owing, Item
  <2>2. counted[s] = 0 /\ Reported(s) = 0 /\ again[s] = 0
    BY NotSetAssumption DEF Init, Reported, NothingRead
  <2> QED
    BY <2>1, <2>2, FS_EmptySet DEF Balance
<1> QED
  BY <1>1, <1>2 DEF Accounts

\* Embedding is ahead of its producers' counters by no more than what came to
\* it twice, whatever the batches, the failing calls and the restarts
\* (increment_counter before _publish_event, commit behind the work queue).
THEOREM NeverAheadHolds == Spec => []NeverAhead
<1>1. TypeInv /\ Accounts /\ [Next]_vars => Accounts'
  <2>1. ASSUME TypeInv, Accounts, [Next]_vars, NEW s \in Upstream PROVE Balance(s)'
    BY <2>1, BalanceStep DEF Accounts
  <2> QED
    BY <2>1, PlacesStep DEF Accounts
<1>2. TypeInv /\ Accounts => NeverAhead
  <2> SUFFICES ASSUME TypeInv, Accounts, NEW s \in Upstream
               PROVE  counted[s] <= Reported(s) + again[s]
    BY DEF NeverAhead
  <2>1. Cardinality(Owed(s)) \in Nat
    BY FS_CardinalityType DEF Accounts, Balance
  <2> QED
    BY <2>1, ReportedCounts DEF Accounts, Balance
<1> QED
  BY <1>1, <1>2, TypeInit, TypeStep, AccountsInit, PTL DEF Spec

-----------------------------------------------------------------------------
(* Undisturbed, nothing is lost on the way to the embeddings.              *)

Past == {"check", "announce", "finalize", "over"}

\* An embedded item is in no other place, but in the batch its worker checks.
Arrived ==
    /\ \A w \in Workers : /\ wpc[w] = "idle" => batch[w] = {}
                          /\ wpc[w] \in Checking => batch[w] \subseteq embedded
                          /\ wpc[w] \in Holding => batch[w] \cap embedded = {}
    /\ embedded \cap waiting = {}
    /\ \A i \in embedded : phase[i.from][i.chunk] \in Past

\* The items that embedding has counted, in a batch or embedded since.
Passed(s) ==
    {i \in Item : i.from = s /\ (\/ i \in embedded
                                 \/ \E w \in Workers : /\ i \in batch[w]
                                                       /\ wpc[w] \in Holding \ Uncounted(s))}

\* A published item is on its way or embedded, and counted accordingly.
OnItsWay ==
    \A s \in Upstream : \A c \in Chunk \ Unchanged[s] : phase[s][c] \in Past =>
        \A i \in Items(s, c) : \/ i \in waiting \/ i \in embedded
                               \/ \E w \in Workers : i \in batch[w]
PassedCounted == \A s \in Upstream : IsFiniteSet(Passed(s)) /\ counted[s] = Cardinality(Passed(s))

Calm == faults = 0 /\ restarts = 0
Undisturbed == Calm => Arrived /\ OnItsWay /\ PassedCounted

\* What an upstream step leaves alone.
LEMMA UpstreamKeeps ==
  ASSUME TypeInv, NEW s \in Upstream, NEW c \in Chunk,
         UpstreamStep(s, c) \/ ChunkFails(s, c) \/ PublishSwallowed(s, c)
  PROVE  /\ UNCHANGED <<batch, wpc, embedded, counted>>
         /\ \A i \in Item : phase[i.from][i.chunk] \in Past => phase'[i.from][i.chunk] \in Past
         /\ \/ waiting' = waiting
            \/ /\ waiting' = waiting \cup Items(s, c)
               /\ phase[s][c] = "publish" /\ phase'[s][c] = "check"
<1>0. phase \in [Upstream -> [Chunk -> Phase]]
  BY DEF TypeInv, TypeOK
<1>1. UNCHANGED <<batch, wpc, embedded, counted>>
  BY DEF UpstreamStep, CountReceived, CallModel, Tally, Publish, Compare, Announce,
         Finalize, ChunkFails, PublishSwallowed
<1>2. ASSUME NEW i \in Item, phase[i.from][i.chunk] \in Past
      PROVE  phase'[i.from][i.chunk] \in Past
  <2>1. i.from \in Upstream /\ i.chunk \in Chunk
    BY DEF Item
  <2> QED
    BY <1>0, <1>2, <2>1 DEF UpstreamStep, CountReceived, CallModel, Tally, Publish, Compare,
       Announce, Finalize, ChunkFails, PublishSwallowed, Past
<1>3. CASE Publish(s, c)
  BY <1>0, <1>1, <1>2, <1>3 DEF Publish
<1>4. CASE ~Publish(s, c)
  <2>1. waiting' = waiting
    BY <1>4 DEF UpstreamStep, CountReceived, CallModel, Tally, Compare, Announce,
       Finalize, ChunkFails, PublishSwallowed
  <2> QED
    BY <1>1, <1>2, <2>1
<1> QED
  BY <1>3, <1>4

\* The steps of an embedding worker, told apart by what they do to its batch.
LEMMA EmbedKinds ==
  ASSUME TypeInv, NEW w \in Workers, EmbedStep(w)
  PROVE  \/ TakeBatch(w) \/ CountEntities(w) \/ CountSummaries(w) \/ Embed(w)
         \/ /\ wpc[w] \in Checking /\ UNCHANGED <<embedded, waiting, counted, phase>>
            /\ \A v \in Workers \ {w} : batch'[v] = batch[v] /\ wpc'[v] = wpc[v]
            /\ \/ batch'[w] = batch[w] /\ wpc'[w] \in Checking
               \/ batch'[w] = {} /\ wpc'[w] = "idle"
<1>0. /\ batch \in [Workers -> SUBSET Item] /\ wpc \in [Workers -> EmbedState]
  BY DEF TypeInv, TypeOK
<1>1. ASSUME NextItem(w)
      PROVE  /\ \A v \in Workers \ {w} : batch'[v] = batch[v] /\ wpc'[v] = wpc[v]
             /\ \/ batch'[w] = batch[w] /\ wpc'[w] \in Checking
                \/ batch'[w] = {} /\ wpc'[w] = "idle"
  BY <1>0, <1>1 DEF NextItem, Checking
<1>2. CASE SkipDone(w) \/ FinalizeEmbedded(w)
  BY <1>1, <1>2 DEF SkipDone, FinalizeEmbedded, Checking
<1>3. CASE ReadUpstream(w)
  <2>1. CASE AllEmbedded(w)
    BY <1>0, <1>3, <2>1 DEF ReadUpstream, Checking
  <2>2. CASE ~AllEmbedded(w)
    BY <1>1, <1>3, <2>2 DEF ReadUpstream, Checking
  <2> QED
    BY <2>1, <2>2
<1>4. CASE ReadOwn(w) \/ AnnounceEmbedded(w)
  BY <1>0, <1>4 DEF ReadOwn, AnnounceEmbedded, Checking
<1> QED
  BY <1>2, <1>3, <1>4 DEF EmbedStep

\* In a calm run no call failed and nothing was restarted.
LEMMA CalmStep ==
  ASSUME TypeInv, [Next]_vars, Calm'
  PROVE  /\ Calm /\ ~Restart
         /\ \A w \in Workers : ~EmbedFault(w)
         /\ \A s \in Upstream, c \in Chunk : ~ChunkFails(s, c) /\ ~PublishSwallowed(s, c)
<1>1. faults \in Nat /\ restarts \in Nat /\ faults' # faults + 1 /\ restarts' # restarts + 1
  BY DEF TypeInv, TypeOK, Calm
<1>2. /\ ~Restart /\ \A w \in Workers : ~EmbedFault(w)
      /\ \A s \in Upstream, c \in Chunk : ~ChunkFails(s, c) /\ ~PublishSwallowed(s, c)
  BY <1>1 DEF Restart, EmbedFault, BatchFails, EmbedSwallowed, CheckFails, EventSwallowed,
              ChunkFails, PublishSwallowed
<1>3. faults' = faults /\ restarts' = restarts
  BY <1>2 DEF Next, Rests, ReportTotal, UpstreamStep, CountReceived, CallModel, Tally, Publish,
     Compare, Announce, Finalize, EmbedStep, TakeBatch, CountEntities, CountSummaries, Count,
     Embed, SkipDone, ReadOwn, ReadUpstream, AnnounceEmbedded, FinalizeEmbedded
<1> QED
  BY <1>2, <1>3 DEF Calm

LEMMA ArrivedStep ==
  ASSUME TypeInv, Places, Arrived, [Next]_vars, Calm'
  PROVE  Arrived'
<1>0. /\ batch \in [Workers -> SUBSET Item] /\ wpc \in [Workers -> EmbedState]
      /\ waiting \subseteq Item /\ embedded \subseteq Item
  BY DEF TypeInv, TypeOK
<1>1. CASE ReportTotal \/ UNCHANGED vars
  BY <1>1 DEF ReportTotal, Arrived
<1>2. ASSUME NEW s \in Upstream, NEW c \in Chunk,
             UpstreamStep(s, c) \/ ChunkFails(s, c) \/ PublishSwallowed(s, c)
      PROVE  Arrived'
  <2>1. embedded \cap waiting' = {}
    <3>1. CASE phase[s][c] = "publish" /\ waiting' = waiting \cup Items(s, c)
      <4>1. \A i \in Items(s, c) : i.from = s /\ i.chunk = c
        BY DEF Items
      <4> QED
        BY <3>1, <4>1 DEF Arrived, Past
    <3> QED
      BY <1>2, <3>1, UpstreamKeeps DEF Arrived
  <2> QED
    BY <1>0, <1>2, <2>1, UpstreamKeeps DEF Arrived
<1>3. ASSUME NEW w \in Workers, EmbedStep(w)
      PROVE  Arrived'
  <2>1. CASE TakeBatch(w)
    <3>1. PICK B \in SUBSET waiting :
             /\ batch' = [batch EXCEPT ![w] = B] /\ waiting' = waiting \ B
             /\ wpc' = [wpc EXCEPT ![w] = IF OfKind(B, "extraction") # {} THEN "entities"
                                          ELSE "summaries"]
      BY <2>1 DEF TakeBatch
    <3>2. embedded' = embedded /\ phase' = phase
      BY <2>1 DEF TakeBatch
    <3> QED
      BY <1>0, <3>1, <3>2 DEF Arrived, Holding, Checking
  <2>2. CASE CountEntities(w) \/ CountSummaries(w)
    BY <1>0, <2>2 DEF CountEntities, CountSummaries, Count, Arrived, Holding, Checking
  <2>3. CASE Embed(w)
    <3>1. /\ wpc[w] = "embed" /\ wpc' = [wpc EXCEPT ![w] = "check"]
          /\ embedded' = embedded \cup batch[w] /\ UNCHANGED <<batch, waiting, phase>>
      BY <2>3 DEF Embed
    <3>2. \A v \in Workers \ {w} : batch[v] \cap batch[w] = {}
      BY DEF Places
    <3>3. batch[w] \cap waiting = {} /\ \A i \in batch[w] : phase[i.from][i.chunk] \in Past
      BY <1>0 DEF Places, Past
    <3> QED
      BY <1>0, <3>1, <3>2, <3>3 DEF Arrived, Holding, Checking
  <2>5. CASE /\ wpc[w] \in Checking /\ UNCHANGED <<embedded, waiting, counted, phase>>
             /\ \A v \in Workers \ {w} : batch'[v] = batch[v] /\ wpc'[v] = wpc[v]
             /\ \/ batch'[w] = batch[w] /\ wpc'[w] \in Checking
                \/ batch'[w] = {} /\ wpc'[w] = "idle"
    BY <2>5 DEF Arrived, Holding, Checking
  <2> QED
    BY <1>3, <2>1, <2>2, <2>3, <2>5, EmbedKinds
<1> QED
  BY <1>1, <1>2, <1>3, CalmStep DEF Next, Rests

LEMMA OnItsWayStep ==
  ASSUME TypeInv, Arrived, OnItsWay, [Next]_vars, Calm'
  PROVE  OnItsWay'
<1>0. /\ batch \in [Workers -> SUBSET Item] /\ phase \in [Upstream -> [Chunk -> Phase]]
  BY DEF TypeInv, TypeOK
<1>1. CASE ReportTotal \/ UNCHANGED vars
  BY <1>1 DEF ReportTotal, OnItsWay
<1>2. ASSUME NEW s \in Upstream, NEW c \in Chunk,
             UpstreamStep(s, c) \/ ChunkFails(s, c) \/ PublishSwallowed(s, c)
      PROVE  OnItsWay'
  <2>1. UpstreamStep(s, c)
    BY <1>2, CalmStep
  <2>2. waiting \subseteq waiting' /\ UNCHANGED <<batch, embedded>>
    BY <1>2, UpstreamKeeps
  <2>3. ASSUME NEW u \in Upstream, NEW d \in Chunk \ Unchanged[u],
               phase'[u][d] \in Past, phase[u][d] \notin Past
        PROVE  Items(u, d) \subseteq waiting'
    <3>1. u = s /\ d = c
      BY <1>0, <2>1, <2>3 DEF UpstreamStep, CountReceived, CallModel, Tally, Publish, Compare,
         Announce, Finalize
    <3>2. Publish(s, c)
      BY <1>0, <2>1, <2>3, <3>1 DEF UpstreamStep, CountReceived, CallModel, Tally, Compare,
         Announce, Finalize, Past
    <3> QED
      BY <3>1, <3>2 DEF Publish
  <2> QED
    BY <2>2, <2>3 DEF OnItsWay
<1>3. ASSUME NEW w \in Workers, EmbedStep(w)
      PROVE  OnItsWay'
  <2>1. phase' = phase
    BY <1>3 DEF EmbedStep, TakeBatch, CountEntities, CountSummaries, Count, Embed, SkipDone,
       ReadOwn, ReadUpstream, AnnounceEmbedded, FinalizeEmbedded, EmbedFault, BatchFails, EmbedSwallowed,
           CheckFails, EventSwallowed
  <2>3. ASSUME NEW i, i \in waiting \/ i \in embedded \/ \E v \in Workers : i \in batch[v]
        PROVE  i \in waiting' \/ i \in embedded' \/ \E v \in Workers : i \in batch'[v]
    <3>1. CASE TakeBatch(w)
      <4>1. PICK B \in SUBSET waiting : batch' = [batch EXCEPT ![w] = B] /\ waiting' = waiting \ B
        BY <3>1 DEF TakeBatch
      <4>2. embedded' = embedded /\ batch[w] = {}
        BY <3>1 DEF TakeBatch, Arrived
      <4>3. \A v \in Workers \ {w} : batch'[v] = batch[v]
        BY <1>0, <4>1
      <4>4. batch'[w] = B
        BY <1>0, <4>1
      <4> QED
        BY <2>3, <4>1, <4>2, <4>3, <4>4
    <3>2. CASE CountEntities(w) \/ CountSummaries(w) \/ Embed(w)
      BY <2>3, <3>2 DEF CountEntities, CountSummaries, Count, Embed
    <3>3. CASE /\ wpc[w] \in Checking /\ UNCHANGED <<embedded, waiting, counted, phase>>
               /\ \A v \in Workers \ {w} : batch'[v] = batch[v] /\ wpc'[v] = wpc[v]
               /\ \/ batch'[w] = batch[w] /\ wpc'[w] \in Checking
                  \/ batch'[w] = {} /\ wpc'[w] = "idle"
      <4>1. batch[w] \subseteq embedded
        BY <3>3 DEF Arrived
      <4> QED
        BY <2>3, <3>3, <4>1
    <3> QED
      BY <1>3, <3>1, <3>2, <3>3, EmbedKinds
  <2> QED
    BY <2>1, <2>3 DEF OnItsWay
<1> QED
  BY <1>1, <1>2, <1>3, CalmStep DEF Next, Rests

\* Counting a kind adds just the items of the batch to those counted.
LEMMA PassedStep ==
  ASSUME TypeInv, Places, Arrived, PassedCounted, [Next]_vars, Calm'
  PROVE  PassedCounted'
<1>0. /\ batch \in [Workers -> SUBSET Item] /\ wpc \in [Workers -> EmbedState]
      /\ counted \in [Upstream -> Nat]
      /\ \A v \in Workers : IsFiniteSet(batch[v])
  BY DEF TypeInv, TypeOK, Bounded
<1>a. ASSUME NEW u \in Upstream, Passed(u)' = Passed(u), counted'[u] = counted[u]
      PROVE  IsFiniteSet(Passed(u)') /\ counted'[u] = Cardinality(Passed(u)')
  BY <1>a DEF PassedCounted
<1>1. CASE ReportTotal \/ UNCHANGED vars
  BY <1>1 DEF ReportTotal, PassedCounted, Passed
<1>2. ASSUME NEW s \in Upstream, NEW c \in Chunk,
             UpstreamStep(s, c) \/ ChunkFails(s, c) \/ PublishSwallowed(s, c)
      PROVE  PassedCounted'
  BY <1>2, UpstreamKeeps DEF PassedCounted, Passed
<1>3. ASSUME NEW w \in Workers, EmbedStep(w)
      PROVE  PassedCounted'
  <2> SUFFICES ASSUME NEW u \in Upstream
               PROVE  IsFiniteSet(Passed(u)') /\ counted'[u] = Cardinality(Passed(u)')
    BY DEF PassedCounted
  <2>2. CASE TakeBatch(w)
    <3>1. PICK B \in SUBSET waiting :
             /\ batch' = [batch EXCEPT ![w] = B]
             /\ wpc' = [wpc EXCEPT ![w] = IF OfKind(B, "extraction") # {} THEN "entities"
                                          ELSE "summaries"]
      BY <2>2 DEF TakeBatch
    <3>2. embedded' = embedded /\ counted' = counted /\ wpc[w] = "idle"
      BY <2>2 DEF TakeBatch
    <3>3. \A v \in Workers \ {w} : batch'[v] = batch[v] /\ wpc'[v] = wpc[v]
      BY <1>0, <3>1
    <3>4. ASSUME NEW i \in Item, i.from = u, i \in batch'[w] PROVE wpc'[w] \notin Holding \ Uncounted(u)
      BY <1>0, <3>1, <3>4 DEF OfKind, Uncounted, Holding
    <3>5. wpc[w] \notin Holding
      BY <3>2 DEF Holding
    <3>6. Passed(u)' = Passed(u)
      BY <3>2, <3>3, <3>4, <3>5 DEF Passed
    <3> QED
      BY <1>a, <3>2, <3>6
  <2>3. ASSUME NEW s \in Upstream, NEW here, NEW there, Count(w, here, s, there),
               here \in Uncounted(s), there \in Holding \ Uncounted(s),
               u # s /\ OfKind(batch[w], u) # {} => (here \in Uncounted(u) <=> there \in Uncounted(u)),
               here \in Holding
        PROVE  IsFiniteSet(Passed(u)') /\ counted'[u] = Cardinality(Passed(u)')
    <3>1. /\ embedded' = embedded /\ batch' = batch /\ wpc[w] = here
          /\ wpc' = [wpc EXCEPT ![w] = there]
          /\ counted' = [counted EXCEPT ![s] = @ + Cardinality(OfKind(batch[w], s))]
      BY <2>3 DEF Count
    <3>2. wpc'[w] = there /\ \A v \in Workers \ {w} : wpc'[v] = wpc[v]
      BY <1>0, <3>1
    <3>3. CASE u # s
      <4>1. ASSUME NEW i \in Item, i.from = u, i \in batch[w]
            PROVE  wpc'[w] \in Holding \ Uncounted(u) <=> wpc[w] \in Holding \ Uncounted(u)
        BY <2>3, <3>1, <3>2, <3>3, <4>1 DEF OfKind
      <4>2. Passed(u)' = Passed(u)
        BY <3>1, <3>2, <4>1 DEF Passed
      <4>3. counted'[u] = counted[u]
        BY <1>0, <3>1, <3>3
      <4> QED
        BY <1>a, <4>2, <4>3
    <3>4. CASE u = s
      <4> DEFINE P == Passed(u)
                 D == OfKind(batch[w], u)
      <4>1. Passed(u)' = P \cup D
        <5>1. ASSUME NEW i \in Item, i.from = u, i \in batch[w]
              PROVE  wpc'[w] \in Holding \ Uncounted(u) /\ i \in D
          BY <2>3, <3>2, <3>4, <5>1 DEF OfKind
        <5>2. ASSUME NEW i \in D PROVE i \in Item /\ i.from = u /\ i \in batch[w]
          BY <1>0 DEF OfKind
        <5> QED
          BY <3>1, <3>2, <5>1, <5>2 DEF Passed
      <4>2. P \cap D = {}
        <5>1. ASSUME NEW i \in D, i \in P PROVE FALSE
          <6>1. i \in batch[w] /\ i \notin embedded
            BY <2>3, <3>1, <5>1 DEF OfKind, Arrived
          <6>2. \A v \in Workers \ {w} : i \notin batch[v]
            BY <6>1 DEF Places
          <6>3. wpc[w] \notin Holding \ Uncounted(u)
            BY <2>3, <3>1, <3>4
          <6> QED
            BY <5>1, <6>1, <6>2, <6>3 DEF Passed
        <5> QED
          BY <5>1
      <4>3. IsFiniteSet(P) /\ counted[u] = Cardinality(P) /\ IsFiniteSet(D)
        BY <1>0, FS_Subset DEF PassedCounted, OfKind
      <4>4. IsFiniteSet(P \cup D) /\ Cardinality(P \cup D) = Cardinality(P) + Cardinality(D)
        <5> HIDE DEF P, D
        <5>1. /\ IsFiniteSet(P \cup D)
              /\ Cardinality(P \cup D) = Cardinality(P) + Cardinality(D) - Cardinality(P \cap D)
          BY <4>3, FS_Union
        <5>2. Cardinality(P \cap D) = 0 /\ Cardinality(P) \in Nat /\ Cardinality(D) \in Nat
          BY <4>2, <4>3, FS_EmptySet, FS_CardinalityType
        <5> QED
          BY <5>1, <5>2
      <4>5. counted'[u] = counted[u] + Cardinality(D)
        BY <1>0, <3>1, <3>4
      <4> QED
        BY <4>1, <4>3, <4>4, <4>5
    <3> QED
      BY <3>3, <3>4
  <2>4. CASE CountEntities(w)
    <3>1. PICK there \in {"summaries", "embed"} :
             /\ Count(w, "entities", "extraction", there)
             /\ there = "embed" => OfKind(batch[w], "summarization") = {}
      BY <2>4 DEF CountEntities
    <3> QED
      BY <2>3, <3>1 DEF Uncounted, Holding
  <2>5. CASE CountSummaries(w)
    <3>1. Count(w, "summaries", "summarization", "embed")
      BY <2>5 DEF CountSummaries
    <3> QED
      BY <2>3, <3>1 DEF Uncounted, Holding
  <2>6. CASE Embed(w)
    <3>1. /\ wpc[w] = "embed" /\ wpc' = [wpc EXCEPT ![w] = "check"] /\ counted' = counted
          /\ embedded' = embedded \cup batch[w] /\ batch' = batch
      BY <2>6 DEF Embed
    <3>2. wpc'[w] = "check" /\ \A v \in Workers \ {w} : wpc'[v] = wpc[v]
      BY <1>0, <3>1
    <3>3. "embed" \in Holding \ Uncounted(u) /\ "check" \notin Holding
      BY DEF Uncounted, Holding
    <3>4. Passed(u)' = Passed(u)
      BY <3>1, <3>2, <3>3 DEF Passed
    <3> QED
      BY <1>a, <3>1, <3>4
  <2>7. CASE /\ wpc[w] \in Checking /\ UNCHANGED <<embedded, waiting, counted, phase>>
             /\ \A v \in Workers \ {w} : batch'[v] = batch[v] /\ wpc'[v] = wpc[v]
             /\ \/ batch'[w] = batch[w] /\ wpc'[w] \in Checking
                \/ batch'[w] = {} /\ wpc'[w] = "idle"
    <3>1. wpc[w] \notin Holding /\ wpc'[w] \notin Holding
      BY <2>7 DEF Checking, Holding
    <3>2. Passed(u)' = Passed(u)
      BY <2>7, <3>1 DEF Passed
    <3> QED
      BY <1>a, <2>7, <3>2
  <2> QED
    BY <1>3, <2>2, <2>4, <2>5, <2>6, <2>7, EmbedKinds
<1> QED
  BY <1>1, <1>2, <1>3, CalmStep DEF Next, Rests

Travels == Places /\ Undisturbed

LEMMA TravelsInit == Init => Travels
<1> SUFFICES ASSUME Init PROVE Travels
  OBVIOUS
<1>1. Places /\ Arrived /\ OnItsWay
  BY DEF Init, Places, Arrived, OnItsWay, Past, Checking, Holding
<1>2. ASSUME NEW s \in Upstream PROVE IsFiniteSet(Passed(s)) /\ counted[s] = Cardinality(Passed(s))
  <2>1. Passed(s) = {} /\ counted[s] = 0
    BY DEF Init, Passed
  <2> QED
    BY <2>1, FS_EmptySet
<1> QED
  BY <1>1, <1>2 DEF Travels, Undisturbed, PassedCounted

\* When no call failed, the service ran through and everything is at rest, every item of every
\* chunk that had a result is embedded, and counted by its kind.
THEOREM NothingLostHolds == Spec => []NothingLost
<1>1. TypeInv /\ Travels /\ [Next]_vars => Travels'
  BY PlacesStep, CalmStep, ArrivedStep, OnItsWayStep, PassedStep DEF Travels, Undisturbed
<1>2. TypeInv /\ Travels => NothingLost
  <2> SUFFICES ASSUME TypeInv, Travels, ChainQuiet, Calm, NEW s \in Upstream
               PROVE  /\ \A c \in Chunk \ Unchanged[s] : Items(s, c) \subseteq embedded
                      /\ counted[s] = Cardinality(OfKind(embedded, s))
    BY DEF NothingLost, Calm
  <2>1. waiting = {} /\ \A w \in Workers : batch[w] = {}
    BY DEF ChainQuiet, Travels, Undisturbed, Arrived
  <2>2. ASSUME NEW c \in Chunk \ Unchanged[s] PROVE Items(s, c) \subseteq embedded
    <3>1. phase[s][c] \in Past
      BY DEF ChainQuiet, Past
    <3> QED
      BY <2>1, <3>1 DEF Travels, Undisturbed, OnItsWay
  <2>3. Passed(s) = OfKind(embedded, s)
    BY <2>1 DEF Passed, OfKind, TypeInv, TypeOK
  <2> QED
    BY <2>2, <2>3 DEF Travels, Undisturbed, PassedCounted
<1> QED
  BY <1>1, <1>2, TypeInit, TypeStep, TravelsInit, PTL DEF Spec
=============================================================================
