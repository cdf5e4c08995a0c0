------------------------ MODULE ChunkWorkers_proofs ------------------------
(***************************************************************************)
(* Proofs about ChunkWorkers, for any number of workers, any log and any   *)
(* number of faults, crashes and graceful restarts.                        *)
(***************************************************************************)
EXTENDS ChunkWorkers, FiniteSetTheorems, TLAPS

Holding == TypeOK /\ OffsetsOrdered /\ OneHolder

USE DEF NotSet

LEMMA LogType == N \in Nat /\ \A i \in 1..N : Log[i] \in Chunk
  BY ConstantsAssumption DEF N

LEMMA InitHolding == Init => Holding
  BY LogType DEF Init, Holding, TypeOK, OffsetsOrdered, OneHolder, Busy, WorkerState

\* Every step keeps the offsets ordered and the workers on distinct offsets.
LEMMA StepHolding == Holding /\ [Next]_vars => Holding'
<1> SUFFICES ASSUME Holding, [Next]_vars PROVE Holding'
  OBVIOUS
<1> USE DEF Holding, TypeOK, OffsetsOrdered, OneHolder, Busy, WorkerState, Goto
<1> USE LogType
<1>1. CASE Preprocessor
  <2>1. CASE Arrive
    BY <2>1 DEF Arrive, feedVars, workVars, dbVars, outVars, budget
  <2>2. CASE ReportTotal
    <3>1. Total \in Nat
      BY ConstantsAssumption, LogType DEF N
    <3> QED
      BY <2>2, <3>1 DEF ReportTotal, feedVars, workVars, dbVars, outVars, budget
  <2> QED
    BY <1>1, <2>1, <2>2 DEF Preprocessor
<1>2. CASE Fetch
  BY <1>2 DEF Fetch, Fetchable, envVars, workVars, dbVars, outVars, budget
<1>3. CASE Enqueue
  BY <1>3 DEF Enqueue, envVars, workVars, dbVars, outVars, budget
<1>4. CASE CommitPosition
  BY <1>4 DEF CommitPosition, envVars, workVars, dbVars, outVars, budget
<1>5. CASE Crash \/ StopAndRestart
  BY <1>5 DEF Crash, StopAndRestart, Restart, envVars, dbVars, outVars
<1>6. CASE Signal
  BY <1>6 DEF Signal, envVars, workVars, dbVars, outVars
<1>7. ASSUME NEW w \in Workers, Worker(w) PROVE Holding'
  <2>1. CASE Take(w)
    BY <2>1 DEF Take, envVars, feedVars, dbVars, outVars, budget
  <2>2. CASE CountReceived(w)
    BY <2>2 DEF CountReceived, envVars, feedVars, outVars, budget
  <2>3. CASE StartExtract(w)
    BY <2>3 DEF StartExtract, envVars, feedVars, dbVars, outVars, budget
  <2>4. CASE ExtractGraph(w)
    BY <2>4 DEF ExtractGraph, envVars, feedVars, dbVars, outVars, budget
  <2>5. CASE SaveCheckpoint(w)
    <3>1. ChunkOf(w) \in Chunk
      BY <2>5 DEF SaveCheckpoint, ChunkOf
    <3> QED
      BY <2>5, <3>1 DEF SaveCheckpoint, envVars, feedVars, outVars, budget
  <2>6. CASE TallyEntities(w) \/ TallyEdges(w)
    BY <2>6 DEF TallyEntities, TallyEdges, envVars, feedVars, outVars, budget
  <2>7. CASE Publish(w)
    <3>1. ChunkOf(w) \in Chunk
      BY <2>7 DEF Publish, ChunkOf
    <3>2. published' \in [Chunk -> Nat]
      BY <2>7, <3>1 DEF Publish
    <3> QED
      BY <2>7, <3>2 DEF Publish, envVars, feedVars, dbVars, budget
  <2>8. CASE CheckDone(w) \/ ReadReceived(w) \/ ReadTotal(w)
    BY <2>8 DEF CheckDone, ReadReceived, ReadTotal, envVars, feedVars, dbVars, outVars, budget
  <2>9. CASE MarkDone(w) \/ EmitComplete(w) \/ FinalizeCounters(w)
    BY <2>9 DEF MarkDone, EmitComplete, FinalizeCounters, envVars, feedVars, dbVars,
                outVars, budget
  <2> QED
    BY <1>7, <2>1, <2>2, <2>3, <2>4, <2>5, <2>6, <2>7, <2>8, <2>9 DEF Worker
<1>8. ASSUME NEW w \in Workers, WorkerFault(w) PROVE Holding'
  BY <1>8 DEF WorkerFault, ExtractRaises, PublishSwallowed, StoreRaises, envVars,
              feedVars, dbVars, outVars
<1>9. CASE Rests \/ UNCHANGED vars
  BY <1>9 DEF Rests, vars, envVars, feedVars, workVars, dbVars, outVars, budget
<1> QED
  BY <1>1, <1>2, <1>3, <1>4, <1>5, <1>6, <1>7, <1>8, <1>9 DEF Next, Consume

\* Type correctness, with the order of the offsets and the distinct holders.
THEOREM AlwaysHolding == Spec => []Holding
  BY InitHolding, StepHolding, PTL DEF Spec

\* Every reachable state is well typed.
THEOREM TypeCorrect == Spec => []TypeOK
<1>1. Holding => TypeOK
  BY DEF Holding
<1> QED
  BY <1>1, AlwaysHolding, PTL

-----------------------------------------------------------------------------
(* At most one publication of a chunk, across crashes.                     *)

Gated == CheckpointGate /\ \A c \in Chunk : published[c] <= 1

\* Two busy workers hold distinct chunks when the topic holds no chunk twice.
LEMMA DistinctChunks ==
  ASSUME Holding, Injective, NEW v \in Workers, NEW w \in Workers, v # w,
         Busy(v), Busy(w)
  PROVE  /\ ChunkOf(v) \in Chunk /\ ChunkOf(w) \in Chunk
         /\ ChunkOf(v) # ChunkOf(w)
<1>1. cur[v] \in 1..N /\ cur[w] \in 1..N /\ cur[v] # cur[w]
  BY LogType DEF Holding, TypeOK, OneHolder
<1> QED
  BY <1>1, LogType DEF Injective, ChunkOf

LEMMA BusyChunk ==
  ASSUME Holding, NEW w \in Workers, Busy(w)
  PROVE  ChunkOf(w) \in Chunk
  BY LogType DEF Holding, TypeOK, OneHolder, ChunkOf

\* A step that leaves the outputs and the checkpoints alone keeps the gate if
\* no worker enters a state behind the checkpoint lookup.
LEMMA QuietStep ==
  ASSUME Gated,
         UNCHANGED <<published, checkpoints>>,
         \A w \in Workers : wpc'[w] \in {"llm", "save", "entities", "edges", "publish"} =>
             wpc'[w] = wpc[w] /\ cur'[w] = cur[w]
  PROVE  Gated'
  BY DEF Gated, CheckpointGate, ChunkOf

LEMMA StepGated == Holding /\ Injective /\ Gated /\ [Next]_vars => Gated'
<1> SUFFICES ASSUME Holding, Injective, Gated, [Next]_vars PROVE Gated'
  OBVIOUS
<1>0. wpc \in [Workers -> WorkerState] /\ cur \in [Workers -> 0..N]
  BY DEF Holding, TypeOK
<1> USE DEF Goto
<1>1. CASE Preprocessor \/ Fetch \/ Enqueue \/ CommitPosition \/ Signal
  BY <1>1, QuietStep DEF Preprocessor, Arrive, ReportTotal, Fetch, Enqueue,
     CommitPosition, Signal, workVars, dbVars, outVars
<1>2. CASE Crash \/ StopAndRestart
  BY <1>2, QuietStep DEF Crash, StopAndRestart, Restart, dbVars, outVars
<1>3. ASSUME NEW w \in Workers, Worker(w) PROVE Gated'
  <2>1. CASE Take(w) \/ CountReceived(w)
    BY <2>1, <1>0, QuietStep DEF Take, CountReceived, dbVars, outVars
  <2>2. CASE StartExtract(w)
    BY <2>2, <1>0 DEF StartExtract, Skipped, Gated, CheckpointGate, ChunkOf, dbVars, outVars
  <2>3. CASE ExtractGraph(w)
    BY <2>3, <1>0 DEF ExtractGraph, Gated, CheckpointGate, ChunkOf, dbVars, outVars
  <2>4. CASE SaveCheckpoint(w)
    <3>1. Busy(w) /\ ChunkOf(w) \in Chunk
      BY <2>4, BusyChunk DEF SaveCheckpoint, Busy
    <3>2. published[ChunkOf(w)] = 0
      BY <2>4, <3>1 DEF SaveCheckpoint, Gated, CheckpointGate, Holding, TypeOK
    <3>3. \A v \in Workers \ {w} : Busy(v) => ChunkOf(v) # ChunkOf(w)
      BY <3>1, DistinctChunks
    <3> QED
      BY <2>4, <1>0, <3>1, <3>2, <3>3
      DEF SaveCheckpoint, Gated, CheckpointGate, ChunkOf, Busy, outVars
  <2>5. CASE TallyEntities(w) \/ TallyEdges(w)
    BY <2>5, <1>0 DEF TallyEntities, TallyEdges, Gated, CheckpointGate, ChunkOf, outVars
  <2>6. CASE Publish(w)
    <3>1. Busy(w) /\ ChunkOf(w) \in Chunk
      BY <2>6, BusyChunk DEF Publish, Busy
    <3>2. published[ChunkOf(w)] = 0 /\ ChunkOf(w) \in checkpoints
      BY <2>6 DEF Publish, Gated, CheckpointGate
    <3>3. \A v \in Workers \ {w} : Busy(v) => ChunkOf(v) # ChunkOf(w)
      BY <3>1, DistinctChunks
    <3>4. \A c \in Chunk : published'[c] = IF c = ChunkOf(w) THEN 1 ELSE published[c]
      BY <2>6, <3>2 DEF Publish, Holding, TypeOK
    <3>5. \A v \in Workers : /\ v # w => wpc'[v] = wpc[v] /\ ChunkOf(v)' = ChunkOf(v)
                             /\ wpc'[w] = "check"
      BY <2>6, <1>0 DEF Publish, ChunkOf
    <3>6. \A v \in Workers : v # w /\ Busy(v) => ChunkOf(v) \in Chunk
      BY BusyChunk
    <3>7. checkpoints' = checkpoints
      BY <2>6 DEF Publish, dbVars
    <3>8. \A v \in Workers : wpc'[v] \in {"entities", "edges", "publish"} =>
             ChunkOf(v)' \in checkpoints' /\ published'[ChunkOf(v)'] = 0
      BY <3>3, <3>4, <3>5, <3>6, <3>7 DEF Gated, CheckpointGate, Busy
    <3> QED
      BY <3>2, <3>4, <3>5, <3>7, <3>8 DEF Gated, CheckpointGate
  <2>7. CASE CheckDone(w) \/ ReadReceived(w) \/ ReadTotal(w)
    BY <2>7, <1>0, QuietStep DEF CheckDone, ReadReceived, ReadTotal, dbVars, outVars
  <2>8. CASE MarkDone(w) \/ EmitComplete(w) \/ FinalizeCounters(w)
    BY <2>8, <1>0, QuietStep DEF MarkDone, EmitComplete, FinalizeCounters, dbVars, outVars
  <2> QED
    BY <1>3, <2>1, <2>2, <2>3, <2>4, <2>5, <2>6, <2>7, <2>8 DEF Worker
<1>4. ASSUME NEW w \in Workers, WorkerFault(w) PROVE Gated'
  BY <1>4, <1>0, QuietStep DEF WorkerFault, ExtractRaises, PublishSwallowed,
     StoreRaises, dbVars, outVars
<1>5. CASE Rests \/ UNCHANGED vars
  BY <1>5, QuietStep DEF Rests, vars, workVars, dbVars, outVars
<1> QED
  BY <1>1, <1>2, <1>3, <1>4, <1>5 DEF Next, Consume

\* The inductive invariant that the run checks holds for every instance.
THEOREM AlwaysInv == Spec => []Inv
<1>1. Init => (Injective => Gated)
  BY DEF Init, Gated, CheckpointGate
<1>2. Holding /\ (Injective => Gated) /\ [Next]_vars => (Injective => Gated)'
  BY StepGated DEF Injective
<1>3. Holding /\ (Injective => Gated) => Inv
  BY DEF Holding, Gated, PublishedOnce, Inv
<1> QED
  BY <1>1, <1>2, <1>3, AlwaysHolding, PTL DEF Spec

\* However often the service crashes and reads the topic again, a chunk that
\* the topic holds once is published at most once.
THEOREM AtMostOnce == Spec => []PublishedOnce
<1>1. Inv => PublishedOnce
  BY DEF Inv, PublishedOnce
<1> QED
  BY <1>1, AlwaysInv, PTL

-----------------------------------------------------------------------------
(* The counters cover the output.  A worker on its way from one counter to *)
(* the next stands for the increment that is still owed: each step hands   *)
(* it over, and a fault or a crash only drops it.                          *)

\* Workers that will still increment a counter or give up ...
BeforeEntities == {w \in Workers : wpc[w] \in {"extract", "llm", "save", "entities"}}
BeforeEdges == {w \in Workers : wpc[w] \in {"extract", "llm", "save", "entities", "edges"}}

\* ... and workers that have, with their chunk still to be published.
PaidEntities == {w \in Workers : wpc[w] \in {"edges", "publish"} /\ ChunkOf(w) \in WithEntities}
PaidEdges == {w \in Workers : wpc[w] = "publish" /\ ChunkOf(w) \in WithEdges}

\* One counter covers the chunks of C published and the workers P that paid.
Covers(counter, C, P, B) ==
    /\ counter \in Nat
    /\ counter + Cardinality(B) <= received
    /\ IsFiniteSet(Output(C))
    /\ Cardinality(Output(C)) + Cardinality(P) <= counter

Covered ==
    /\ Covers(entities, WithEntities, PaidEntities, BeforeEntities)
    /\ Covers(edges, WithEdges, PaidEdges, BeforeEdges)

\* What one element more or less does to the size of a set.
LEMMA Sizes ==
  ASSUME NEW S, IsFiniteSet(S), NEW T, NEW x
  PROVE  /\ Cardinality(S) \in Nat
         /\ T \subseteq S \cup {x} =>
                IsFiniteSet(T) /\ Cardinality(T) \in Nat /\ Cardinality(T) <= Cardinality(S) + 1
         /\ T \subseteq S => IsFiniteSet(T) /\ Cardinality(T) \in Nat /\ Cardinality(T) <= Cardinality(S)
         /\ x \in S /\ T \subseteq S \ {x} =>
                IsFiniteSet(T) /\ Cardinality(T) \in Nat /\ Cardinality(T) + 1 <= Cardinality(S)
<1>1. Cardinality(S) \in Nat
  BY FS_CardinalityType
<1>2. ASSUME T \subseteq S \cup {x}
      PROVE  IsFiniteSet(T) /\ Cardinality(T) \in Nat /\ Cardinality(T) <= Cardinality(S) + 1
  <2>1. IsFiniteSet(S \cup {x}) /\ Cardinality(S \cup {x}) <= Cardinality(S) + 1
    BY <1>1, FS_AddElement
  <2>2. IsFiniteSet(T) /\ Cardinality(T) <= Cardinality(S \cup {x})
    BY <1>2, <2>1, FS_Subset
  <2>3. Cardinality(T) \in Nat /\ Cardinality(S \cup {x}) \in Nat
    BY <2>1, <2>2, FS_CardinalityType
  <2> QED
    BY <1>1, <2>1, <2>2, <2>3
<1>3. ASSUME T \subseteq S
      PROVE  IsFiniteSet(T) /\ Cardinality(T) \in Nat /\ Cardinality(T) <= Cardinality(S)
  BY <1>3, FS_Subset, FS_CardinalityType
<1>4. ASSUME x \in S, T \subseteq S \ {x}
      PROVE  IsFiniteSet(T) /\ Cardinality(T) \in Nat /\ Cardinality(T) + 1 <= Cardinality(S)
  <2>1. IsFiniteSet(S \ {x}) /\ Cardinality(S \ {x}) = Cardinality(S) - 1
    BY <1>4, FS_RemoveElement
  <2>2. IsFiniteSet(T) /\ Cardinality(T) <= Cardinality(S \ {x}) /\ Cardinality(T) \in Nat
    BY <1>4, <2>1, FS_Subset, FS_CardinalityType
  <2> QED
    BY <1>1, <2>1, <2>2
<1> QED
  BY <1>1, <1>2, <1>3, <1>4

LEMMA WorkersFinite ==
  ASSUME NEW S, S \subseteq Workers
  PROVE  IsFiniteSet(S) /\ Cardinality(S) \in Nat
  BY ConstantsAssumption, FS_Subset, FS_CardinalityType

\* What a step may do to one counter.  The sets belong to it: B the workers
\* before the increment, P those behind it, O the chunks published.
Hands(counter, counter2, rec, rec2, B, B2, P, P2, O, O2) ==
    \/ rec2 = rec /\ counter2 = counter /\ B2 \subseteq B /\ P2 \subseteq P /\ O2 = O
    \/ \E w : rec2 = rec + 1 /\ counter2 = counter /\ B2 \subseteq B \cup {w} /\ P2 \subseteq P /\ O2 = O
    \/ \E w \in B : /\ rec2 = rec /\ counter2 = counter + 1
                   /\ B2 \subseteq B \ {w} /\ P2 \subseteq P \cup {w} /\ O2 = O
    \/ \E w \in P : \E c : /\ rec2 = rec /\ counter2 = counter /\ B2 \subseteq B
                          /\ P2 \subseteq P \ {w} /\ O2 \subseteq O \cup {c}

LEMMA HandsCover ==
  ASSUME NEW n \in Nat, NEW n2, NEW m \in Nat, NEW m2,
         NEW B, NEW B2, NEW P, NEW P2, NEW O, NEW O2,
         IsFiniteSet(B), IsFiniteSet(P), IsFiniteSet(O),
         n + Cardinality(B) <= m, Cardinality(O) + Cardinality(P) <= n,
         Hands(n, n2, m, m2, B, B2, P, P2, O, O2)
  PROVE  /\ n2 \in Nat /\ n2 + Cardinality(B2) <= m2
         /\ IsFiniteSet(O2) /\ Cardinality(O2) + Cardinality(P2) <= n2
<1>0. Cardinality(B) \in Nat /\ Cardinality(P) \in Nat /\ Cardinality(O) \in Nat
  BY FS_CardinalityType
<1>1. CASE m2 = m /\ n2 = n /\ B2 \subseteq B /\ P2 \subseteq P /\ O2 = O
  <2>1. /\ Cardinality(B2) \in Nat /\ Cardinality(B2) <= Cardinality(B)
        /\ Cardinality(P2) \in Nat /\ Cardinality(P2) <= Cardinality(P)
    BY <1>1, Sizes
  <2> QED
    BY <1>0, <1>1, <2>1
<1>2. ASSUME NEW w, m2 = m + 1, n2 = n, B2 \subseteq B \cup {w}, P2 \subseteq P, O2 = O
      PROVE  /\ n2 \in Nat /\ n2 + Cardinality(B2) <= m2
             /\ IsFiniteSet(O2) /\ Cardinality(O2) + Cardinality(P2) <= n2
  <2>1. /\ Cardinality(B2) \in Nat /\ Cardinality(B2) <= Cardinality(B) + 1
        /\ Cardinality(P2) \in Nat /\ Cardinality(P2) <= Cardinality(P)
    BY <1>2, Sizes
  <2> QED
    BY <1>0, <1>2, <2>1
<1>3. ASSUME NEW w \in B, m2 = m, n2 = n + 1, B2 \subseteq B \ {w}, P2 \subseteq P \cup {w}, O2 = O
      PROVE  /\ n2 \in Nat /\ n2 + Cardinality(B2) <= m2
             /\ IsFiniteSet(O2) /\ Cardinality(O2) + Cardinality(P2) <= n2
  <2>1. /\ Cardinality(B2) \in Nat /\ Cardinality(B2) + 1 <= Cardinality(B)
        /\ Cardinality(P2) \in Nat /\ Cardinality(P2) <= Cardinality(P) + 1
    BY <1>3, Sizes
  <2> QED
    BY <1>0, <1>3, <2>1
<1>4. ASSUME NEW w \in P, NEW c, m2 = m, n2 = n, B2 \subseteq B, P2 \subseteq P \ {w},
             O2 \subseteq O \cup {c}
      PROVE  /\ n2 \in Nat /\ n2 + Cardinality(B2) <= m2
             /\ IsFiniteSet(O2) /\ Cardinality(O2) + Cardinality(P2) <= n2
  <2>1. /\ Cardinality(B2) \in Nat /\ Cardinality(B2) <= Cardinality(B)
        /\ Cardinality(P2) \in Nat /\ Cardinality(P2) + 1 <= Cardinality(P)
    BY <1>4, Sizes
  <2>2. IsFiniteSet(O2) /\ Cardinality(O2) \in Nat /\ Cardinality(O2) <= Cardinality(O) + 1
    BY <1>4, Sizes
  <2> QED
    BY <1>0, <1>4, <2>1, <2>2
<1> QED
  BY <1>1, <1>2, <1>3, <1>4 DEF Hands

EntitiesHand == Hands(entities, entities', received, received', BeforeEntities, BeforeEntities',
                      PaidEntities, PaidEntities', Output(WithEntities), Output(WithEntities)')
EdgesHand == Hands(edges, edges', received, received', BeforeEdges, BeforeEdges',
                   PaidEdges, PaidEdges', Output(WithEdges), Output(WithEdges)')

LEMMA HandsSuffice == TypeOK /\ Covered /\ EntitiesHand /\ EdgesHand => Covered'
<1> SUFFICES ASSUME TypeOK, Covered, EntitiesHand, EdgesHand PROVE Covered'
  OBVIOUS
<1>1. /\ IsFiniteSet(BeforeEntities) /\ IsFiniteSet(BeforeEdges)
      /\ IsFiniteSet(PaidEntities) /\ IsFiniteSet(PaidEdges)
  BY WorkersFinite DEF BeforeEntities, BeforeEdges, PaidEntities, PaidEdges
<1>2. received \in Nat
  BY DEF TypeOK
<1>3. Covers(entities, WithEntities, PaidEntities, BeforeEntities)'
  BY <1>1, <1>2, HandsCover DEF Covered, Covers, EntitiesHand
<1>4. Covers(edges, WithEdges, PaidEdges, BeforeEdges)'
  BY <1>1, <1>2, HandsCover DEF Covered, Covers, EdgesHand
<1> QED
  BY <1>3, <1>4 DEF Covered

LEMMA StepCovered == TypeOK /\ Covered /\ [Next]_vars => Covered'
<1> SUFFICES ASSUME TypeOK, Covered, [Next]_vars PROVE EntitiesHand /\ EdgesHand
  BY HandsSuffice
<1>0. /\ wpc \in [Workers -> WorkerState] /\ published \in [Chunk -> Nat]
      /\ received \in Nat /\ entities \in Nat /\ edges \in Nat
      /\ WithEntities \subseteq Chunk /\ WithEdges \subseteq Chunk
  BY ConstantsAssumption DEF TypeOK
<1> USE DEF Goto
\* a step that counts and publishes nothing, and moves no worker past a counter
<1>1. ASSUME UNCHANGED <<received, entities, edges, published>>,
             \A w \in Workers :
                 wpc'[w] \in {"extract", "llm", "save", "entities", "edges", "publish"} =>
                     /\ cur'[w] = cur[w]
                     /\ wpc[w] \in {"extract", "llm", "save"} \/ wpc'[w] = wpc[w]
                     /\ wpc'[w] \in {"edges", "publish"} => wpc'[w] = wpc[w]
      PROVE  EntitiesHand /\ EdgesHand
  <2>1. Output(WithEntities)' = Output(WithEntities) /\ Output(WithEdges)' = Output(WithEdges)
    BY <1>1 DEF Output
  <2>2. BeforeEntities' \subseteq BeforeEntities /\ BeforeEdges' \subseteq BeforeEdges
    BY <1>1 DEF BeforeEntities, BeforeEdges
  <2>3. PaidEntities' \subseteq PaidEntities /\ PaidEdges' \subseteq PaidEdges
    BY <1>1 DEF PaidEntities, PaidEdges, ChunkOf
  <2> QED
    BY <1>1, <2>1, <2>2, <2>3 DEF EntitiesHand, EdgesHand, Hands
<1>2. CASE Preprocessor \/ Fetch \/ Enqueue \/ CommitPosition \/ Signal
  BY <1>1, <1>2 DEF Preprocessor, Arrive, ReportTotal, Fetch, Enqueue,
     CommitPosition, Signal, workVars, dbVars, outVars
<1>3. CASE Crash \/ StopAndRestart
  BY <1>1, <1>3 DEF Crash, StopAndRestart, Restart, dbVars, outVars
<1>4. ASSUME NEW w \in Workers, Worker(w) PROVE EntitiesHand /\ EdgesHand
  <2>1. CASE Take(w) \/ StartExtract(w) \/ ExtractGraph(w) \/ SaveCheckpoint(w)
    <3>1. UNCHANGED <<received, entities, edges, published>>
      BY <2>1 DEF Take, StartExtract, ExtractGraph, SaveCheckpoint, dbVars, outVars
    <3>2. \/ wpc[w] = "idle" /\ wpc' = [wpc EXCEPT ![w] = "count"]
             /\ \E n : cur' = [cur EXCEPT ![w] = n]
          \/ cur' = cur /\ wpc[w] \in {"extract", "llm", "save"}
             /\ \E s \in {"idle", "llm", "save", "entities"} : wpc' = [wpc EXCEPT ![w] = s]
      BY <2>1 DEF Take, StartExtract, ExtractGraph, SaveCheckpoint
    <3>3. cur \in [Workers -> 0..N]
      BY DEF TypeOK
    <3> QED
      BY <1>0, <1>1, <3>1, <3>2, <3>3
  <2>2. CASE CountReceived(w)
    <3>1. /\ received' = received + 1 /\ entities' = entities /\ edges' = edges
          /\ published' = published /\ cur' = cur
      BY <2>2 DEF CountReceived, outVars
    <3>2. /\ BeforeEntities' \subseteq BeforeEntities \cup {w}
          /\ BeforeEdges' \subseteq BeforeEdges \cup {w}
          /\ PaidEntities' \subseteq PaidEntities /\ PaidEdges' \subseteq PaidEdges
      BY <2>2, <1>0, <3>1 DEF CountReceived, BeforeEntities, BeforeEdges, PaidEntities,
                              PaidEdges, ChunkOf
    <3> QED
      BY <3>1, <3>2 DEF EntitiesHand, EdgesHand, Hands, Output
  <2>3. CASE TallyEntities(w)
    <3>1. /\ received' = received /\ edges' = edges /\ published' = published /\ cur' = cur
          /\ entities' = IF ChunkOf(w) \in WithEntities THEN entities + 1 ELSE entities
      BY <2>3 DEF TallyEntities, outVars
    <3>2. w \in BeforeEntities /\ BeforeEntities' \subseteq BeforeEntities \ {w}
      BY <2>3, <1>0 DEF TallyEntities, BeforeEntities
    <3>3. BeforeEdges' \subseteq BeforeEdges /\ PaidEdges' \subseteq PaidEdges
      BY <2>3, <1>0, <3>1 DEF TallyEntities, BeforeEdges, PaidEdges, ChunkOf
    <3>4. PaidEntities' \subseteq PaidEntities
             \cup (IF ChunkOf(w) \in WithEntities THEN {w} ELSE {})
      BY <2>3, <1>0, <3>1 DEF TallyEntities, PaidEntities, ChunkOf
    <3>5. Output(WithEntities)' = Output(WithEntities) /\ Output(WithEdges)' = Output(WithEdges)
      BY <3>1 DEF Output
    <3>6. EdgesHand
      BY <3>1, <3>3, <3>5 DEF EdgesHand, Hands
    <3>7. CASE ChunkOf(w) \in WithEntities
      BY <3>1, <3>2, <3>4, <3>5, <3>6, <3>7 DEF EntitiesHand, Hands
    <3>8. CASE ChunkOf(w) \notin WithEntities
      BY <3>1, <3>2, <3>4, <3>5, <3>6, <3>8 DEF EntitiesHand, Hands
    <3> QED
      BY <3>7, <3>8
  <2>4. CASE TallyEdges(w)
    <3>1. /\ received' = received /\ entities' = entities /\ published' = published /\ cur' = cur
          /\ edges' = IF ChunkOf(w) \in WithEdges THEN edges + 1 ELSE edges
      BY <2>4 DEF TallyEdges, outVars
    <3>2. w \in BeforeEdges /\ BeforeEdges' \subseteq BeforeEdges \ {w}
      BY <2>4, <1>0 DEF TallyEdges, BeforeEdges
    <3>3. BeforeEntities' \subseteq BeforeEntities /\ PaidEntities' \subseteq PaidEntities
      BY <2>4, <1>0, <3>1 DEF TallyEdges, BeforeEntities, PaidEntities, ChunkOf
    <3>4. PaidEdges' \subseteq PaidEdges \cup (IF ChunkOf(w) \in WithEdges THEN {w} ELSE {})
      BY <2>4, <1>0, <3>1 DEF TallyEdges, PaidEdges, ChunkOf
    <3>5. Output(WithEntities)' = Output(WithEntities) /\ Output(WithEdges)' = Output(WithEdges)
      BY <3>1 DEF Output
    <3>6. EntitiesHand
      BY <3>1, <3>3, <3>5 DEF EntitiesHand, Hands
    <3>7. CASE ChunkOf(w) \in WithEdges
      BY <3>1, <3>2, <3>4, <3>5, <3>6, <3>7 DEF EdgesHand, Hands
    <3>8. CASE ChunkOf(w) \notin WithEdges
      BY <3>1, <3>2, <3>4, <3>5, <3>6, <3>8 DEF EdgesHand, Hands
    <3> QED
      BY <3>7, <3>8
  <2>5. CASE Publish(w)
    <3>1. /\ received' = received /\ entities' = entities /\ edges' = edges /\ cur' = cur
          /\ wpc[w] = "publish" /\ published' = [published EXCEPT ![ChunkOf(w)] = @ + 1]
      BY <2>5 DEF Publish, dbVars
    <3>2. /\ BeforeEntities' \subseteq BeforeEntities /\ BeforeEdges' \subseteq BeforeEdges
          /\ PaidEntities' \subseteq PaidEntities \ {w} /\ PaidEdges' \subseteq PaidEdges \ {w}
      BY <2>5, <1>0, <3>1 DEF Publish, BeforeEntities, BeforeEdges, PaidEntities, PaidEdges, ChunkOf
    <3>3. ASSUME NEW C, C \subseteq Chunk
          PROVE  /\ Output(C)' \subseteq Output(C) \cup {ChunkOf(w)}
                 /\ ChunkOf(w) \notin C => Output(C)' = Output(C)
      BY <1>0, <3>1, <3>3 DEF Output
    <3>4. /\ ChunkOf(w) \in WithEntities => w \in PaidEntities
          /\ ChunkOf(w) \in WithEdges => w \in PaidEdges
      BY <3>1 DEF PaidEntities, PaidEdges
    <3>5. EntitiesHand
      <4>1. CASE ChunkOf(w) \in WithEntities
        BY <1>0, <3>1, <3>2, <3>3, <3>4, <4>1 DEF EntitiesHand, Hands
      <4>2. CASE ChunkOf(w) \notin WithEntities
        BY <1>0, <3>1, <3>2, <3>3, <4>2 DEF EntitiesHand, Hands
      <4> QED
        BY <4>1, <4>2
    <3>6. EdgesHand
      <4>1. CASE ChunkOf(w) \in WithEdges
        BY <1>0, <3>1, <3>2, <3>3, <3>4, <4>1 DEF EdgesHand, Hands
      <4>2. CASE ChunkOf(w) \notin WithEdges
        BY <1>0, <3>1, <3>2, <3>3, <4>2 DEF EdgesHand, Hands
      <4> QED
        BY <4>1, <4>2
    <3> QED
      BY <3>5, <3>6
  <2>6. CASE CheckDone(w) \/ ReadReceived(w) \/ ReadTotal(w) \/ MarkDone(w)
             \/ EmitComplete(w) \/ FinalizeCounters(w)
    BY <1>0, <1>1, <2>6 DEF CheckDone, ReadReceived, ReadTotal, MarkDone, EmitComplete,
                FinalizeCounters, dbVars, outVars
  <2> QED
    BY <1>4, <2>1, <2>2, <2>3, <2>4, <2>5, <2>6 DEF Worker
<1>5. ASSUME NEW w \in Workers, WorkerFault(w) PROVE EntitiesHand /\ EdgesHand
  BY <1>0, <1>1, <1>5 DEF WorkerFault, ExtractRaises, PublishSwallowed, StoreRaises, dbVars, outVars
<1>6. CASE Rests \/ UNCHANGED vars
  BY <1>1, <1>6 DEF Rests, vars, workVars, dbVars, outVars
<1> QED
  BY <1>2, <1>3, <1>4, <1>5, <1>6 DEF Next, Consume

\* Whatever fails or crashes, and at whichever of the two increments, what was
\* found in the published chunks is in the counters, and no more than was received.
THEOREM CountersHold == Spec => []CountersCoverOutput
<1>1. Init => Covered
  <2> SUFFICES ASSUME Init PROVE Covered
    OBVIOUS
  <2>1. /\ Output(WithEntities) = {} /\ Output(WithEdges) = {}
        /\ BeforeEntities = {} /\ BeforeEdges = {} /\ PaidEntities = {} /\ PaidEdges = {}
    BY ConstantsAssumption DEF Init, Output, BeforeEntities, BeforeEdges, PaidEntities, PaidEdges
  <2> QED
    BY <2>1, FS_EmptySet DEF Init, Covered, Covers
<1>2. TypeOK /\ Covered => CountersCoverOutput
  <2> SUFFICES ASSUME TypeOK, Covered PROVE CountersCoverOutput
    OBVIOUS
  <2>1. /\ Cardinality(Output(WithEntities)) \in Nat /\ Cardinality(Output(WithEdges)) \in Nat
    BY FS_CardinalityType DEF Covered, Covers
  <2>2. /\ Cardinality(BeforeEntities) \in Nat /\ Cardinality(PaidEntities) \in Nat
        /\ Cardinality(BeforeEdges) \in Nat /\ Cardinality(PaidEdges) \in Nat
    BY WorkersFinite DEF BeforeEntities, BeforeEdges, PaidEntities, PaidEdges
  <2> QED
    BY <2>1, <2>2 DEF Covered, Covers, CountersCoverOutput, TypeOK
<1> QED
  BY <1>1, <1>2, StepCovered, TypeCorrect, PTL DEF Spec

-----------------------------------------------------------------------------
(* Without a crash, completion is decided after delivery.                  *)

Counting == {w \in Workers : wpc[w] = "count"}
Deciding == {w \in Workers : wpc[w] \in {"mark", "emit", "finalize"}}
Decided == Deciding # {} \/ completed # {} \/ completions > 0 \/ cstatus = "complete"

\* What holds in any case: a reading of the counter is not above it, and a
\* service that stops was told to.
Witnessed ==
    /\ \A w \in Workers : seen[w] <= received
    /\ mode = "stopping" => stops > 0

\* What holds as long as nothing was delivered twice.
Delivered ==
    /\ received + Cardinality(Counting) <= deq
    /\ Decided => total # NotSet /\ total <= deq

LEMMA StepWitnessed == TypeOK /\ Witnessed /\ [Next]_vars => Witnessed'
<1> SUFFICES ASSUME TypeOK, Witnessed, [Next]_vars PROVE Witnessed'
  OBVIOUS
<1> USE DEF Witnessed, TypeOK
<1>1. CASE Preprocessor \/ Fetch \/ Enqueue \/ CommitPosition \/ Signal
  BY <1>1 DEF Preprocessor, Arrive, ReportTotal, Fetch, Enqueue, CommitPosition,
     Signal, feedVars, workVars, dbVars, budget
<1>2. CASE Crash \/ StopAndRestart
  BY <1>2 DEF Crash, StopAndRestart, Restart, dbVars
<1>3. ASSUME NEW w \in Workers, Worker(w) PROVE Witnessed'
  <2>1. UNCHANGED <<mode, stops>>
    BY <1>3 DEF Worker, Take, CountReceived, StartExtract, ExtractGraph, SaveCheckpoint,
       TallyEntities, TallyEdges, Publish, CheckDone, ReadReceived, ReadTotal, MarkDone, EmitComplete,
       FinalizeCounters, feedVars, budget
  <2>2. CASE CountReceived(w)
    BY <2>1, <2>2 DEF CountReceived
  <2>3. CASE ReadReceived(w)
    BY <2>1, <2>3 DEF ReadReceived, dbVars
  <2>4. CASE ~CountReceived(w) /\ ~ReadReceived(w)
    <3>1. UNCHANGED <<seen, received>>
      BY <1>3, <2>4 DEF Worker, Take, StartExtract, ExtractGraph, SaveCheckpoint,
         TallyEntities, TallyEdges, Publish, CheckDone, ReadTotal, MarkDone, EmitComplete,
         FinalizeCounters, dbVars
    <3> QED
      BY <2>1, <3>1
  <2> QED
    BY <2>2, <2>3, <2>4
<1>4. ASSUME NEW w \in Workers, WorkerFault(w) PROVE Witnessed'
  BY <1>4 DEF WorkerFault, ExtractRaises, PublishSwallowed, StoreRaises, feedVars, dbVars
<1>5. CASE Rests \/ UNCHANGED vars
  BY <1>5 DEF Rests, vars, feedVars, workVars, dbVars, budget
<1> QED
  BY <1>1, <1>2, <1>3, <1>4, <1>5 DEF Next, Consume

\* Nothing becomes undelivered again.
LEMMA RedeliveryStays == TypeOK /\ [Next]_vars /\ NoRedelivery' => NoRedelivery
<1> SUFFICES ASSUME TypeOK, [Next]_vars PROVE crashes' >= crashes /\ stops' >= stops
  BY DEF NoRedelivery, TypeOK
<1> USE DEF TypeOK
<1>1. CASE Preprocessor \/ Fetch \/ Enqueue \/ CommitPosition \/ Signal
  BY <1>1 DEF Preprocessor, Arrive, ReportTotal, Fetch, Enqueue, CommitPosition,
     Signal, budget
<1>2. CASE Crash \/ StopAndRestart
  BY <1>2 DEF Crash, StopAndRestart
<1>3. ASSUME NEW w \in Workers, Worker(w) PROVE crashes' >= crashes /\ stops' >= stops
  BY <1>3 DEF Worker, Take, CountReceived, StartExtract, ExtractGraph, SaveCheckpoint,
     TallyEntities, TallyEdges, Publish, CheckDone, ReadReceived, ReadTotal, MarkDone, EmitComplete,
     FinalizeCounters, budget
<1>4. ASSUME NEW w \in Workers, WorkerFault(w) PROVE crashes' >= crashes /\ stops' >= stops
  BY <1>4 DEF WorkerFault, ExtractRaises, PublishSwallowed, StoreRaises
<1>5. CASE Rests \/ UNCHANGED vars
  BY <1>5 DEF Rests, vars, budget
<1> QED
  BY <1>1, <1>2, <1>3, <1>4, <1>5 DEF Next, Consume

LEMMA CountingFinite == IsFiniteSet(Counting) /\ Cardinality(Counting) \in Nat
  BY ConstantsAssumption, FS_Subset, FS_CardinalityType DEF Counting

LEMMA StepDelivered ==
  ASSUME TypeOK, Witnessed, Delivered, NoRedelivery', [Next]_vars
  PROVE  Delivered'
<1>0. /\ wpc \in [Workers -> WorkerState] /\ received \in Nat /\ deq \in Nat
      /\ total \in Nat \cup {NotSet}
      /\ IsFiniteSet(Counting) /\ Cardinality(Counting) \in Nat
  BY CountingFinite, LogType DEF TypeOK
<1>1. ASSUME Counting' \subseteq Counting, UNCHANGED <<received, deq>>,
             Decided' => Decided, total' = total \/ ~Decided'
      PROVE  Delivered'
  <2>1. Cardinality(Counting') \in Nat /\ Cardinality(Counting') <= Cardinality(Counting)
    BY <1>0, <1>1, Sizes
  <2> QED
    BY <1>0, <1>1, <2>1 DEF Delivered
<1>2. CASE Arrive \/ Fetch \/ Enqueue \/ CommitPosition \/ Signal
  <2>1. UNCHANGED <<wpc, received, deq, total, completed, completions, cstatus>>
    BY <1>2 DEF Arrive, Fetch, Enqueue, CommitPosition, Signal, envVars, workVars,
       dbVars, outVars
  <2> QED
    BY <1>1, <2>1 DEF Counting, Deciding, Decided
<1>3. CASE ReportTotal
  <2>1. UNCHANGED <<wpc, received, deq, completed, completions, cstatus>> /\ total = NotSet
    BY <1>3 DEF ReportTotal, workVars, dbVars, outVars
  <2>2. (Decided' <=> Decided) /\ ~Decided
    BY <2>1 DEF Deciding, Decided, Delivered
  <2> QED
    BY <1>1, <2>1, <2>2 DEF Counting
<1>4. CASE Crash \/ StopAndRestart
  <2>1. /\ \A w \in Workers : wpc'[w] = "idle"
        /\ completed' = {} /\ UNCHANGED <<received, total, completions, cstatus>>
    BY <1>4 DEF Crash, StopAndRestart, Restart, envVars, dbVars, outVars
  <2>2. ~Crash
    BY DEF Crash, NoRedelivery, TypeOK
  <2>3. AutoCommit
    BY <1>4, <2>2 DEF StopAndRestart, NoRedelivery, Witnessed, TypeOK
  <2>4. deq' = deq
    BY <1>4, <2>2, <2>3 DEF StopAndRestart, Restart, Drained, TypeOK
  <2> QED
    BY <1>1, <2>1, <2>4 DEF Counting, Deciding, Decided
<1>5. ASSUME NEW w \in Workers, Worker(w) PROVE Delivered'
  <2>1. CASE Take(w)
    <3>1. deq' = deq + 1 /\ UNCHANGED <<received, total, completed, completions, cstatus>>
      BY <2>1 DEF Take, envVars, dbVars, outVars
    <3>2. Counting' \subseteq Counting \cup {w} /\ Deciding' \subseteq Deciding
      BY <2>1, <1>0 DEF Take, Goto, Counting, Deciding
    <3>3. Cardinality(Counting') \in Nat /\ Cardinality(Counting') <= Cardinality(Counting) + 1
      BY <1>0, <3>2, Sizes
    <3>4. Decided' => Decided
      BY <3>1, <3>2 DEF Decided
    <3> QED
      BY <1>0, <3>1, <3>3, <3>4 DEF Delivered
  <2>2. CASE CountReceived(w)
    <3>1. received' = received + 1 /\ UNCHANGED <<deq, total, completed, completions, cstatus>>
      BY <2>2 DEF CountReceived, envVars, outVars
    <3>2. w \in Counting /\ Counting' \subseteq Counting \ {w} /\ Deciding' \subseteq Deciding
      BY <2>2, <1>0 DEF CountReceived, Goto, Counting, Deciding
    <3>3. Cardinality(Counting') \in Nat /\ Cardinality(Counting') + 1 <= Cardinality(Counting)
      BY <1>0, <3>2, Sizes
    <3>4. Decided' => Decided
      BY <3>1, <3>2 DEF Decided
    <3> QED
      BY <1>0, <3>1, <3>3, <3>4 DEF Delivered
  <2>3. CASE ReadTotal(w)
    <3>1. UNCHANGED <<received, deq, total, completed, completions, cstatus>>
      BY <2>3 DEF ReadTotal, envVars, dbVars, outVars
    <3>2. Counting' \subseteq Counting
      BY <2>3, <1>0 DEF ReadTotal, Goto, Counting
    <3>3. CASE AllReceived(w)
      <4>1. total # NotSet /\ total <= deq
        BY <1>0, <3>3 DEF AllReceived, Witnessed, Delivered, TypeOK
      <4>2. Cardinality(Counting') \in Nat /\ Cardinality(Counting') <= Cardinality(Counting)
        BY <1>0, <3>2, Sizes
      <4> QED
        BY <1>0, <3>1, <4>1, <4>2 DEF Delivered
    <3>4. CASE ~AllReceived(w)
      <4>1. Deciding' \subseteq Deciding
        BY <2>3, <1>0, <3>4 DEF ReadTotal, Goto, Deciding
      <4> QED
        BY <1>1, <3>1, <3>2, <4>1 DEF Decided
    <3> QED
      BY <3>3, <3>4
  <2>4. CASE MarkDone(w) \/ EmitComplete(w) \/ FinalizeCounters(w)
    <3>1. UNCHANGED <<received, deq, total>> /\ w \in Deciding
      BY <2>4 DEF MarkDone, EmitComplete, FinalizeCounters, envVars, dbVars, Deciding
    <3>2. Counting' \subseteq Counting
      BY <2>4, <1>0 DEF MarkDone, EmitComplete, FinalizeCounters, Goto, Counting
    <3> QED
      BY <1>1, <3>1, <3>2 DEF Decided
  <2>5. CASE StartExtract(w) \/ ExtractGraph(w) \/ SaveCheckpoint(w) \/ TallyEntities(w) \/ TallyEdges(w)
             \/ Publish(w) \/ CheckDone(w) \/ ReadReceived(w)
    <3>1. UNCHANGED <<received, deq, total, completed, completions, cstatus>>
      BY <2>5 DEF StartExtract, ExtractGraph, SaveCheckpoint, TallyEntities, TallyEdges, Publish, CheckDone,
                  ReadReceived, envVars, dbVars, outVars
    <3>2. Counting' \subseteq Counting /\ Deciding' \subseteq Deciding
      BY <2>5, <1>0 DEF StartExtract, ExtractGraph, SaveCheckpoint, TallyEntities, TallyEdges, Publish,
                        CheckDone, ReadReceived, Goto, Counting, Deciding
    <3> QED
      BY <1>1, <3>1, <3>2 DEF Decided
  <2> QED
    BY <1>5, <2>1, <2>2, <2>3, <2>4, <2>5 DEF Worker
<1>6. ASSUME NEW w \in Workers, WorkerFault(w) PROVE Delivered'
  <2>1. UNCHANGED <<received, deq, total, completed, completions, cstatus>>
    BY <1>6 DEF WorkerFault, ExtractRaises, PublishSwallowed, StoreRaises, envVars,
                dbVars, outVars
  <2>2. Counting' \subseteq Counting
    BY <1>6, <1>0 DEF WorkerFault, ExtractRaises, PublishSwallowed, StoreRaises, Goto, Counting
  <2>3. Deciding' # {} => Deciding # {}
    BY <1>6, <1>0 DEF WorkerFault, ExtractRaises, PublishSwallowed, StoreRaises, Goto, Deciding
  <2> QED
    BY <1>1, <2>1, <2>2, <2>3 DEF Decided
<1>7. CASE Rests \/ UNCHANGED vars
  <2>1. UNCHANGED <<wpc, received, deq, total, completed, completions, cstatus>>
    BY <1>7 DEF Rests, vars, envVars, workVars, dbVars, outVars
  <2> QED
    BY <1>1, <2>1 DEF Counting, Deciding, Decided
<1> QED
  BY <1>2, <1>3, <1>4, <1>5, <1>6, <1>7 DEF Next, Consume, Preprocessor

LEMMA InitDelivered == Init => Witnessed /\ Delivered
<1> SUFFICES ASSUME Init PROVE Witnessed /\ Delivered
  OBVIOUS
<1>1. Counting = {} /\ ~Decided
  BY DEF Init, Counting, Deciding, Decided
<1> QED
  BY <1>1, FS_EmptySet DEF Init, Witnessed, Delivered

\* As long as the service never crashed, no chunk is counted twice, and the
\* ingestion is declared complete only after as many chunks as the
\* preprocessor reported were taken from the queue.
THEOREM DeliveryHolds == Spec => []CompletionAfterDelivery
<1> DEFINE D == Witnessed /\ (NoRedelivery => Delivered)
<1>1. Init => D
  BY InitDelivered
<1>2. TypeOK /\ D /\ [Next]_vars => D'
  BY StepWitnessed, StepDelivered, RedeliveryStays
<1>3. TypeOK /\ D => CompletionAfterDelivery
  <2> SUFFICES ASSUME TypeOK, Delivered
               PROVE  /\ received <= deq
                      /\ Decided => total # NotSet /\ deq >= total
    BY DEF CompletionAfterDelivery, Decided
  <2> QED
    BY CountingFinite, LogType DEF Delivered, TypeOK
<1> QED
  BY <1>1, <1>2, <1>3, TypeCorrect, PTL DEF Spec

-----------------------------------------------------------------------------
(* Losses are accounted for.  A chunk is carried by a worker that will     *)
(* still save its checkpoint, or that has saved it and will publish.  A    *)
(* worker that finds the checkpoint of another carries nothing: it leaves  *)
(* without a fault, and the chunk's loss was charged to the other.         *)

Taken == {Log[i] : i \in 1..deq}
Carries(w, c) ==
    /\ ChunkOf(w) = c
    /\ \/ wpc[w] \in {"count", "extract", "llm", "save"} /\ c \notin checkpoints
       \/ wpc[w] \in {"entities", "edges", "publish"}
Carried(c) == \E w \in Workers : Carries(w, c)
Missing == {c \in Taken \ NoPrompt : published[c] = 0 /\ ~Carried(c)}

Charged ==
    /\ checkpoints \subseteq Taken
    /\ IsFiniteSet(Missing) /\ Cardinality(Missing) <= faults

\* A step that leaves every unpublished chunk with its carrier loses nothing.
LEMMA KeptCarrier ==
  ASSUME UNCHANGED deq, \A c \in Taken : published'[c] = 0 => published[c] = 0,
         \A c \in Taken : Carried(c) /\ published'[c] = 0 => Carried(c)'
  PROVE  Taken' = Taken /\ Missing' \subseteq Missing
<1>1. Taken' = Taken
  BY DEF Taken
<1>2. ASSUME NEW c \in Missing' PROVE c \in Missing
  <2>1. c \in Taken \ NoPrompt /\ published'[c] = 0 /\ ~Carried(c)'
    BY <1>1, <1>2 DEF Missing
  <2> QED
    BY <2>1 DEF Missing
<1> QED
  BY <1>1, <1>2

\* The other workers keep what they carry while one worker takes a step.
LEMMA OthersCarry ==
  ASSUME NEW w \in Workers, UNCHANGED checkpoints,
         \A v \in Workers \ {w} : wpc'[v] = wpc[v] /\ cur'[v] = cur[v],
         NEW c, NEW v \in Workers \ {w}, Carries(v, c)
  PROVE  Carried(c)'
<1>1. Carries(v, c)'
  BY DEF Carries, ChunkOf
<1> QED
  BY <1>1 DEF Carried

LEMMA StepCharged ==
  ASSUME Holding, Witnessed, Charged, NoRedelivery', [Next]_vars
  PROVE  Charged'
<1>0. /\ wpc \in [Workers -> WorkerState] /\ cur \in [Workers -> 0..N]
      /\ deq \in Nat /\ faults \in Nat /\ Cardinality(Missing) \in Nat
  BY LogType, FS_CardinalityType DEF Holding, TypeOK, Charged
<1>1. ASSUME Missing' \subseteq Missing, checkpoints' \subseteq Taken',
             faults' \in Nat, faults' >= faults
      PROVE  Charged'
  <2>1. IsFiniteSet(Missing') /\ Cardinality(Missing') \in Nat
        /\ Cardinality(Missing') <= Cardinality(Missing)
    BY <1>1, Sizes DEF Charged
  <2> QED
    BY <1>0, <1>1, <2>1 DEF Charged
<1>2. CASE Preprocessor \/ Fetch \/ Enqueue \/ CommitPosition \/ Signal
  <2>1. UNCHANGED <<wpc, cur, deq, published, checkpoints, faults>>
    BY <1>2 DEF Preprocessor, Arrive, ReportTotal, Fetch, Enqueue, CommitPosition,
       Signal, workVars, dbVars, outVars, budget
  <2>2. \A c \in Taken : Carried(c) => Carried(c)'
    BY <2>1 DEF Carried, Carries, ChunkOf
  <2> QED
    BY <1>0, <1>1, <2>1, <2>2, KeptCarrier DEF Charged
<1>3. CASE Crash \/ StopAndRestart
  <2>1. ~Crash
    BY DEF Crash, NoRedelivery, Holding, TypeOK
  <2>2. AutoCommit
    BY <1>3, <2>1 DEF StopAndRestart, NoRedelivery, Witnessed, Holding, TypeOK
  <2>3. deq' = deq /\ \A w \in Workers : wpc[w] = "idle"
    BY <1>3, <2>1, <2>2 DEF StopAndRestart, Restart, Drained, Holding, TypeOK
  <2>4. UNCHANGED <<published, checkpoints, faults>>
    BY <1>3, <2>1 DEF StopAndRestart, Restart, dbVars, outVars
  <2>5. \A c : ~Carried(c)
    BY <2>3 DEF Carried, Carries
  <2> QED
    BY <1>0, <1>1, <2>3, <2>4, <2>5, KeptCarrier DEF Charged
<1>4. ASSUME NEW w \in Workers, Worker(w) PROVE Charged'
  <2>1. faults' = faults
    BY <1>4 DEF Worker, Take, CountReceived, StartExtract, ExtractGraph, SaveCheckpoint,
       TallyEntities, TallyEdges, Publish, CheckDone, ReadReceived, ReadTotal, MarkDone, EmitComplete,
       FinalizeCounters, budget
  <2>2. \A v \in Workers \ {w} : wpc'[v] = wpc[v] /\ cur'[v] = cur[v]
    BY <1>4, <1>0 DEF Worker, Take, CountReceived, StartExtract, ExtractGraph,
       SaveCheckpoint, TallyEntities, TallyEdges, Publish, CheckDone, ReadReceived, ReadTotal, MarkDone,
       EmitComplete, FinalizeCounters, Goto, workVars
  <2>3. CASE Take(w)
    <3>1. /\ deq' = deq + 1 /\ UNCHANGED <<published, checkpoints>>
          /\ wpc[w] = "idle" /\ wpc'[w] = "count" /\ cur'[w] = deq + 1
      BY <2>3, <1>0 DEF Take, Goto, dbVars, outVars
    <3>2. Taken' = Taken \cup {Log[deq + 1]}
      BY <1>0, <3>1 DEF Taken
    <3>3. ASSUME NEW c \in Missing', c \notin Missing PROVE FALSE
      <4>1. c \in Taken' \ NoPrompt /\ published[c] = 0 /\ ~Carried(c)'
        BY <3>1, <3>3 DEF Missing
      <4>2. CASE c \in Taken
        <5>1. PICK v \in Workers : Carries(v, c)
          BY <3>3, <4>1, <4>2 DEF Missing, Carried
        <5>2. v # w
          BY <3>1, <5>1 DEF Carries
        <5> QED
          BY <2>2, <3>1, <4>1, <5>1, <5>2, OthersCarry
      <4>3. CASE c \notin Taken
        <5>1. c = Log[deq + 1] /\ c \notin checkpoints
          BY <3>2, <4>1, <4>3 DEF Charged
        <5>2. Carries(w, c)'
          BY <3>1, <5>1 DEF Carries, ChunkOf
        <5> QED
          BY <4>1, <5>2 DEF Carried
      <4> QED
        BY <4>2, <4>3
    <3> QED
      BY <1>0, <1>1, <2>1, <3>1, <3>2, <3>3 DEF Charged
  <2>4. CASE SaveCheckpoint(w)
    <3>1. /\ checkpoints' = checkpoints \cup {ChunkOf(w)} /\ UNCHANGED <<cur, deq, published>>
          /\ wpc[w] = "save" /\ wpc'[w] = "entities"
      BY <2>4, <1>0 DEF SaveCheckpoint, Goto, outVars
    <3>2. ChunkOf(w) \in Taken
      BY <3>1 DEF Holding, OneHolder, Busy, ChunkOf, Taken
    <3>3. Carries(w, ChunkOf(w))'
      BY <3>1 DEF Carries, ChunkOf
    <3>4. ASSUME NEW c \in Taken, Carried(c) PROVE Carried(c)'
      <4>1. PICK v \in Workers : Carries(v, c)
        BY <3>4 DEF Carried
      <4>2. CASE c = ChunkOf(w)
        BY <3>1, <3>3, <4>2 DEF Carried, Carries, ChunkOf
      <4>3. CASE c # ChunkOf(w)
        <5>1. v # w
          BY <4>1, <4>3 DEF Carries
        <5>2. Carries(v, c)'
          BY <2>2, <3>1, <4>1, <4>3, <5>1 DEF Carries, ChunkOf
        <5> QED
          BY <5>2 DEF Carried
      <4> QED
        BY <4>2, <4>3
    <3>5. Taken' = Taken /\ Missing' \subseteq Missing
      BY <3>1, <3>4, KeptCarrier
    <3> QED
      BY <1>0, <1>1, <2>1, <3>1, <3>2, <3>5 DEF Charged
  <2>5. CASE Publish(w)
    <3>1. /\ published' = [published EXCEPT ![ChunkOf(w)] = @ + 1]
          /\ UNCHANGED <<cur, deq, checkpoints>> /\ wpc[w] = "publish"
      BY <2>5 DEF Publish, dbVars
    <3>2. ChunkOf(w) \in Chunk /\ published \in [Chunk -> Nat]
      BY <3>1, BusyChunk DEF Busy, Holding, TypeOK
    <3>3. published'[ChunkOf(w)] # 0 /\ \A c \in Chunk : published'[c] = 0 => published[c] = 0
      BY <3>1, <3>2
    <3>4. Taken \subseteq Chunk
      BY LogType DEF Taken, Holding, OffsetsOrdered, TypeOK
    <3>5. ASSUME NEW c \in Taken, Carried(c), published'[c] = 0 PROVE Carried(c)'
      <4>1. PICK v \in Workers : Carries(v, c)
        BY <3>5 DEF Carried
      <4>2. v # w
        BY <3>3, <3>5, <4>1 DEF Carries
      <4> QED
        BY <2>2, <3>1, <4>1, <4>2, OthersCarry
    <3>6. Taken' = Taken /\ Missing' \subseteq Missing
      BY <3>1, <3>3, <3>4, <3>5, KeptCarrier
    <3> QED
      BY <1>0, <1>1, <2>1, <3>1, <3>6 DEF Charged
  <2>6. CASE StartExtract(w)
    <3>1. /\ UNCHANGED <<cur, deq, published, checkpoints>> /\ wpc[w] = "extract"
          /\ wpc'[w] = IF Skipped(w) THEN "idle" ELSE "llm"
      BY <2>6, <1>0 DEF StartExtract, Goto, dbVars, outVars
    <3>2. ASSUME NEW c \in Missing', c \notin Missing PROVE FALSE
      <4>1. c \in Taken \ NoPrompt /\ published[c] = 0 /\ ~Carried(c)'
        BY <3>1, <3>2 DEF Missing, Taken
      <4>2. PICK v \in Workers : Carries(v, c)
        BY <3>2, <4>1 DEF Missing, Carried
      <4>3. CASE v = w
        <5>1. ChunkOf(w) = c /\ c \notin checkpoints /\ wpc'[w] = "llm"
          BY <3>1, <4>1, <4>2, <4>3 DEF Carries, Skipped
        <5>2. Carries(w, c)'
          BY <3>1, <5>1 DEF Carries, ChunkOf
        <5> QED
          BY <4>1, <5>2 DEF Carried
      <4>4. CASE v # w
        BY <2>2, <3>1, <4>1, <4>2, <4>4, OthersCarry
      <4> QED
        BY <4>3, <4>4
    <3>3. Taken' = Taken
      BY <3>1 DEF Taken
    <3> QED
      BY <1>0, <1>1, <2>1, <3>1, <3>2, <3>3 DEF Charged
  <2>7. CASE CountReceived(w) \/ ExtractGraph(w) \/ TallyEntities(w) \/ TallyEdges(w) \/ CheckDone(w)
             \/ ReadReceived(w) \/ ReadTotal(w) \/ MarkDone(w) \/ EmitComplete(w)
             \/ FinalizeCounters(w)
    <3>1. UNCHANGED <<cur, deq, published, checkpoints>>
      BY <2>7 DEF CountReceived, ExtractGraph, TallyEntities, TallyEdges, CheckDone, ReadReceived, ReadTotal,
                  MarkDone, EmitComplete, FinalizeCounters, dbVars, outVars
    <3>2. \/ wpc[w] = "count" /\ wpc'[w] = "extract"
          \/ wpc[w] = "llm" /\ wpc'[w] = "save"
          \/ wpc[w] = "entities" /\ wpc'[w] = "edges"
          \/ wpc[w] = "edges" /\ wpc'[w] = "publish"
          \/ wpc[w] \in {"check", "received", "total", "mark", "emit", "finalize"}
      BY <2>7, <1>0 DEF CountReceived, ExtractGraph, TallyEntities, TallyEdges, CheckDone, ReadReceived, ReadTotal,
                        MarkDone, EmitComplete, FinalizeCounters, Goto
    <3>3. ASSUME NEW c \in Taken, Carried(c) PROVE Carried(c)'
      <4>1. PICK v \in Workers : Carries(v, c)
        BY <3>3 DEF Carried
      <4>2. Carries(v, c)'
        BY <2>2, <3>1, <3>2, <4>1 DEF Carries, ChunkOf
      <4> QED
        BY <4>2 DEF Carried
    <3>4. Taken' = Taken /\ Missing' \subseteq Missing
      BY <3>1, <3>3, KeptCarrier
    <3> QED
      BY <1>0, <1>1, <2>1, <3>1, <3>4 DEF Charged
  <2> QED
    BY <1>4, <2>3, <2>4, <2>5, <2>6, <2>7 DEF Worker
<1>5. ASSUME NEW w \in Workers, WorkerFault(w) PROVE Charged'
  <2>1. faults' = faults + 1 /\ UNCHANGED <<cur, deq, published, checkpoints>>
    BY <1>5 DEF WorkerFault, ExtractRaises, PublishSwallowed, StoreRaises, dbVars, outVars
  <2>2. \A v \in Workers \ {w} : wpc'[v] = wpc[v] /\ cur'[v] = cur[v]
    BY <1>5, <1>0, <2>1 DEF WorkerFault, ExtractRaises, PublishSwallowed, StoreRaises, Goto
  <2>3. ASSUME NEW c \in Missing', c \notin Missing PROVE c = ChunkOf(w)
    <3>1. c \in Taken \ NoPrompt /\ published[c] = 0 /\ ~Carried(c)'
      BY <2>1, <2>3 DEF Missing, Taken
    <3>2. PICK v \in Workers : Carries(v, c)
      BY <2>3, <3>1 DEF Missing, Carried
    <3>3. v = w
      BY <2>1, <2>2, <3>1, <3>2, OthersCarry
    <3> QED
      BY <3>2, <3>3 DEF Carries
  <2>4. Missing' \subseteq Missing \cup {ChunkOf(w)}
    BY <2>3
  <2>5. IsFiniteSet(Missing') /\ Cardinality(Missing') \in Nat
        /\ Cardinality(Missing') <= Cardinality(Missing) + 1
    BY <2>4, Sizes DEF Charged
  <2>6. Taken' = Taken
    BY <2>1 DEF Taken
  <2> QED
    BY <1>0, <2>1, <2>5, <2>6 DEF Charged
<1>6. CASE Rests \/ UNCHANGED vars
  <2>1. UNCHANGED <<wpc, cur, deq, published, checkpoints, faults>>
    BY <1>6 DEF Rests, vars, workVars, dbVars, outVars, budget
  <2>2. \A c \in Taken : Carried(c) => Carried(c)'
    BY <2>1 DEF Carried, Carries, ChunkOf
  <2> QED
    BY <1>0, <1>1, <2>1, <2>2, KeptCarrier DEF Charged
<1> QED
  BY <1>2, <1>3, <1>4, <1>5, <1>6 DEF Next, Consume

\* Without a crash, every chunk that had a prompt and came to nothing is paid
\* for by a call that failed: concurrency and graceful restarts lose none.
THEOREM LossesHold == Spec => []LossesAccounted
<1> DEFINE C == Witnessed /\ (NoRedelivery => Charged)
<1>1. Init => C
  <2> SUFFICES ASSUME Init PROVE Charged
    BY InitDelivered
  <2>1. Taken = {} /\ Missing = {}
    BY DEF Init, Taken, Missing
  <2> QED
    BY <2>1, FS_EmptySet DEF Init, Charged
<1>2. Holding /\ C /\ [Next]_vars => C'
  <2>1. Holding => TypeOK
    BY DEF Holding
  <2> QED
    BY <2>1, StepWitnessed, StepCharged, RedeliveryStays
<1>3. C => LossesAccounted
  <2> SUFFICES ASSUME Charged, Quiet PROVE Cardinality(Unpublished \ NoPrompt) <= faults
    BY DEF LossesAccounted
  <2>1. Unpublished \ NoPrompt \subseteq Missing
    BY DEF Unpublished, Missing, Taken, Quiet, Carried, Carries
  <2>2. Missing \subseteq Unpublished \ NoPrompt
    BY LogType DEF Unpublished, Missing, Taken, Quiet
  <2> QED
    BY <2>1, <2>2 DEF Charged
<1> QED
  BY <1>1, <1>2, <1>3, AlwaysHolding, PTL DEF Spec
=============================================================================
