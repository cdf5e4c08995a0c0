------------------------ MODULE TwoStagePipeline_proofs ------------------------
(***************************************************************************)
(* Proofs about TwoStagePipeline, for any number of workers, files, chunks *)
(* and batch sizes, and a signal at any moment: its types, its stages, and *)
(* in the second half that it implements IngestPromise.                    *)
(***************************************************************************)
EXTENDS TwoStagePipeline, FiniteSetTheorems, SequenceTheorems, TLAPS

Busy == {w \in FileWorkers : fst[w] \in {"process", "store", "put"}}

\* What the types leave out: a stage never puts more than it has, and a busy
\* worker has a file.
InBounds ==
    /\ pc = "feed" => nput < NFiles
    /\ pc = "stopFiles" => nput < Cardinality(FileWorkers)
    /\ pc = "gatherFiles" => nput = 0
    /\ pc = "stopEmbed" => nput < Cardinality(EmbedWorkers)
    /\ pc = "cancelled" <=> phase # "up"
    /\ \A w \in Busy : cur[w] \in Files

TypeInv == TypeOK /\ InBounds

-----------------------------------------------------------------------------
USE DEF orchVars, fileVars, batchVars, outVars, doneVars, vars, NoFile, NotSet

LEMMA SentinelNoChunk == Sentinel \notin Chunks
  BY ConstantsAssumption DEF Sentinel, Chunks, Files

LEMMA WorkersCounted ==
    /\ Cardinality(FileWorkers) \in Nat \ {0}
    /\ Cardinality(EmbedWorkers) \in Nat \ {0}
  BY ConstantsAssumption, FS_CardinalityType, FS_EmptySet

\* The first state is well formed.
LEMMA TypeInit == Init => TypeInv
  BY ConstantsAssumption, WorkersCounted DEF Init, TypeInv, TypeOK, InBounds, Busy

\* Every step of the orchestrating coroutine keeps it so.
LEMMA TypeOrchestrate == TypeInv /\ Orchestrate => TypeInv'
<1> SUFFICES ASSUME TypeInv, Orchestrate PROVE TypeInv'
  OBVIOUS
<1> USE ConstantsAssumption, WorkersCounted DEF TypeInv, TypeOK, InBounds, Busy
<1>1. CASE FeedFile
  <2>1. <<nput + 1, 0>> \in {<<f, 0>> : f \in 0..NFiles}
    BY <1>1 DEF FeedFile
  <2> QED
    BY <1>1, <2>1 DEF FeedFile
<1>2. CASE StopFileWorkers
  <2>1. Sentinel \in {<<f, 0>> : f \in 0..NFiles}
    BY DEF Sentinel
  <2>2. fileQ' \in Seq({<<f, 0>> : f \in 0..NFiles})
    BY <1>2, <2>1 DEF StopFileWorkers
  <2>3. /\ nput' \in Nat /\ pc = "stopFiles"
        /\ \/ pc' = "gatherFiles" /\ nput' = 0
           \/ pc' = "stopFiles" /\ nput' < Cardinality(FileWorkers)
    <3> DEFINE n == Cardinality(FileWorkers)
    <3>1. pc = "stopFiles" /\ n \in Nat /\ nput \in Nat /\ nput < n
      BY <1>2 DEF StopFileWorkers
    <3>2. IF nput + 1 = n THEN pc' = "gatherFiles" /\ nput' = 0
                          ELSE pc' = pc /\ nput' = nput + 1
      BY <1>2 DEF StopFileWorkers
    <3> HIDE DEF n, TypeInv, TypeOK, InBounds
    <3> QED
      <4>1. nput' \in Nat /\ (nput + 1 # n => nput + 1 < n)
        BY <3>1, <3>2
      <4> QED
        BY <3>1, <3>2, <4>1 DEF n
  <2>4. UNCHANGED <<embedQ, fileVars, batchVars, outVars, doneVars, phase>>
    BY <1>2 DEF StopFileWorkers
  <2> QED
    BY <2>2, <2>3, <2>4
<1>3. CASE GatherFileWorkers
  BY <1>3 DEF GatherFileWorkers
<1>4. CASE StopEmbedWorkers
  <2>1. embedQ' \in Seq(Chunks \cup {Sentinel})
    BY <1>4 DEF StopEmbedWorkers
  <2>2. /\ nput' \in Nat /\ pc = "stopEmbed"
        /\ \/ pc' = "gatherEmbed" /\ nput' = 0
           \/ pc' = "stopEmbed" /\ nput' < Cardinality(EmbedWorkers)
    <3> DEFINE n == Cardinality(EmbedWorkers)
    <3>1. pc = "stopEmbed" /\ n \in Nat /\ nput \in Nat /\ nput < n
      BY <1>4 DEF StopEmbedWorkers
    <3>2. IF nput + 1 = n THEN pc' = "gatherEmbed" /\ nput' = 0
                          ELSE pc' = pc /\ nput' = nput + 1
      BY <1>4 DEF StopEmbedWorkers, EmbedSentinels
    <3> HIDE DEF n, TypeInv, TypeOK, InBounds
    <3> QED
      <4>1. nput' \in Nat /\ (nput + 1 # n => nput + 1 < n)
        BY <3>1, <3>2
      <4> QED
        BY <3>1, <3>2, <4>1 DEF n
  <2>3. UNCHANGED <<fileQ, fileVars, batchVars, outVars, doneVars, phase>>
    BY <1>4 DEF StopEmbedWorkers
  <2> QED
    BY <2>1, <2>2, <2>3
<1>5. CASE GatherEmbedWorkers
  BY <1>5 DEF GatherEmbedWorkers
<1>6. CASE SetCounters
  BY <1>6 DEF SetCounters
<1>7. CASE MarkCompleted
  BY <1>7 DEF MarkCompleted
<1> QED
  BY <1>1, <1>2, <1>3, <1>4, <1>5, <1>6, <1>7 DEF Orchestrate

LEMMA TypeFileWorker ==
  ASSUME TypeInv, NEW w \in FileWorkers, FileWorker(w)
  PROVE  TypeInv'
<1> USE ConstantsAssumption DEF TypeInv, TypeOK, InBounds, Busy
<1>1. CASE FileGet(w)
  <2>a. fileQ # << >> /\ fileQ' = Tail(fileQ)
    BY <1>1 DEF FileGet
  <2>b. /\ Head(fileQ) \in {<<g, 0>> : g \in 0..NFiles}
        /\ fileQ' \in Seq({<<g, 0>> : g \in 0..NFiles})
    BY <2>a, HeadTailProperties
  <2>1. PICK f \in 0..NFiles : Head(fileQ) = <<f, 0>>
    BY <2>b
  <2>3. CASE f = 0
    BY <1>1, <2>1, <2>b, <2>3 DEF FileGet, Sentinel
  <2>4. CASE f # 0
    <3>1. <<f, 0>> # <<0, 0>> /\ <<f, 0>>[1] = f /\ f \in Files
      BY <2>4 DEF Files
    <3>2. /\ fst' = [fst EXCEPT ![w] = "process"]
          /\ cur' = [cur EXCEPT ![w] = f]
      BY <1>1, <2>1, <3>1 DEF FileGet, Sentinel
    <3> QED
      BY <1>1, <2>b, <3>1, <3>2 DEF FileGet
  <2> QED
    BY <2>3, <2>4
<1>2. CASE ProcessRaises(w)
  BY <1>2 DEF ProcessRaises
<1>3. CASE StoreChunk(w)
  <2>1. /\ fst[w] \in {"process", "store"} /\ Len(todo[w]) < MaxChunks
        /\ fst' = [fst EXCEPT ![w] = "store"]
        /\ todo' = [todo EXCEPT ![w] = Append(todo[w], <<cur[w], Len(todo[w]) + 1>>)]
        /\ chunkRows' = chunkRows \cup {<<cur[w], Len(todo[w]) + 1>>}
        /\ UNCHANGED <<orchVars, embedQ, cur, ok, fail, unqueued, batchVars, outVars,
                       doneVars, phase>>
    BY <1>3 DEF StoreChunk
  <2>2. cur[w] \in Files /\ todo[w] \in Seq(Chunks) /\ Len(todo[w]) + 1 \in 1..MaxChunks
    BY <2>1
  <2>3. <<cur[w], Len(todo[w]) + 1>> \in Chunks
    BY <2>2 DEF Chunks
  <2>4. todo' \in [FileWorkers -> Seq(Chunks)]
    BY <2>1, <2>2, <2>3
  <2> QED
    BY <2>1, <2>2, <2>3, <2>4
<1>6. CASE EnrichFails(w)
  <2>1. {todo[w][i] : i \in DOMAIN todo[w]} \subseteq Chunks
    OBVIOUS
  <2> QED
    BY <1>6, <2>1 DEF EnrichFails
<1>7. CASE ProcessChunks(w)
  BY <1>7 DEF ProcessChunks
<1>4. CASE PutChunk(w)
  <2>1. todo[w] \in Seq(Chunks) /\ todo[w] # << >>
    BY <1>4 DEF PutChunk
  <2>2. Head(todo[w]) \in Chunks /\ Tail(todo[w]) \in Seq(Chunks)
    BY <2>1, HeadTailProperties
  <2>3. embedQ' \in Seq(Chunks \cup {Sentinel})
    BY <1>4, <2>2 DEF PutChunk
  <2>4. todo' \in [FileWorkers -> Seq(Chunks)]
    BY <1>4, <2>2 DEF PutChunk
  <2> QED
    BY <1>4, <2>3, <2>4 DEF PutChunk
<1>5. CASE FileDone(w)
  BY <1>5 DEF FileDone
<1> QED
  BY <1>1, <1>2, <1>3, <1>4, <1>5, <1>6, <1>7 DEF FileWorker

LEMMA TypeFlush ==
  ASSUME TypeInv, NEW w \in EmbedWorkers, NEW n \in Nat, FlushReturns(w, n)
  PROVE  /\ est' \in [EmbedWorkers -> {"get", "collect", "embed", "publish", "done"}]
         /\ buf' \in [EmbedWorkers -> Seq(Chunks)]
         /\ sent' \in [EmbedWorkers -> Nat]
         /\ base' \in [EmbedWorkers -> Nat]
         /\ exit' = exit
         /\ embedded' \in Nat /\ settled' \subseteq Chunks
  BY DEF FlushReturns, TypeInv, TypeOK

LEMMA TypeEmbedWorker ==
  ASSUME TypeInv, NEW w \in EmbedWorkers, EmbedWorker(w)
  PROVE  TypeInv'
<1> USE ConstantsAssumption DEF TypeInv, TypeOK, InBounds, Busy
<1>1. CASE EmbedGet(w)
  <2>1. Head(embedQ) \in Chunks \cup {Sentinel} /\ embedQ' \in Seq(Chunks \cup {Sentinel})
    BY <1>1 DEF EmbedGet
  <2>2. CASE Head(embedQ) = Sentinel
    <3>1. /\ UNCHANGED <<orchVars, fileVars, buf, sent, outVars, doneVars, phase>>
          /\ exit' = [exit EXCEPT ![w] = "return"]
          /\ \E x \in {"embed", "done"} : est' = [est EXCEPT ![w] = x]
          /\ base' = base \/ base' = [base EXCEPT ![w] = embedded]
      BY <1>1, <2>2 DEF EmbedGet, Stops, ReceivedSentinel, BeginFlush
    <3> QED
      BY <2>1, <3>1
  <2>3. CASE Head(embedQ) # Sentinel
    <3>1. Received(w, Head(embedQ)) /\ Head(embedQ) \in Chunks
      BY <1>1, <2>1, <2>3 DEF EmbedGet, Stops
    <3>2. buf' \in [EmbedWorkers -> Seq(Chunks)]
      BY <3>1 DEF Received
    <3>3. /\ est' \in [EmbedWorkers -> {"get", "collect", "embed", "publish", "done"}]
          /\ base' \in [EmbedWorkers -> Nat]
      BY <3>1 DEF Received, BeginFlush
    <3> QED
      BY <1>1, <2>1, <3>1, <3>2, <3>3 DEF EmbedGet, Received
  <2> QED
    BY <2>2, <2>3
<1>2. CASE BatchTimeout(w)
  BY <1>2 DEF BatchTimeout, BeginFlush
<1>3. CASE FlushFails(w)
  <2>1. FlushReturns(w, 0)
    BY <1>3 DEF FlushFails, FailedCount
  <2> QED
    BY <1>3, <2>1, TypeFlush DEF FlushFails
<1>4. CASE EmbedBatch(w)
  BY <1>4 DEF EmbedBatch
<1>5. CASE SendChunk(w)
  <2>1. buf[w] \in Seq(Chunks) /\ sent[w] \in Nat /\ sent[w] < Len(buf[w])
    BY <1>5 DEF SendChunk
  <2>2. buf[w][sent[w] + 1] \in Chunks
    BY <2>1
  <2>a. published' \in [Chunks -> Nat]
    <3>1. published' = [published EXCEPT ![buf[w][sent[w] + 1]] = @ + 1]
      BY <1>5 DEF SendChunk
    <3> HIDE DEF TypeInv, TypeOK, InBounds
    <3>2. published \in [Chunks -> Nat]
      BY DEF TypeInv, TypeOK
    <3> QED
      BY <2>2, <3>1, <3>2
  <2>b. sent' \in [EmbedWorkers -> Nat]
    BY <1>5, <2>1 DEF SendChunk
  <2>c. UNCHANGED <<orchVars, embedQ, fileVars, est, buf, exit, base, embedded, vectors,
                    settled, doneVars, phase>>
    BY <1>5 DEF SendChunk
  <2> QED
    BY <2>a, <2>b, <2>c
<1>6. CASE FlushSucceeds(w)
  <2>1. FlushReturns(w, Len(buf[w])) /\ Len(buf[w]) \in Nat
    BY <1>6 DEF FlushSucceeds
  <2> QED
    BY <1>6, <2>1, TypeFlush DEF FlushSucceeds
<1> QED
  BY <1>1, <1>2, <1>3, <1>4, <1>5, <1>6 DEF EmbedWorker

LEMMA TypeShutDown == TypeInv /\ ShutDown => TypeInv'
<1> SUFFICES ASSUME TypeInv, ShutDown PROVE TypeInv'
  OBVIOUS
<1> USE DEF TypeInv, TypeOK, InBounds, Busy
<1>1. CASE Signal
  <2>1. /\ fst' \in [FileWorkers -> {"get", "process", "store", "put", "done"}]
        /\ \A w \in FileWorkers : fst'[w] \in {fst[w], "done"}
    BY <1>1 DEF Signal, CancelFileWorkers
  <2>2. /\ est' \in [EmbedWorkers -> {"get", "collect", "embed", "publish", "done"}]
        /\ buf' = buf /\ sent' \in [EmbedWorkers -> Nat]
        /\ exit' \in [EmbedWorkers -> {"loop", "return", "cancelled"}]
        /\ base' \in [EmbedWorkers -> Nat]
    <3>1. CASE CancelEmbedWorkers
      BY <3>1 DEF CancelEmbedWorkers
    <3>2. CASE UNCHANGED batchVars
      BY <3>2
    <3> QED
      BY <1>1, <3>1, <3>2 DEF Signal
  <2> QED
    BY <1>1, <2>1, <2>2 DEF Signal
<1>2. CASE StopProducer
  BY <1>2 DEF StopProducer
<1>3. CASE ClosePool
  BY <1>3 DEF ClosePool
<1>4. CASE TearDown
  BY <1>4 DEF TearDown, CancelFileWorkers, CancelEmbedWorkers
<1>5. CASE MarkFails
  BY <1>5 DEF MarkFails
<1> QED
  BY <1>1, <1>2, <1>3, <1>4, <1>5 DEF ShutDown

LEMMA TypeStep == TypeInv /\ [Next]_vars => TypeInv'
<1> SUFFICES ASSUME TypeInv, [Next]_vars PROVE TypeInv'
  OBVIOUS
<1>1. CASE Work
  BY <1>1, TypeOrchestrate, TypeFileWorker, TypeEmbedWorker DEF Work
<1>2. CASE ShutDown
  BY <1>2, TypeShutDown
<1>3. CASE UNCHANGED vars
  BY <1>3 DEF TypeInv, TypeOK, InBounds, Busy
<1> QED
  BY <1>1, <1>2, <1>3 DEF Next, Terminated

\* Every variable keeps its type (the state of IngestionProcessor's pipeline).
THEOREM TypeCorrect == Spec => []TypeOK
<1>1. TypeInv => TypeOK
  BY DEF TypeInv
<1> QED
  BY <1>1, TypeInit, TypeStep, PTL DEF Spec

-----------------------------------------------------------------------------
(* The two queues: items in order, then sentinels.                         *)

DoneFileWorkers == {w \in FileWorkers : fst[w] = "done"}
Returning == {w \in EmbedWorkers : exit[w] = "return"}

\* what the orchestrating coroutine has put so far
FilesPut == IF pc = "feed" THEN nput ELSE NFiles
FileSentinelsPut == IF pc = "feed" THEN 0 ELSE IF pc = "stopFiles" THEN nput
                    ELSE Cardinality(FileWorkers)
EmbedSentinelsPut == IF pc = "stopEmbed" THEN nput
                     ELSE IF pc \in {"feed", "stopFiles", "gatherFiles"} THEN 0
                     ELSE Cardinality(EmbedWorkers)

\* h files were taken; k more are in the queue, in order, then come sentinels.
\* Until a signal every file taken is counted or in work, every sentinel put is
\* in the queue or was taken by a worker that returned, and no worker returns
\* while there are files.
FileQueue(h, k) ==
    /\ k \in 0..Len(fileQ) /\ h + k <= NFiles
    /\ \A i \in 1..Len(fileQ) : fileQ[i] = IF i <= k THEN <<h + i, 0>> ELSE Sentinel
    /\ ok + fail + Cardinality(Busy) <= h
    /\ phase = "up" =>
         /\ ok + fail + Cardinality(Busy) = h
         /\ h + k = FilesPut
         /\ Len(fileQ) - k + Cardinality(DoneFileWorkers) = FileSentinelsPut
         /\ DoneFileWorkers # {} => k = 0
FilesQueued == \E h, k \in Nat : FileQueue(h, k)

\* The same of the embed queue, whose k chunks are in front of the sentinels; a
\* sentinel is there only when the file workers are done.
EmbedQueue(k) ==
    /\ k \in 0..Len(embedQ)
    /\ \A i \in 1..Len(embedQ) : i <= k <=> embedQ[i] # Sentinel
    /\ k # Len(embedQ) => FileWorkersDone
    /\ phase = "up" =>
         /\ Len(embedQ) - k + Cardinality(Returning) = EmbedSentinelsPut
         /\ Returning # {} => k = 0
ChunksQueued == \E k \in Nat : EmbedQueue(k)

\* Where the coroutine is says which workers are done, and a worker's state
\* what it holds.
StagesDone ==
    /\ pc \in {"stopEmbed", "gatherEmbed", "counters", "complete", "done"} => FileWorkersDone
    /\ pc \in {"counters", "complete", "done"} => \A w \in EmbedWorkers : est[w] = "done"
WorkerHolds(w) ==
    /\ est[w] \in {"get", "collect"} => exit[w] = "loop"
    /\ phase = "up" => exit[w] # "cancelled"
    /\ phase = "up" /\ est[w] = "done" => exit[w] = "return" /\ buf[w] = << >>
    /\ est[w] = "get" => buf[w] = << >>
    /\ est[w] \in {"collect", "embed", "publish"} => buf[w] # << >>
    /\ sent[w] <= Len(buf[w])
    /\ est[w] # "publish" => sent[w] = 0
WorkersHold == \A w \in EmbedWorkers : WorkerHolds(w)

Queues == FilesQueued /\ ChunksQueued /\ StagesDone /\ WorkersHold

-----------------------------------------------------------------------------
\* A worker that joins or leaves a set of workers changes its size by one.
LEMMA JoinLeave ==
  ASSUME NEW W, IsFiniteSet(W), NEW S \in SUBSET W, NEW w \in W
  PROVE  /\ IsFiniteSet(S) /\ Cardinality(S) \in Nat
         /\ w \notin S => Cardinality(S \cup {w}) = Cardinality(S) + 1
         /\ w \in S => Cardinality(S \ {w}) = Cardinality(S) - 1
         /\ Cardinality(S) = 0 <=> S = {}
<1>1. IsFiniteSet(S)
  BY FS_Subset
<1> QED
  BY <1>1, FS_CardinalityType, FS_AddElement, FS_RemoveElement, FS_EmptySet

\* The first element of a queue, and the queue without it.
LEMMA Taken ==
  ASSUME NEW S, NEW q \in Seq(S), q # << >>
  PROVE  /\ Len(q) \in Nat \ {0} /\ Head(q) = q[1] /\ Head(q) \in S
         /\ Tail(q) \in Seq(S) /\ Len(Tail(q)) = Len(q) - 1
         /\ \A i \in 1..Len(q) - 1 : Tail(q)[i] = q[i + 1]
<1>1. Len(q) \in Nat \ {0}
  BY EmptySeq
<1> QED
  BY <1>1, HeadTailProperties

\* A queue with an element at its end.
LEMMA Put ==
  ASSUME NEW S, NEW q \in Seq(S), NEW x \in S
  PROVE  /\ Append(q, x) \in Seq(S) /\ Len(Append(q, x)) = Len(q) + 1
         /\ \A i \in 1..Len(q) : Append(q, x)[i] = q[i]
         /\ Append(q, x)[Len(q) + 1] = x
  BY AppendProperties

LEMMA BatchGrows ==
  \A q \in Seq(Chunks), x \in Chunks :
      Len(Append(q, x)) = Len(q) + 1 /\ Append(q, x) # << >>
  BY AppendProperties

LEMMA StagesStep == TypeInv /\ StagesDone /\ [Next]_vars => StagesDone'
<1> SUFFICES ASSUME TypeInv, StagesDone, [Next]_vars PROVE StagesDone'
  OBVIOUS
<1> USE DEF TypeInv, TypeOK, InBounds, StagesDone, FileWorkersDone
<1>1. CASE Orchestrate
  BY <1>1 DEF Orchestrate, FeedFile, StopFileWorkers, GatherFileWorkers, StopEmbedWorkers,
              GatherEmbedWorkers, SetCounters, MarkCompleted
<1>2. ASSUME NEW w \in FileWorkers, FileWorker(w) PROVE StagesDone'
  <2>1. fst[w] # "done" /\ pc' = pc /\ est' = est
    BY <1>2 DEF FileWorker, FileGet, ProcessRaises, StoreChunk, EnrichFails, ProcessChunks, PutChunk, FileDone
  <2> QED
    BY <2>1
<1>3. ASSUME NEW w \in EmbedWorkers, EmbedWorker(w) PROVE StagesDone'
  <2>1. est[w] # "done" /\ pc' = pc /\ fst' = fst
    BY <1>3 DEF EmbedWorker, EmbedGet, BatchTimeout, FlushFails, EmbedBatch, SendChunk,
                FlushSucceeds
  <2> QED
    BY <2>1
<1>4. CASE ShutDown
  <2>1. pc' = "cancelled"
    BY <1>4 DEF ShutDown, Signal, MarkFails, StopProducer, ClosePool, TearDown
  <2> QED
    BY <2>1
<1>5. CASE UNCHANGED vars
  BY <1>5
<1> QED
  BY <1>1, <1>2, <1>3, <1>4, <1>5 DEF Next, Work, Terminated

\* A flush forgets the batch, and ends a worker that was told to stop.
LEMMA FlushHolds ==
  ASSUME TypeInv, WorkersHold, NEW w \in EmbedWorkers, NEW n \in Nat, FlushReturns(w, n),
         est[w] \in {"embed", "publish"}, UNCHANGED phase
  PROVE  WorkersHold'
<1> USE DEF TypeInv, TypeOK, InBounds
<1> SUFFICES ASSUME NEW v \in EmbedWorkers PROVE WorkerHolds(v)'
  BY DEF WorkersHold
<1>1. WorkerHolds(v)
  BY DEF WorkersHold
<1>2. exit' = exit
  BY DEF FlushReturns
<1>3. CASE v = w
  <2>1. /\ buf'[v] = << >> /\ sent'[v] = 0
        /\ est'[v] = IF exit[v] = "loop" THEN "get" ELSE "done"
    BY <1>3 DEF FlushReturns
  <2>2. Len(buf'[v]) = 0
    BY <2>1
  <2> QED
    BY <1>1, <1>2, <1>3, <2>1, <2>2 DEF WorkerHolds
<1>4. CASE v # w
  <2>1. buf'[v] = buf[v] /\ sent'[v] = sent[v] /\ est'[v] = est[v]
    BY <1>4 DEF FlushReturns
  <2> QED
    BY <1>1, <1>2, <2>1 DEF WorkerHolds
<1> QED
  BY <1>3, <1>4

LEMMA HoldEmbedWorker ==
  ASSUME TypeInv, WorkersHold, NEW w \in EmbedWorkers, EmbedWorker(w)
  PROVE  WorkersHold'
<1> USE DEF TypeInv, TypeOK, InBounds
<1>a. phase' = phase
  BY DEF EmbedWorker, EmbedGet, BatchTimeout, FlushFails, EmbedBatch, SendChunk, FlushSucceeds
<1>1. CASE EmbedGet(w)
  <2> SUFFICES ASSUME NEW v \in EmbedWorkers PROVE WorkerHolds(v)'
    BY DEF WorkersHold
  <2>1. WorkerHolds(v) /\ sent' = sent /\ est[w] \in {"get", "collect"}
    BY <1>1 DEF WorkersHold, EmbedGet
  <2>2. CASE v # w
    <3>1. buf'[v] = buf[v] /\ est'[v] = est[v] /\ exit'[v] = exit[v]
      BY <1>1, <2>2 DEF EmbedGet, Received, ReceivedSentinel, BeginFlush
    <3> QED
      BY <1>a, <2>1, <3>1 DEF WorkerHolds
  <2>3. CASE v = w /\ ReceivedSentinel(w)
    <3>1. /\ buf'[v] = buf[v] /\ exit'[v] = "return"
          /\ est'[v] = IF buf[v] = << >> THEN "done" ELSE "embed"
      BY <2>3 DEF ReceivedSentinel, BeginFlush
    <3> QED
      BY <1>a, <2>1, <2>3, <3>1 DEF WorkerHolds
  <2>4. CASE v = w /\ Head(embedQ) # Sentinel /\ Received(w, Head(embedQ))
    <3>1. Head(embedQ) \in Chunks
      BY <1>1, <2>4, Taken DEF EmbedGet
    <3>2. /\ buf'[v] = Append(buf[v], Head(embedQ)) /\ exit'[v] = exit[v]
          /\ est'[v] \in {"collect", "embed"}
      BY <2>4 DEF Received, BeginFlush
    <3>3. buf[v] \in Seq(Chunks) /\ Len(buf[v]) \in Nat
      OBVIOUS
    <3>4. /\ Len(Append(buf[v], Head(embedQ))) = Len(buf[v]) + 1
          /\ Append(buf[v], Head(embedQ)) # << >>
      BY <3>1, <3>3, BatchGrows, Zenon
    <3>5. buf'[v] # << >> /\ Len(buf'[v]) = Len(buf[v]) + 1
      BY <3>2, <3>4
    <3> QED
      BY <1>a, <2>1, <2>4, <3>2, <3>3, <3>5 DEF WorkerHolds
  <2> QED
    BY <1>1, <2>2, <2>3, <2>4 DEF EmbedGet, Stops
<1>2. CASE BatchTimeout(w)
  BY <1>2 DEF BatchTimeout, BeginFlush, WorkersHold, WorkerHolds
<1>3. CASE FlushFails(w)
  BY <1>3, FlushHolds DEF FlushFails, FailedCount
<1>4. CASE EmbedBatch(w)
  BY <1>4 DEF EmbedBatch, WorkersHold, WorkerHolds
<1>5. CASE SendChunk(w)
  BY <1>5 DEF SendChunk, WorkersHold, WorkerHolds
<1>6. CASE FlushSucceeds(w)
  BY <1>6, FlushHolds DEF FlushSucceeds
<1> QED
  BY <1>1, <1>2, <1>3, <1>4, <1>5, <1>6 DEF EmbedWorker

\* A cancelled worker starts its flush again, or is done.
LEMMA HoldCancelled ==
  ASSUME TypeInv, WorkersHold, CancelEmbedWorkers, phase' # "up"
  PROVE  WorkersHold'
<1> USE DEF TypeInv, TypeOK, InBounds
<1> SUFFICES ASSUME NEW v \in EmbedWorkers PROVE WorkerHolds(v)'
  BY DEF WorkersHold
<1>1. WorkerHolds(v) /\ buf' = buf /\ sent'[v] = 0 /\ Len(buf[v]) \in Nat
  BY DEF WorkersHold, CancelEmbedWorkers
<1>2. \/ est[v] \in {"collect", "embed", "publish"} /\ est'[v] = "embed" /\ exit'[v] = "cancelled"
      \/ est'[v] = "done"
  BY DEF CancelEmbedWorkers
<1> QED
  BY <1>1, <1>2 DEF WorkerHolds

LEMMA HoldStep == TypeInv /\ WorkersHold /\ [Next]_vars => WorkersHold'
<1> SUFFICES ASSUME TypeInv, WorkersHold, [Next]_vars PROVE WorkersHold'
  OBVIOUS
<1>1. CASE Orchestrate
  <2>1. UNCHANGED <<batchVars, phase>>
    BY <1>1 DEF Orchestrate, FeedFile, StopFileWorkers, GatherFileWorkers, StopEmbedWorkers,
                GatherEmbedWorkers, SetCounters, MarkCompleted
  <2> QED
    BY <2>1 DEF WorkersHold, WorkerHolds
<1>2. ASSUME NEW w \in FileWorkers, FileWorker(w) PROVE WorkersHold'
  <2>1. UNCHANGED <<batchVars, phase>>
    BY <1>2 DEF FileWorker, FileGet, ProcessRaises, StoreChunk, EnrichFails, ProcessChunks, PutChunk, FileDone
  <2> QED
    BY <2>1 DEF WorkersHold, WorkerHolds
<1>3. CASE Signal
  <2>1. phase' # "up"
    BY <1>3 DEF Signal
  <2>2. CASE CancelEmbedWorkers
    BY <2>1, <2>2, HoldCancelled
  <2>3. CASE UNCHANGED batchVars
    BY <2>1, <2>3 DEF WorkersHold, WorkerHolds
  <2> QED
    BY <1>3, <2>2, <2>3 DEF Signal
<1>4. CASE MarkFails \/ StopProducer \/ ClosePool
  BY <1>4 DEF MarkFails, StopProducer, ClosePool, WorkersHold, WorkerHolds
<1>5. CASE TearDown
  BY <1>5, HoldCancelled DEF TearDown
<1>6. CASE UNCHANGED vars
  BY <1>6 DEF WorkersHold, WorkerHolds
<1> QED
  BY <1>1, <1>2, <1>3, <1>4, <1>5, <1>6, HoldEmbedWorker DEF Next, Work, ShutDown, Terminated

-----------------------------------------------------------------------------
(* The embed queue.                                                        *)

LEMMA ReturningCounted ==
  TypeInv => /\ IsFiniteSet(Returning) /\ Cardinality(Returning) \in Nat
             /\ Cardinality(Returning) = 0 <=> Returning = {}
<1>1. Returning \subseteq EmbedWorkers
  BY DEF Returning
<1>2. PICK w : w \in EmbedWorkers
  BY ConstantsAssumption
<1> QED
  BY <1>1, <1>2, JoinLeave, ConstantsAssumption

\* One more chunk, or one more sentinel.
LEMMA QueueGrows ==
  ASSUME TypeInv, StagesDone, ChunksQueued, NEW x \in Chunks \cup {Sentinel},
         embedQ' = Append(embedQ, x), fst' = fst \/ FileWorkersDone', exit' = exit,
         phase' = phase,
         \/ /\ x # Sentinel /\ ~FileWorkersDone /\ EmbedSentinelsPut' = EmbedSentinelsPut
            /\ phase = "up" => EmbedSentinelsPut = 0
         \/ /\ x = Sentinel /\ FileWorkersDone'
            /\ phase = "up" => EmbedSentinelsPut' = EmbedSentinelsPut + 1
  PROVE  ChunksQueued'
<1> USE DEF TypeInv, TypeOK
<1>1. PICK k \in Nat : EmbedQueue(k)
  BY DEF ChunksQueued
<1>2. /\ embedQ' \in Seq(Chunks \cup {Sentinel}) /\ Len(embedQ') = Len(embedQ) + 1
      /\ \A i \in 1..Len(embedQ) : embedQ'[i] = embedQ[i]
      /\ embedQ'[Len(embedQ) + 1] = x
  BY Put
<1>3. Len(embedQ) \in Nat /\ Returning' = Returning
  BY DEF Returning
<1>4. CASE x # Sentinel
  <2>1. k = Len(embedQ)
    BY <1>1, <1>4 DEF EmbedQueue
  <2>2. phase = "up" => Returning = {}
    BY <1>1, <1>4, <2>1, ReturningCounted DEF EmbedQueue
  <2>3. EmbedQueue(k + 1)'
    BY <1>1, <1>2, <1>3, <1>4, <2>1, <2>2 DEF EmbedQueue
  <2> QED
    BY <2>3 DEF ChunksQueued
<1>5. CASE x = Sentinel
  <2>1. k \in 0..Len(embedQ) /\ k \in 0..Len(embedQ') /\ FileWorkersDone'
    BY <1>1, <1>2, <1>3, <1>5 DEF EmbedQueue
  <2>2. \A i \in 1..Len(embedQ') : i <= k <=> embedQ'[i] # Sentinel
    BY <1>1, <1>2, <1>3, <1>5, <2>1 DEF EmbedQueue
  <2>3. phase' = "up" =>
          /\ Len(embedQ') - k + Cardinality(Returning') = EmbedSentinelsPut'
          /\ Returning' # {} => k = 0
    BY <1>1, <1>2, <1>3, <1>5, <2>1, ReturningCounted DEF EmbedQueue
  <2>4. EmbedQueue(k)'
    BY <2>1, <2>2, <2>3 DEF EmbedQueue
  <2> QED
    BY <2>4 DEF ChunksQueued
<1> QED
  BY <1>4, <1>5

\* A worker takes the first chunk, or a sentinel and is told to return.
LEMMA QueueShrinks ==
  ASSUME TypeInv, WorkersHold, ChunksQueued, NEW w \in EmbedWorkers, EmbedGet(w)
  PROVE  ChunksQueued'
<1> USE DEF TypeInv, TypeOK
<1>1. PICK k \in Nat : EmbedQueue(k)
  BY DEF ChunksQueued
<1>2. /\ embedQ # << >> /\ embedQ' = Tail(embedQ) /\ exit[w] = "loop"
      /\ UNCHANGED <<pc, nput, fst, phase>>
  BY DEF EmbedGet, WorkersHold, WorkerHolds
<1>3. /\ Len(embedQ) \in Nat \ {0} /\ Head(embedQ) = embedQ[1]
      /\ embedQ' \in Seq(Chunks \cup {Sentinel}) /\ Len(embedQ') = Len(embedQ) - 1
      /\ \A i \in 1..Len(embedQ) - 1 : embedQ'[i] = embedQ[i + 1]
  BY <1>2, Taken
<1>4. FileWorkersDone' = FileWorkersDone /\ EmbedSentinelsPut' = EmbedSentinelsPut
  BY <1>2 DEF FileWorkersDone, EmbedSentinelsPut
<1>5. CASE Head(embedQ) = Sentinel
  <2>1. k = 0
    BY <1>1, <1>3, <1>5 DEF EmbedQueue
  <2>2. exit' = [exit EXCEPT ![w] = "return"]
    BY <1>5 DEF EmbedGet, Stops, ReceivedSentinel
  <2>3. Returning' = Returning \cup {w} /\ w \notin Returning
    BY <1>2, <2>2 DEF Returning
  <2>4. Cardinality(Returning') = Cardinality(Returning) + 1
    BY <2>3, ReturningCounted, FS_AddElement
  <2>5. EmbedQueue(0)'
    BY <1>1, <1>2, <1>3, <1>4, <2>1, <2>4, ReturningCounted DEF EmbedQueue
  <2> QED
    BY <2>5 DEF ChunksQueued
<1>6. CASE Head(embedQ) # Sentinel
  <2>1. k # 0
    BY <1>1, <1>3, <1>6 DEF EmbedQueue
  <2>2. Returning' = Returning
    BY <1>6 DEF EmbedGet, Stops, Received, Returning
  <2>3. k - 1 \in 0..Len(embedQ') /\ (k - 1 # Len(embedQ') => FileWorkersDone')
    BY <1>1, <1>3, <1>4, <2>1 DEF EmbedQueue
  <2>4. \A i \in 1..Len(embedQ') : i <= k - 1 <=> embedQ'[i] # Sentinel
    BY <1>1, <1>3, <2>1 DEF EmbedQueue
  <2>5. phase' = "up" =>
          /\ Len(embedQ') - (k - 1) + Cardinality(Returning') = EmbedSentinelsPut'
          /\ Returning' # {} => k - 1 = 0
    <3>1. phase' = phase /\ Cardinality(Returning) \in Nat
      BY <1>2, ReturningCounted
    <3>2. phase = "up" => Returning = {}
      BY <1>1, <2>1 DEF EmbedQueue
    <3>3. phase = "up" => Len(embedQ) - k + Cardinality(Returning) = EmbedSentinelsPut
      BY <1>1 DEF EmbedQueue
    <3>4. Len(embedQ') - (k - 1) = Len(embedQ) - k
      BY <1>3
    <3> QED
      BY <1>4, <2>2, <3>1, <3>2, <3>3, <3>4
  <2>6. EmbedQueue(k - 1)'
    BY <2>3, <2>4, <2>5 DEF EmbedQueue
  <2> QED
    BY <2>1, <2>6 DEF ChunksQueued
<1> QED
  BY <1>5, <1>6

\* A step that neither puts nor takes.
LEMMA QueueKept ==
  ASSUME TypeInv, ChunksQueued, embedQ' = embedQ, FileWorkersDone => FileWorkersDone',
         phase' # "up" \/ (/\ phase' = phase /\ exit' = exit
                           /\ EmbedSentinelsPut' = EmbedSentinelsPut)
  PROVE  ChunksQueued'
<1>1. PICK k \in Nat : EmbedQueue(k)
  BY DEF ChunksQueued
<1>2. EmbedQueue(k)'
  BY <1>1 DEF EmbedQueue, Returning
<1> QED
  BY <1>2 DEF ChunksQueued

LEMMA ChunksQueuedStep ==
  TypeInv /\ StagesDone /\ WorkersHold /\ ChunksQueued /\ [Next]_vars => ChunksQueued'
<1> SUFFICES ASSUME TypeInv, StagesDone, WorkersHold, ChunksQueued, [Next]_vars
             PROVE  ChunksQueued'
  OBVIOUS
<1> USE ConstantsAssumption, WorkersCounted DEF TypeInv, TypeOK, InBounds
<1>1. CASE StopEmbedWorkers
  <2>1. /\ embedQ' = Append(embedQ, Sentinel) /\ UNCHANGED <<fst, exit, phase>>
        /\ pc = "stopEmbed" /\ FileWorkersDone /\ nput \in Nat
        /\ IF nput + 1 = Cardinality(EmbedWorkers)
             THEN pc' = "gatherEmbed" /\ nput' = 0 ELSE pc' = pc /\ nput' = nput + 1
    BY <1>1 DEF StopEmbedWorkers, EmbedSentinels, StagesDone
  <2>2. EmbedSentinelsPut' = EmbedSentinelsPut + 1 /\ FileWorkersDone'
    BY <2>1 DEF EmbedSentinelsPut, FileWorkersDone
  <2> QED
    BY <2>1, <2>2, QueueGrows
<1>2. CASE Orchestrate /\ ~StopEmbedWorkers
  <2>1. /\ embedQ' = embedQ /\ UNCHANGED <<fst, exit, phase>>
        /\ EmbedSentinelsPut' = EmbedSentinelsPut
    BY <1>2 DEF Orchestrate, FeedFile, StopFileWorkers, GatherFileWorkers,
                GatherEmbedWorkers, SetCounters, MarkCompleted, EmbedSentinelsPut
  <2> QED
    BY <2>1, QueueKept DEF FileWorkersDone
<1>3. ASSUME NEW w \in FileWorkers, PutChunk(w) PROVE ChunksQueued'
  <2>1. /\ embedQ' = Append(embedQ, Head(todo[w])) /\ UNCHANGED <<pc, nput, fst, exit, phase>>
        /\ fst[w] = "put" /\ todo[w] # << >>
    BY <1>3 DEF PutChunk
  <2>2. Head(todo[w]) \in Chunks /\ Head(todo[w]) # Sentinel
    BY <2>1, Taken, SentinelNoChunk
  <2>3. /\ ~FileWorkersDone /\ EmbedSentinelsPut' = EmbedSentinelsPut
        /\ phase = "up" => EmbedSentinelsPut = 0
    BY <2>1 DEF FileWorkersDone, EmbedSentinelsPut, StagesDone
  <2> QED
    BY <2>1, <2>2, <2>3, QueueGrows
<1>4. ASSUME NEW w \in FileWorkers, FileWorker(w), ~PutChunk(w) PROVE ChunksQueued'
  <2>1. /\ embedQ' = embedQ /\ UNCHANGED <<pc, nput, exit, phase>> /\ fst[w] # "done"
    BY <1>4 DEF FileWorker, FileGet, ProcessRaises, StoreChunk, EnrichFails, ProcessChunks, FileDone
  <2> QED
    BY <2>1, QueueKept DEF FileWorkersDone, EmbedSentinelsPut
<1>5. ASSUME NEW w \in EmbedWorkers, EmbedWorker(w), ~EmbedGet(w) PROVE ChunksQueued'
  <2>1. /\ embedQ' = embedQ /\ UNCHANGED <<pc, nput, exit, phase, fst>>
    BY <1>5 DEF EmbedWorker, BatchTimeout, FlushFails, EmbedBatch, SendChunk, FlushSucceeds,
                FlushReturns
  <2> QED
    BY <2>1, QueueKept DEF FileWorkersDone, EmbedSentinelsPut
<1>6. CASE ShutDown
  <2>1. /\ embedQ' = embedQ /\ phase' # "up"
        /\ fst' = fst \/ \A w \in FileWorkers : fst'[w] = "done"
    BY <1>6 DEF ShutDown, Signal, MarkFails, StopProducer, ClosePool, TearDown, CancelFileWorkers
  <2> QED
    BY <2>1, QueueKept DEF FileWorkersDone
<1>7. CASE UNCHANGED vars
  BY <1>7, QueueKept DEF FileWorkersDone, EmbedSentinelsPut
<1> QED
  BY <1>1, <1>2, <1>3, <1>4, <1>5, <1>6, <1>7, QueueShrinks DEF Next, Work, Terminated

-----------------------------------------------------------------------------
(* The file queue.                                                         *)

LEMMA FileWorkersCounted ==
  TypeInv => /\ Cardinality(Busy) \in Nat /\ Cardinality(DoneFileWorkers) \in Nat
             /\ Cardinality(DoneFileWorkers) = 0 <=> DoneFileWorkers = {}
             /\ IsFiniteSet(Busy) /\ IsFiniteSet(DoneFileWorkers)
<1>1. Busy \subseteq FileWorkers /\ DoneFileWorkers \subseteq FileWorkers
  BY DEF Busy, DoneFileWorkers
<1>2. PICK w : w \in FileWorkers
  BY ConstantsAssumption
<1> QED
  BY <1>1, <1>2, JoinLeave, ConstantsAssumption

\* The numbers the file queue is about.
LEMMA FileNumbers ==
  TypeInv => /\ nput \in Nat /\ ok \in Nat /\ fail \in Nat /\ NFiles \in Nat
             /\ Len(fileQ) \in Nat /\ fileQ \in Seq({<<f, 0>> : f \in 0..NFiles})
             /\ Cardinality(Busy) \in Nat /\ Cardinality(DoneFileWorkers) \in Nat
             /\ FilesPut \in Nat /\ FileSentinelsPut \in Nat
  BY FileWorkersCounted, WorkersCounted, ConstantsAssumption
     DEF TypeInv, TypeOK, FilesPut, FileSentinelsPut

LEMMA FilesFed == TypeInv /\ FilesQueued /\ FeedFile => FilesQueued'
<1> SUFFICES ASSUME TypeInv, FilesQueued, FeedFile PROVE FilesQueued'
  OBVIOUS
<1>t. /\ nput \in Nat /\ ok \in Nat /\ fail \in Nat /\ NFiles \in Nat
      /\ Len(fileQ) \in Nat /\ fileQ \in Seq({<<f, 0>> : f \in 0..NFiles})
      /\ Cardinality(Busy) \in Nat /\ Cardinality(DoneFileWorkers) \in Nat
      /\ FilesPut \in Nat /\ FileSentinelsPut \in Nat
  BY FileNumbers
<1>1. PICK h, k \in Nat : FileQueue(h, k)
  BY DEF FilesQueued
<1>2. /\ pc = "feed" /\ phase = "up" /\ fileQ' = Append(fileQ, <<nput + 1, 0>>)
      /\ UNCHANGED <<fst, ok, fail, phase>> /\ nput < NFiles
      /\ IF nput + 1 = NFiles THEN pc' = "stopFiles" /\ nput' = 0
                              ELSE pc' = pc /\ nput' = nput + 1
  BY DEF FeedFile, TypeInv, InBounds
<1>3. <<nput + 1, 0>> \in {<<f, 0>> : f \in 0..NFiles}
  BY <1>2, <1>t
<1>4. /\ Len(fileQ') = Len(fileQ) + 1 /\ fileQ'[Len(fileQ) + 1] = <<nput + 1, 0>>
      /\ \A i \in 1..Len(fileQ) : fileQ'[i] = fileQ[i]
  BY <1>2, <1>3, <1>t, Put
<1>5. Len(fileQ) = k /\ h + k = nput /\ DoneFileWorkers = {}
  <2>1. FilesPut = nput /\ FileSentinelsPut = 0
    BY <1>2 DEF FilesPut, FileSentinelsPut
  <2>2. Len(fileQ) - k + Cardinality(DoneFileWorkers) = 0 /\ h + k = nput /\ k <= Len(fileQ)
    BY <1>1, <1>2, <2>1 DEF FileQueue
  <2>3. Len(fileQ) = k /\ Cardinality(DoneFileWorkers) = 0
    BY <1>t, <2>2
  <2> QED
    BY <2>2, <2>3, FileWorkersCounted
<1>6. /\ FilesPut' = nput + 1 /\ FileSentinelsPut' = 0
      /\ Busy' = Busy /\ DoneFileWorkers' = DoneFileWorkers
  BY <1>2, <1>t DEF FilesPut, FileSentinelsPut, Busy, DoneFileWorkers
<1>7. \A i \in 1..Len(fileQ') :
          fileQ'[i] = IF i <= k + 1 THEN <<h + i, 0>> ELSE Sentinel
  <2> TAKE i \in 1..Len(fileQ')
  <2>1. CASE i \in 1..Len(fileQ)
    BY <1>1, <1>4, <1>5, <2>1 DEF FileQueue
  <2>2. CASE i = k + 1
    <3>1. h + i = nput + 1
      BY <1>5, <2>2
    <3> QED
      BY <1>4, <1>5, <2>2, <3>1
  <2> QED
    BY <1>4, <1>5, <1>t, <2>1, <2>2
<1>8. FileQueue(h, k + 1)'
  <2>1. k + 1 \in 0..Len(fileQ') /\ h + (k + 1) <= NFiles
    BY <1>2, <1>4, <1>5, <1>t
  <2>2. ok' + fail' + Cardinality(Busy') = h
    BY <1>1, <1>2, <1>6 DEF FileQueue
  <2>3. /\ h + (k + 1) = FilesPut' /\ DoneFileWorkers' = {}
        /\ Len(fileQ') - (k + 1) + Cardinality(DoneFileWorkers') = FileSentinelsPut'
    BY <1>4, <1>5, <1>6, <1>t, FileWorkersCounted
  <2> QED
    BY <1>7, <2>1, <2>2, <2>3 DEF FileQueue
<1> QED
  BY <1>8 DEF FilesQueued

LEMMA FilesStopped == TypeInv /\ FilesQueued /\ StopFileWorkers => FilesQueued'
<1> SUFFICES ASSUME TypeInv, FilesQueued, StopFileWorkers PROVE FilesQueued'
  OBVIOUS
<1>t. /\ nput \in Nat /\ ok \in Nat /\ fail \in Nat /\ NFiles \in Nat
      /\ Len(fileQ) \in Nat /\ fileQ \in Seq({<<f, 0>> : f \in 0..NFiles})
      /\ Cardinality(Busy) \in Nat /\ Cardinality(DoneFileWorkers) \in Nat
      /\ FilesPut \in Nat /\ FileSentinelsPut \in Nat
  BY FileNumbers
<1>1. PICK h, k \in Nat : FileQueue(h, k)
  BY DEF FilesQueued
<1>2. /\ pc = "stopFiles" /\ phase = "up" /\ fileQ' = Append(fileQ, Sentinel)
      /\ UNCHANGED <<fst, ok, fail, phase>> /\ nput < Cardinality(FileWorkers)
      /\ IF nput + 1 = Cardinality(FileWorkers) THEN pc' = "gatherFiles" /\ nput' = 0
                                                ELSE pc' = pc /\ nput' = nput + 1
  BY DEF StopFileWorkers, TypeInv, InBounds
<1>3. Sentinel \in {<<f, 0>> : f \in 0..NFiles}
  BY <1>t DEF Sentinel
<1>4. /\ Len(fileQ') = Len(fileQ) + 1 /\ fileQ'[Len(fileQ) + 1] = Sentinel
      /\ \A i \in 1..Len(fileQ) : fileQ'[i] = fileQ[i]
  BY <1>2, <1>3, <1>t, Put
<1>5. /\ FilesPut' = FilesPut /\ FileSentinelsPut' = FileSentinelsPut + 1
      /\ Busy' = Busy /\ DoneFileWorkers' = DoneFileWorkers
  BY <1>2, <1>t, WorkersCounted DEF FilesPut, FileSentinelsPut, Busy, DoneFileWorkers
<1>6. k \in 0..Len(fileQ) /\ k \in 0..Len(fileQ')
  BY <1>1, <1>4, <1>t DEF FileQueue
<1>7. \A i \in 1..Len(fileQ') : fileQ'[i] = IF i <= k THEN <<h + i, 0>> ELSE Sentinel
  <2> TAKE i \in 1..Len(fileQ')
  <2>1. i \in 1..Len(fileQ) \/ (i = Len(fileQ) + 1 /\ ~(i <= k))
    BY <1>4, <1>6, <1>t
  <2> QED
    BY <1>1, <1>4, <2>1 DEF FileQueue
<1>8. Len(fileQ') - k + Cardinality(DoneFileWorkers') = FileSentinelsPut'
  <2>1. Len(fileQ) - k + Cardinality(DoneFileWorkers) = FileSentinelsPut
    BY <1>1, <1>2 DEF FileQueue
  <2> QED
    BY <1>4, <1>5, <1>6, <1>t, <2>1
<1>9. FileQueue(h, k)'
  BY <1>1, <1>2, <1>5, <1>6, <1>7, <1>8 DEF FileQueue
<1> QED
  BY <1>9 DEF FilesQueued

LEMMA FileTaken ==
  ASSUME TypeInv, FilesQueued, NEW w \in FileWorkers, FileGet(w)
  PROVE  FilesQueued'
<1>t. /\ nput \in Nat /\ ok \in Nat /\ fail \in Nat /\ NFiles \in Nat
      /\ Len(fileQ) \in Nat /\ fileQ \in Seq({<<f, 0>> : f \in 0..NFiles})
      /\ Cardinality(Busy) \in Nat /\ Cardinality(DoneFileWorkers) \in Nat
      /\ FilesPut \in Nat /\ FileSentinelsPut \in Nat
  BY FileNumbers
<1>1. PICK h, k \in Nat : FileQueue(h, k)
  BY DEF FilesQueued
<1>2. /\ fst[w] = "get" /\ fileQ # << >> /\ fileQ' = Tail(fileQ)
      /\ UNCHANGED <<pc, nput, ok, fail, phase>>
  BY DEF FileGet
<1>3. /\ Len(fileQ) \in Nat \ {0} /\ Head(fileQ) = fileQ[1] /\ Len(fileQ') = Len(fileQ) - 1
      /\ \A i \in 1..Len(fileQ) - 1 : fileQ'[i] = fileQ[i + 1]
  BY <1>2, <1>t, Taken
<1>4. FilesPut' = FilesPut /\ FileSentinelsPut' = FileSentinelsPut
  BY <1>2 DEF FilesPut, FileSentinelsPut
<1>5. CASE Head(fileQ) = Sentinel
  <2>1. k = 0
    <3>1. fileQ[1] = IF 1 <= k THEN <<h + 1, 0>> ELSE Sentinel
      BY <1>1, <1>3 DEF FileQueue
    <3>2. <<h + 1, 0>> # <<0, 0>>
      OBVIOUS
    <3> QED
      BY <1>3, <1>5, <3>1, <3>2 DEF Sentinel
  <2>2. fst' = [fst EXCEPT ![w] = "done"]
    BY <1>5 DEF FileGet
  <2>3. /\ Busy' = Busy /\ DoneFileWorkers' = DoneFileWorkers \cup {w}
        /\ w \notin DoneFileWorkers
    BY <1>2, <2>2 DEF Busy, DoneFileWorkers, TypeInv, TypeOK
  <2>4. Cardinality(DoneFileWorkers') = Cardinality(DoneFileWorkers) + 1
    BY <2>3, FileWorkersCounted, FS_AddElement
  <2>5. \A i \in 1..Len(fileQ') : fileQ'[i] = Sentinel
    <3> TAKE i \in 1..Len(fileQ')
    <3>1. i + 1 \in 1..Len(fileQ) /\ ~(i + 1 <= 0) /\ fileQ'[i] = fileQ[i + 1]
      BY <1>3, <1>t
    <3> QED
      BY <1>1, <2>1, <3>1 DEF FileQueue
  <2>6. /\ 0 \in 0..Len(fileQ') /\ h + 0 <= NFiles
        /\ \A i \in 1..Len(fileQ') : ~(i <= 0)
    BY <1>1, <1>3, <1>t, <2>1 DEF FileQueue
  <2>7. phase' = "up" =>
          /\ ok' + fail' + Cardinality(Busy') = h
          /\ h + 0 = FilesPut'
          /\ Len(fileQ') - 0 + Cardinality(DoneFileWorkers') = FileSentinelsPut'
    <3>1. phase = "up" =>
            /\ ok + fail + Cardinality(Busy) = h /\ h + 0 = FilesPut
            /\ Len(fileQ) - 0 + Cardinality(DoneFileWorkers) = FileSentinelsPut
      BY <1>1, <2>1 DEF FileQueue
    <3> QED
      BY <1>2, <1>3, <1>4, <1>t, <2>3, <2>4, <3>1
  <2>8. ok' + fail' + Cardinality(Busy') <= h
    BY <1>1, <1>2, <2>3 DEF FileQueue
  <2>9. FileQueue(h, 0)'
    BY <2>5, <2>6, <2>7, <2>8 DEF FileQueue
  <2> QED
    BY <2>9 DEF FilesQueued
<1>6. CASE Head(fileQ) # Sentinel
  <2>1. k # 0
    <3>1. fileQ[1] = IF 1 <= k THEN <<h + 1, 0>> ELSE Sentinel
      BY <1>1, <1>3 DEF FileQueue
    <3> QED
      BY <1>3, <1>6, <3>1
  <2>2. fst' = [fst EXCEPT ![w] = "process"]
    BY <1>6 DEF FileGet
  <2>3. /\ Busy' = Busy \cup {w} /\ w \notin Busy /\ DoneFileWorkers' = DoneFileWorkers
    BY <1>2, <2>2 DEF Busy, DoneFileWorkers, TypeInv, TypeOK
  <2>4. Cardinality(Busy') = Cardinality(Busy) + 1
    BY <2>3, FileWorkersCounted, FS_AddElement
  <2>5. \A i \in 1..Len(fileQ') :
            fileQ'[i] = IF i <= k - 1 THEN <<h + 1 + i, 0>> ELSE Sentinel
    <3> TAKE i \in 1..Len(fileQ')
    <3>1. i + 1 \in 1..Len(fileQ) /\ fileQ'[i] = fileQ[i + 1]
      BY <1>3, <1>t
    <3>2. fileQ[i + 1] = IF i + 1 <= k THEN <<h + (i + 1), 0>> ELSE Sentinel
      BY <1>1, <3>1 DEF FileQueue
    <3>3. h + (i + 1) = h + 1 + i /\ (i + 1 <= k <=> i <= k - 1)
      BY <1>3, <1>t
    <3> QED
      BY <3>1, <3>2, <3>3
  <2>6. phase' = "up" =>
          /\ ok' + fail' + Cardinality(Busy') = h + 1
          /\ h + 1 + (k - 1) = FilesPut'
          /\ Len(fileQ') - (k - 1) + Cardinality(DoneFileWorkers') = FileSentinelsPut'
          /\ DoneFileWorkers' = {}
    <3>1. phase = "up" =>
            /\ ok + fail + Cardinality(Busy) = h /\ h + k = FilesPut
            /\ Len(fileQ) - k + Cardinality(DoneFileWorkers) = FileSentinelsPut
            /\ DoneFileWorkers = {}
      BY <1>1, <2>1 DEF FileQueue
    <3>2. phase = "up" => ok' + fail' + Cardinality(Busy') = h + 1
      <4>1. ok' = ok /\ fail' = fail
        BY <1>2
      <4>2. ok + fail + (Cardinality(Busy) + 1) = ok + fail + Cardinality(Busy) + 1
        BY <1>t
      <4> QED
        BY <2>4, <3>1, <4>1, <4>2
    <3>3. phase = "up" => h + 1 + (k - 1) = FilesPut'
      BY <1>4, <1>t, <3>1
    <3>4. phase = "up" =>
            Len(fileQ') - (k - 1) + Cardinality(DoneFileWorkers') = FileSentinelsPut'
      BY <1>3, <1>4, <1>t, <2>3, <3>1
    <3> QED
      BY <1>2, <2>3, <3>1, <3>2, <3>3, <3>4
  <2>7. /\ k - 1 \in 0..Len(fileQ') /\ h + 1 + (k - 1) <= NFiles
        /\ ok' + fail' + Cardinality(Busy') <= h + 1
    <3>1. k \in 0..Len(fileQ) /\ h + k <= NFiles /\ ok + fail + Cardinality(Busy) <= h
      BY <1>1 DEF FileQueue
    <3> QED
      BY <1>2, <1>3, <1>t, <2>1, <2>4, <3>1
  <2>8. FileQueue(h + 1, k - 1)'
    BY <2>5, <2>6, <2>7 DEF FileQueue
  <2> QED
    BY <2>1, <2>8 DEF FilesQueued
<1> QED
  BY <1>5, <1>6

\* The files that left the queue: handled, or in a worker's hands.
Handled == ok + fail + Cardinality(Busy)

LEMMA HandledType == TypeInv => Handled \in Nat
  BY FileWorkersCounted, FileNumbers DEF Handled

\* A step that leaves the queue alone and loses no file.
LEMMA FilesKept ==
  ASSUME TypeInv, FilesQueued, fileQ' = fileQ, phase' = phase, Handled' = Handled,
         DoneFileWorkers' = DoneFileWorkers,
         FilesPut' = FilesPut, FileSentinelsPut' = FileSentinelsPut
  PROVE  FilesQueued'
<1>1. PICK h, k \in Nat : FileQueue(h, k)
  BY DEF FilesQueued
<1>2. FileQueue(h, k)'
  BY <1>1 DEF FileQueue, Handled
<1> QED
  BY <1>2 DEF FilesQueued

\* A step of the shutdown, which may cancel a worker with its file.
LEMMA FilesDropped ==
  ASSUME TypeInv, FilesQueued, fileQ' = fileQ, phase' # "up", Handled' \in Nat,
         Handled' <= Handled
  PROVE  FilesQueued'
<1>1. PICK h, k \in Nat : FileQueue(h, k)
  BY DEF FilesQueued
<1>2. Handled <= h
  BY <1>1 DEF FileQueue, Handled
<1>3. Handled' <= h
  BY <1>2, HandledType
<1>4. FileQueue(h, k)'
  BY <1>1, <1>3 DEF FileQueue, Handled
<1> QED
  BY <1>4 DEF FilesQueued

\* A worker is through with its file.
LEMMA FileLeft ==
  ASSUME TypeInv, FilesQueued, NEW w \in Busy, fst' = [fst EXCEPT ![w] = "get"],
         UNCHANGED <<pc, nput, fileQ, phase>>,
         \/ ok' = ok + 1 /\ fail' = fail
         \/ ok' = ok /\ fail' = fail + 1
  PROVE  FilesQueued'
<1>1. Busy' = Busy \ {w} /\ DoneFileWorkers' = DoneFileWorkers
  BY DEF Busy, DoneFileWorkers, TypeInv, TypeOK
<1>2. Cardinality(Busy') = Cardinality(Busy) - 1
  BY <1>1, FileWorkersCounted, FS_RemoveElement
<1>3. FilesPut' = FilesPut /\ FileSentinelsPut' = FileSentinelsPut
  BY DEF FilesPut, FileSentinelsPut
<1>4. Handled' = Handled
  <2>1. Cardinality(Busy) \in Nat /\ ok \in Nat /\ fail \in Nat
    BY FileNumbers
  <2> QED
    BY <1>2, <2>1 DEF Handled
<1>5. fileQ' = fileQ /\ phase' = phase
  OBVIOUS
<1> QED
  BY <1>1, <1>3, <1>4, <1>5, FilesKept

LEMMA FilesQueuedStep == TypeInv /\ FilesQueued /\ [Next]_vars => FilesQueued'
<1> SUFFICES ASSUME TypeInv, FilesQueued, [Next]_vars PROVE FilesQueued'
  OBVIOUS
<1>1. CASE Orchestrate /\ ~FeedFile /\ ~StopFileWorkers
  <2>1. UNCHANGED <<fileQ, fst, ok, fail, phase, FilesPut, FileSentinelsPut>>
    BY <1>1 DEF Orchestrate, GatherFileWorkers, StopEmbedWorkers,
                GatherEmbedWorkers, SetCounters, MarkCompleted, FilesPut, FileSentinelsPut
  <2>2. Handled' = Handled /\ DoneFileWorkers' = DoneFileWorkers
    BY <2>1 DEF Busy, DoneFileWorkers, Handled
  <2> QED
    BY <2>1, <2>2, FilesKept
<1>2. ASSUME NEW w \in FileWorkers, ProcessRaises(w) PROVE FilesQueued'
  <2>1. /\ w \in Busy /\ fst' = [fst EXCEPT ![w] = "get"]
        /\ UNCHANGED <<pc, nput, fileQ, phase, ok>> /\ fail' = fail + 1
    BY <1>2 DEF ProcessRaises, Busy
  <2> QED
    BY <2>1, FileLeft
<1>3. ASSUME NEW w \in FileWorkers, FileDone(w) PROVE FilesQueued'
  <2>1. /\ w \in Busy /\ fst' = [fst EXCEPT ![w] = "get"]
        /\ UNCHANGED <<pc, nput, fileQ, phase, fail>> /\ ok' = ok + 1
    BY <1>3 DEF FileDone, Busy
  <2> QED
    BY <2>1, FileLeft
<1>4. ASSUME NEW w \in FileWorkers,
             StoreChunk(w) \/ EnrichFails(w) \/ ProcessChunks(w) \/ PutChunk(w)
      PROVE  FilesQueued'
  <2>1. /\ UNCHANGED <<pc, nput, fileQ, ok, fail, phase>>
        /\ \/ fst' = fst
           \/ /\ fst[w] \in {"process", "store"}
              /\ \E x \in {"store", "put"} : fst' = [fst EXCEPT ![w] = x]
    BY <1>4 DEF StoreChunk, EnrichFails, ProcessChunks, PutChunk
  <2>2. Busy' = Busy /\ DoneFileWorkers' = DoneFileWorkers
    BY <2>1 DEF Busy, DoneFileWorkers, TypeInv, TypeOK
  <2>4. Handled' = Handled
    BY <2>1, <2>2 DEF Handled
  <2>3. FilesPut' = FilesPut /\ FileSentinelsPut' = FileSentinelsPut
    BY <2>1 DEF FilesPut, FileSentinelsPut
  <2> QED
    BY <2>1, <2>2, <2>3, <2>4, FilesKept
<1>5. ASSUME NEW w \in EmbedWorkers, EmbedWorker(w) PROVE FilesQueued'
  <2>1. UNCHANGED <<pc, nput, fileQ, fst, ok, fail, phase>>
    BY <1>5 DEF EmbedWorker, EmbedGet, BatchTimeout, FlushFails, EmbedBatch, SendChunk,
                FlushSucceeds
  <2>2. Handled' = Handled /\ DoneFileWorkers' = DoneFileWorkers
    BY <2>1 DEF Busy, DoneFileWorkers, Handled
  <2>3. FilesPut' = FilesPut /\ FileSentinelsPut' = FileSentinelsPut
    BY <2>1 DEF FilesPut, FileSentinelsPut
  <2> QED
    BY <2>1, <2>2, <2>3, FilesKept
<1>6. CASE ShutDown
  <2>1. /\ UNCHANGED <<fileQ, ok, fail>> /\ phase' # "up"
        /\ fst' = fst \/ \A w \in FileWorkers : fst'[w] = "done"
    BY <1>6 DEF ShutDown, Signal, MarkFails, StopProducer, ClosePool, TearDown, CancelFileWorkers
  <2>2. Busy' \subseteq Busy
    BY <2>1 DEF Busy
  <2>3. Cardinality(Busy') <= Cardinality(Busy) /\ Cardinality(Busy') \in Nat
    BY <2>2, FileWorkersCounted, FS_Subset, FS_CardinalityType
  <2>4. Handled' <= Handled /\ Handled' \in Nat
    BY <2>1, <2>3, FileWorkersCounted DEF Handled, TypeInv, TypeOK
  <2> QED
    BY <2>1, <2>4, FilesDropped
<1>7. CASE UNCHANGED vars
  <2>1. UNCHANGED <<fileQ, ok, fail, phase, FilesPut, FileSentinelsPut>>
    BY <1>7 DEF FilesPut, FileSentinelsPut
  <2>2. Handled' = Handled /\ DoneFileWorkers' = DoneFileWorkers
    BY <1>7 DEF Busy, DoneFileWorkers, Handled
  <2> QED
    BY <2>1, <2>2, FilesKept
<1> QED
  BY <1>1, <1>2, <1>3, <1>4, <1>5, <1>6, <1>7, FilesFed, FilesStopped, FileTaken
     DEF Next, Work, Terminated, FileWorker

-----------------------------------------------------------------------------
(* The stages.                                                             *)

LEMMA QueuesInit == Init => Queues
<1> SUFFICES ASSUME Init PROVE Queues
  OBVIOUS
<1>1. /\ Len(fileQ) = 0 /\ Len(embedQ) = 0
      /\ ok = 0 /\ fail = 0 /\ pc = "feed" /\ nput = 0 /\ phase = "up"
  BY DEF Init
<1>2. Busy = {} /\ DoneFileWorkers = {} /\ Returning = {}
  BY DEF Init, Busy, DoneFileWorkers, Returning
<1>3. /\ Cardinality(Busy) = 0 /\ Cardinality(DoneFileWorkers) = 0
      /\ Cardinality(Returning) = 0
  BY <1>2, FS_EmptySet
<1>4. FilesPut = 0 /\ FileSentinelsPut = 0 /\ EmbedSentinelsPut = 0 /\ NFiles \in Nat
  BY <1>1, ConstantsAssumption DEF FilesPut, FileSentinelsPut, EmbedSentinelsPut
<1>5. FileQueue(0, 0) /\ EmbedQueue(0)
  BY <1>1, <1>2, <1>3, <1>4 DEF FileQueue, EmbedQueue
<1>6. StagesDone /\ WorkersHold
  BY DEF Init, StagesDone, WorkersHold, WorkerHolds
<1> QED
  BY <1>5, <1>6 DEF Queues, FilesQueued, ChunksQueued

LEMMA QueuesStep == TypeInv /\ Queues /\ [Next]_vars => Queues'
  BY FilesQueuedStep, ChunksQueuedStep, StagesStep, HoldStep DEF Queues

LEMMA QueuesOrdered == TypeInv /\ Queues => StagesInOrder
<1> SUFFICES ASSUME TypeInv, Queues, NEW i \in DOMAIN embedQ, embedQ[i] = Sentinel
             PROVE  /\ \A w \in FileWorkers : fst[w] = "done"
                    /\ \A j \in DOMAIN embedQ : j > i => embedQ[j] = Sentinel
  BY DEF StagesInOrder
<1>1. PICK k \in Nat : EmbedQueue(k)
  BY DEF Queues, ChunksQueued
<1>2. Len(embedQ) \in Nat /\ DOMAIN embedQ = 1..Len(embedQ)
  BY DEF TypeInv, TypeOK
<1>3. /\ k \in 0..Len(embedQ) /\ (k # Len(embedQ) => FileWorkersDone)
      /\ \A j \in 1..Len(embedQ) : j <= k <=> embedQ[j] # Sentinel
  BY <1>1 DEF EmbedQueue
<1>4. i \in 1..Len(embedQ) /\ ~(i <= k)
  BY <1>2, <1>3
<1>5. k # Len(embedQ)
  <2>1. i \in Int /\ i <= Len(embedQ) /\ Len(embedQ) \in Int /\ ~(i <= k)
    BY <1>2, <1>4
  <2> QED
    BY <2>1
<1>6. ASSUME NEW j \in 1..Len(embedQ), j > i PROVE embedQ[j] = Sentinel
  <2>1. ~(j <= k)
    BY <1>2, <1>4, <1>6
  <2> QED
    BY <1>3, <2>1
<1> QED
  BY <1>2, <1>3, <1>5, <1>6 DEF FileWorkersDone

\* A sentinel is put on the embed queue only when every file worker has
\* returned, so no chunk is ever behind one: the two gathers of
\* _run_two_stage_pipeline.
THEOREM StagesInOrderHolds == Spec => []StagesInOrder
<1>1. Init => TypeInv /\ Queues
  BY TypeInit, QueuesInit
<1>2. TypeInv /\ Queues /\ [Next]_vars => (TypeInv /\ Queues)'
  BY TypeStep, QueuesStep
<1> QED
  BY <1>1, <1>2, QueuesOrdered, PTL DEF Spec

-----------------------------------------------------------------------------
(* Where the chunks are.                                                   *)

Items(q) == {q[i] : i \in DOMAIN q}
AllItems(f) == UNION {Items(f[w]) : w \in DOMAIN f}
ItemsBut(f, w) == UNION {Items(f[v]) : v \in DOMAIN f \ {w}}
Held == settled \cup unqueued \cup (Items(embedQ) \ {Sentinel})
                \cup AllItems(todo) \cup AllItems(buf)

\* Only a worker in the middle of a file, or cancelled there, has chunks left.
NoneLeft(w) ==
    fst[w] \in {"get", "process"} \/ (fst[w] = "done" /\ phase = "up") => todo[w] = << >>

\* Every chunk held is a stored row; until a signal every stored row is held.
NothingDropped ==
    /\ Held \subseteq chunkRows
    /\ phase = "up" => chunkRows \subseteq Held
    /\ \A w \in FileWorkers : NoneLeft(w)

LEMMA ItemsPut ==
  ASSUME NEW S, NEW q \in Seq(S), NEW x \in S
  PROVE  Items(Append(q, x)) = Items(q) \cup {x}
<1>1. /\ DOMAIN Append(q, x) = 1..Len(q) + 1 /\ DOMAIN q = 1..Len(q) /\ Len(q) \in Nat
      /\ \A i \in 1..Len(q) : Append(q, x)[i] = q[i]
      /\ Append(q, x)[Len(q) + 1] = x
  BY AppendProperties
<1> QED
  BY <1>1 DEF Items

LEMMA ItemsTaken ==
  ASSUME NEW S, NEW q \in Seq(S), q # << >>
  PROVE  Items(q) = {Head(q)} \cup Items(Tail(q))
<1>1. /\ DOMAIN q = 1..Len(q) /\ Len(q) \in Nat \ {0} /\ Head(q) = q[1]
      /\ DOMAIN Tail(q) = 1..Len(q) - 1
      /\ \A i \in 1..Len(q) - 1 : Tail(q)[i] = q[i + 1]
  BY Taken
<1>2. ASSUME NEW i \in 1..Len(q), i # 1
      PROVE  i - 1 \in 1..Len(q) - 1 /\ q[i] = Tail(q)[i - 1]
  BY <1>1, <1>2
<1>3. Items(q) \subseteq {Head(q)} \cup Items(Tail(q))
  <2> SUFFICES ASSUME NEW i \in 1..Len(q) PROVE q[i] \in {Head(q)} \cup Items(Tail(q))
    BY <1>1 DEF Items
  <2>1. CASE i = 1
    BY <1>1, <2>1
  <2>2. CASE i # 1
    BY <1>1, <1>2, <2>2 DEF Items
  <2> QED
    BY <2>1, <2>2
<1>4. Items(Tail(q)) \subseteq Items(q)
  <2> SUFFICES ASSUME NEW i \in 1..Len(q) - 1 PROVE Tail(q)[i] \in Items(q)
    BY <1>1 DEF Items
  <2> QED
    BY <1>1 DEF Items
<1>5. Head(q) \in Items(q)
  BY <1>1 DEF Items
<1> QED
  BY <1>3, <1>4, <1>5

LEMMA ItemsNone == Items(<< >>) = {}
  BY DEF Items

\* What the workers hold when one of them holds q instead.
LEMMA OneChanged ==
  ASSUME NEW f, NEW w \in DOMAIN f, NEW q
  PROVE  /\ AllItems(f) = ItemsBut(f, w) \cup Items(f[w])
         /\ AllItems([f EXCEPT ![w] = q]) = ItemsBut(f, w) \cup Items(q)
<1>1. AllItems(f) = ItemsBut(f, w) \cup Items(f[w])
  BY DEF AllItems, ItemsBut
<1>2. DEFINE g == [f EXCEPT ![w] = q]
<1>3. DOMAIN g = DOMAIN f /\ g[w] = q /\ \A v \in DOMAIN f \ {w} : g[v] = f[v]
  OBVIOUS
<1>4. AllItems(g) = ItemsBut(g, w) \cup Items(g[w])
  BY <1>3 DEF AllItems, ItemsBut
<1>5. ItemsBut(g, w) = ItemsBut(f, w)
  <2> HIDE DEF g
  <2> QED
    BY <1>3 DEF ItemsBut
<1> QED
  BY <1>1, <1>3, <1>4, <1>5

LEMMA HeldAtFirst == Init => NothingDropped
<1> SUFFICES ASSUME Init PROVE NothingDropped
  OBVIOUS
<1>1. /\ settled = {} /\ embedQ = << >> /\ chunkRows = {} /\ unqueued = {}
      /\ \A w \in DOMAIN todo : todo[w] = << >>
      /\ \A w \in DOMAIN buf : buf[w] = << >>
      /\ DOMAIN todo = FileWorkers
  BY DEF Init
<1>2. AllItems(todo) = {} /\ AllItems(buf) = {}
  BY <1>1, ItemsNone DEF AllItems
<1> QED
  BY <1>1, <1>2, ItemsNone DEF NothingDropped, NoneLeft, Held

\* A file worker hands a chunk from its file to the queue.
LEMMA ChunkPut ==
  ASSUME TypeInv, NEW w \in FileWorkers, PutChunk(w)
  PROVE  Held' = Held
<1>1. /\ embedQ' = Append(embedQ, Head(todo[w])) /\ todo' = [todo EXCEPT ![w] = Tail(todo[w])]
      /\ todo[w] # << >> /\ todo[w] \in Seq(Chunks)
      /\ UNCHANGED <<settled, unqueued, buf>>
  BY DEF PutChunk, TypeInv, TypeOK
<1>d. w \in DOMAIN todo
  BY DEF TypeInv, TypeOK
<1>2. Items(todo[w]) = {Head(todo[w])} \cup Items(Tail(todo[w])) /\ Head(todo[w]) \in Chunks
  BY <1>1, ItemsTaken, Taken
<1>3. Items(embedQ') = Items(embedQ) \cup {Head(todo[w])}
  <2>1. embedQ \in Seq(Chunks \cup {Sentinel}) /\ Head(todo[w]) \in Chunks \cup {Sentinel}
    BY <1>2 DEF TypeInv, TypeOK
  <2>2. Items(Append(embedQ, Head(todo[w]))) = Items(embedQ) \cup {Head(todo[w])}
    BY <2>1, ItemsPut
  <2> QED
    BY <1>1, <2>2
<1>4. /\ AllItems(todo) = ItemsBut(todo, w) \cup Items(todo[w])
      /\ AllItems(todo') = ItemsBut(todo, w) \cup Items(Tail(todo[w]))
  <2>1. \A q : AllItems([todo EXCEPT ![w] = q]) = ItemsBut(todo, w) \cup Items(q)
    BY <1>d, OneChanged
  <2> QED
    BY <1>1, <1>d, <2>1, OneChanged
<1>5. AllItems(buf)' = AllItems(buf)
  BY <1>1
<1> QED
  BY <1>1, <1>2, <1>3, <1>4, <1>5, SentinelNoChunk DEF Held

\* An embed worker takes it from the queue into its batch.
LEMMA ChunkTaken ==
  ASSUME TypeInv, NEW w \in EmbedWorkers, EmbedGet(w)
  PROVE  Held' = Held
<1>1. /\ embedQ # << >> /\ embedQ' = Tail(embedQ) /\ UNCHANGED <<settled, unqueued, todo>>
      /\ buf[w] \in Seq(Chunks) /\ embedQ \in Seq(Chunks \cup {Sentinel})
  BY DEF EmbedGet, TypeInv, TypeOK
<1>d. w \in DOMAIN buf
  BY DEF TypeInv, TypeOK
<1>2. /\ Items(embedQ) = {Head(embedQ)} \cup Items(embedQ')
      /\ Head(embedQ) \in Chunks \cup {Sentinel}
  BY <1>1, ItemsTaken, Taken
<1>3. AllItems(todo)' = AllItems(todo)
  BY <1>1
<1>4. CASE Head(embedQ) = Sentinel
  <2>1. buf' = buf
    BY <1>4 DEF EmbedGet, Stops, ReceivedSentinel
  <2> QED
    BY <1>1, <1>2, <1>3, <1>4, <2>1 DEF Held
<1>5. CASE Head(embedQ) # Sentinel
  <2>1. buf' = [buf EXCEPT ![w] = Append(buf[w], Head(embedQ))]
    BY <1>5 DEF EmbedGet, Stops, Received
  <2>2. Items(Append(buf[w], Head(embedQ))) = Items(buf[w]) \cup {Head(embedQ)}
    BY <1>1, <1>2, <1>5, ItemsPut
  <2>3. /\ AllItems(buf) = ItemsBut(buf, w) \cup Items(buf[w])
        /\ AllItems(buf') = ItemsBut(buf, w) \cup Items(Append(buf[w], Head(embedQ)))
    <3>1. \A q : AllItems([buf EXCEPT ![w] = q]) = ItemsBut(buf, w) \cup Items(q)
      BY <1>d, OneChanged
    <3> QED
      BY <1>d, <2>1, <3>1, OneChanged
  <2> QED
    BY <1>1, <1>2, <1>3, <1>5, <2>2, <2>3 DEF Held
<1> QED
  BY <1>4, <1>5

\* A flush settles all of the batch.
LEMMA BatchSettled ==
  ASSUME TypeInv, NEW w \in EmbedWorkers, NEW n, FlushReturns(w, n),
         UNCHANGED <<embedQ, todo, unqueued>>
  PROVE  Held' = Held
<1>1. settled' = settled \cup Items(buf[w]) /\ buf' = [buf EXCEPT ![w] = << >>]
  BY DEF FlushReturns, Items
<1>d. w \in DOMAIN buf
  BY DEF TypeInv, TypeOK
<1>2. /\ AllItems(buf) = ItemsBut(buf, w) \cup Items(buf[w])
      /\ AllItems(buf') = ItemsBut(buf, w) \cup Items(<< >>)
  <2>1. AllItems([buf EXCEPT ![w] = << >>]) = ItemsBut(buf, w) \cup Items(<< >>)
    BY <1>d, OneChanged
  <2> QED
    BY <1>1, <1>d, <2>1, OneChanged
<1>3. AllItems(todo)' = AllItems(todo)
  OBVIOUS
<1> QED
  BY <1>1, <1>2, <1>3, ItemsNone DEF Held

LEMMA StoredChunk ==
  ASSUME TypeInv, NEW w \in FileWorkers, StoreChunk(w)
  PROVE  <<cur[w], Len(todo[w]) + 1>> \in Chunks
<1>1. cur[w] \in Files /\ Len(todo[w]) + 1 \in 1..MaxChunks
  BY ConstantsAssumption DEF TypeInv, TypeOK, InBounds, Busy, StoreChunk
<1> QED
  BY <1>1 DEF Chunks

\* A chunk of a file becomes a row, which the worker keeps.
LEMMA ChunkStored ==
  ASSUME TypeInv, NothingDropped, NEW w \in FileWorkers, StoreChunk(w)
  PROVE  NothingDropped'
<1> DEFINE c == <<cur[w], Len(todo[w]) + 1>>
<1>1. /\ fst' = [fst EXCEPT ![w] = "store"] /\ todo' = [todo EXCEPT ![w] = Append(todo[w], c)]
      /\ chunkRows' = chunkRows \cup {c}
      /\ UNCHANGED <<settled, unqueued, embedQ, buf, phase>>
  BY DEF StoreChunk
<1>2. w \in DOMAIN todo /\ w \in DOMAIN fst /\ todo[w] \in Seq(Chunks) /\ c \in Chunks
  BY StoredChunk DEF TypeInv, TypeOK
<1> HIDE DEF c
<1>3. Items(Append(todo[w], c)) = Items(todo[w]) \cup {c}
  BY <1>2, ItemsPut
<1>4. AllItems(todo') = AllItems(todo) \cup {c}
  <2>1. \A q : AllItems([todo EXCEPT ![w] = q]) = ItemsBut(todo, w) \cup Items(q)
    BY <1>2, OneChanged
  <2>2. AllItems(todo) = ItemsBut(todo, w) \cup Items(todo[w])
    BY <1>2, OneChanged
  <2> QED
    BY <1>1, <1>3, <2>1, <2>2
<1>5. AllItems(buf)' = AllItems(buf)
  BY <1>1
<1>6. Held' = Held \cup {c}
  BY <1>1, <1>4, <1>5 DEF Held
<1>7. \A v \in FileWorkers : NoneLeft(v)'
  <2>1. fst'[w] = "store" /\ \A v \in FileWorkers \ {w} : fst'[v] = fst[v] /\ todo'[v] = todo[v]
    BY <1>1, <1>2 DEF TypeInv, TypeOK
  <2> QED
    BY <1>1, <2>1 DEF NothingDropped, NoneLeft
<1> QED
  BY <1>1, <1>6, <1>7 DEF NothingDropped

\* The rows of a file whose enrichment fails are held no longer by its worker.
LEMMA ChunksLeft ==
  ASSUME TypeInv, NEW w \in FileWorkers, EnrichFails(w)
  PROVE  Held' = Held
<1>1. /\ todo' = [todo EXCEPT ![w] = << >>] /\ unqueued' = unqueued \cup Items(todo[w])
      /\ UNCHANGED <<settled, embedQ, buf>>
  BY DEF EnrichFails, Items
<1>2. w \in DOMAIN todo
  BY DEF TypeInv, TypeOK
<1>3. /\ AllItems(todo) = ItemsBut(todo, w) \cup Items(todo[w])
      /\ AllItems(todo') = ItemsBut(todo, w)
  <2>1. \A q : AllItems([todo EXCEPT ![w] = q]) = ItemsBut(todo, w) \cup Items(q)
    BY <1>2, OneChanged
  <2>2. AllItems(todo) = ItemsBut(todo, w) \cup Items(todo[w])
    BY <1>2, OneChanged
  <2> QED
    BY <1>1, <2>1, <2>2, ItemsNone
<1>4. AllItems(buf)' = AllItems(buf)
  BY <1>1
<1> QED
  BY <1>1, <1>3, <1>4 DEF Held

\* Every other step leaves the chunks where they are.
LEMMA DroppedKept ==
  ASSUME NothingDropped, Held' = Held, chunkRows' = chunkRows,
         phase' = "up" => phase = "up", \A w \in FileWorkers : NoneLeft(w)'
  PROVE  NothingDropped'
  BY DEF NothingDropped

LEMMA NothingDroppedStep == TypeInv /\ NothingDropped /\ [Next]_vars => NothingDropped'
<1> SUFFICES ASSUME TypeInv, NothingDropped, [Next]_vars PROVE NothingDropped'
  OBVIOUS
<1>h. UNCHANGED <<settled, unqueued, embedQ, todo, buf>> => Held' = Held
  BY DEF Held, AllItems
<1>1. CASE StopEmbedWorkers
  <2>1. /\ embedQ' = Append(embedQ, Sentinel) /\ embedQ \in Seq(Chunks \cup {Sentinel})
        /\ UNCHANGED <<fst, settled, unqueued, todo, buf, chunkRows, phase>>
    BY <1>1 DEF StopEmbedWorkers, TypeInv, TypeOK
  <2>2. Items(embedQ') = Items(embedQ) \cup {Sentinel}
    <3>1. Items(Append(embedQ, Sentinel)) = Items(embedQ) \cup {Sentinel}
      BY <2>1, ItemsPut
    <3> QED
      BY <2>1, <3>1
  <2>3. AllItems(todo)' = AllItems(todo) /\ AllItems(buf)' = AllItems(buf)
    BY <2>1
  <2>4. Held' = Held
    BY <2>1, <2>2, <2>3 DEF Held
  <2> QED
    BY <2>1, <2>4, DroppedKept DEF NothingDropped, NoneLeft
<1>2. CASE Orchestrate /\ ~StopEmbedWorkers
  <2>1. UNCHANGED <<settled, unqueued, embedQ, todo, buf, fst, chunkRows, phase>>
    BY <1>2 DEF Orchestrate, FeedFile, StopFileWorkers, GatherFileWorkers,
                GatherEmbedWorkers, SetCounters, MarkCompleted
  <2> QED
    BY <1>h, <2>1, DroppedKept DEF NothingDropped, NoneLeft
<1>3. ASSUME NEW w \in FileWorkers, PutChunk(w) PROVE NothingDropped'
  <2>1. UNCHANGED <<fst, chunkRows, phase>> /\ fst[w] = "put"
        /\ \A v \in FileWorkers \ {w} : todo'[v] = todo[v]
    BY <1>3 DEF PutChunk, TypeInv, TypeOK
  <2> QED
    BY <1>3, <2>1, ChunkPut, DroppedKept DEF NothingDropped, NoneLeft
<1>4. ASSUME NEW w \in FileWorkers,
             FileGet(w) \/ ProcessRaises(w) \/ ProcessChunks(w) \/ FileDone(w)
      PROVE  NothingDropped'
  <2>1. /\ UNCHANGED <<settled, unqueued, embedQ, todo, buf, chunkRows, phase>>
        /\ \/ todo[w] = << >> \/ fst'[w] = "put"
        /\ \A v \in FileWorkers \ {w} : fst'[v] = fst[v]
    BY <1>4 DEF FileGet, ProcessRaises, ProcessChunks, FileDone, TypeInv, TypeOK,
                NothingDropped, NoneLeft
  <2> QED
    BY <1>h, <2>1, DroppedKept DEF NothingDropped, NoneLeft
<1>5. ASSUME NEW w \in EmbedWorkers, EmbedGet(w) PROVE NothingDropped'
  <2>1. UNCHANGED <<fst, todo, chunkRows, phase>>
    BY <1>5 DEF EmbedGet
  <2> QED
    BY <1>5, <2>1, ChunkTaken, DroppedKept DEF NothingDropped, NoneLeft
<1>6. ASSUME NEW w \in EmbedWorkers, FlushFails(w) \/ FlushSucceeds(w) PROVE NothingDropped'
  <2>1. /\ UNCHANGED <<embedQ, unqueued, fst, todo, chunkRows, phase>>
        /\ \E n \in Nat : FlushReturns(w, n)
    BY <1>6 DEF FlushFails, FlushSucceeds, FailedCount, TypeInv, TypeOK
  <2> QED
    BY <2>1, BatchSettled, DroppedKept DEF NothingDropped, NoneLeft
<1>7. ASSUME NEW w \in EmbedWorkers, BatchTimeout(w) \/ EmbedBatch(w) \/ SendChunk(w)
      PROVE  NothingDropped'
  <2>1. UNCHANGED <<settled, unqueued, embedQ, todo, buf, fst, chunkRows, phase>>
    BY <1>7 DEF BatchTimeout, EmbedBatch, SendChunk
  <2> QED
    BY <1>h, <2>1, DroppedKept DEF NothingDropped, NoneLeft
<1>8. CASE ShutDown
  <2>1. /\ UNCHANGED <<settled, unqueued, embedQ, todo, buf, chunkRows>> /\ phase' # "up"
        /\ fst' = fst \/ \A w \in FileWorkers : fst'[w] = "done"
    BY <1>8 DEF ShutDown, Signal, MarkFails, StopProducer, ClosePool, TearDown,
                CancelEmbedWorkers, CancelFileWorkers
  <2> QED
    BY <1>h, <2>1, DroppedKept DEF NothingDropped, NoneLeft
<1>9. CASE UNCHANGED vars
  <2>1. UNCHANGED <<settled, unqueued, embedQ, todo, buf, fst, chunkRows, phase>>
    BY <1>9
  <2> QED
    BY <1>h, <2>1, DroppedKept DEF NothingDropped, NoneLeft
<1>10. ASSUME NEW w \in FileWorkers, EnrichFails(w) PROVE NothingDropped'
  <2>1. /\ UNCHANGED <<chunkRows, phase>> /\ fst'[w] = "put"
        /\ \A v \in FileWorkers \ {w} : fst'[v] = fst[v] /\ todo'[v] = todo[v]
    BY <1>10 DEF EnrichFails, TypeInv, TypeOK
  <2> QED
    BY <1>10, <2>1, ChunksLeft, DroppedKept DEF NothingDropped, NoneLeft
<1> QED
  BY <1>1, <1>2, <1>3, <1>4, <1>5, <1>6, <1>7, <1>8, <1>9, <1>10, ChunkStored
     DEF Next, Work, Terminated, FileWorker, EmbedWorker

\* When the stages are over, the queues, the batches and the files are empty.
LEMMA NothingLeft ==
  ASSUME TypeInv, Queues, NothingDropped, pc \in {"counters", "complete", "done"}
  PROVE  /\ ok + fail = NFiles /\ chunkRows = settled \cup unqueued
         /\ fileQ = << >> /\ embedQ = << >>
<1>1. /\ phase = "up" /\ FileWorkersDone /\ \A w \in EmbedWorkers : est[w] = "done"
      /\ WorkersHold
  BY DEF TypeInv, TypeOK, InBounds, Queues, StagesDone
<1>2. Busy = {} /\ DoneFileWorkers = FileWorkers
  BY <1>1 DEF Busy, DoneFileWorkers, FileWorkersDone
<1>3. \A w \in EmbedWorkers : exit[w] = "return" /\ buf[w] = << >>
  BY <1>1 DEF WorkersHold, WorkerHolds
<1>4. Returning = EmbedWorkers
  BY <1>3 DEF Returning
<1>5. /\ FilesPut = NFiles /\ FileSentinelsPut = Cardinality(FileWorkers)
      /\ EmbedSentinelsPut = Cardinality(EmbedWorkers)
  BY DEF FilesPut, FileSentinelsPut, EmbedSentinelsPut
<1>6. ok + fail = NFiles /\ Len(fileQ) = 0
  <2>1. PICK h, k \in Nat : FileQueue(h, k)
    BY DEF Queues, FilesQueued
  <2>2. k = 0 /\ h = NFiles
    BY <1>1, <1>2, <1>5, <2>1, ConstantsAssumption DEF FileQueue
  <2>3. /\ ok + fail + Cardinality(Busy) = NFiles
        /\ Len(fileQ) - 0 + Cardinality(FileWorkers) = Cardinality(FileWorkers)
    BY <1>1, <1>2, <1>5, <2>1, <2>2 DEF FileQueue
  <2>4. Cardinality(Busy) = 0
    BY <1>2, FS_EmptySet
  <2> QED
    BY <2>3, <2>4, FileNumbers, WorkersCounted
<1>7. Len(embedQ) = 0
  <2>1. PICK k \in Nat : EmbedQueue(k)
    BY DEF Queues, ChunksQueued
  <2>2. k = 0
    BY <1>1, <1>4, <2>1, ConstantsAssumption DEF EmbedQueue
  <2>3. Len(embedQ) - 0 + Cardinality(EmbedWorkers) = Cardinality(EmbedWorkers)
    BY <1>1, <1>4, <1>5, <2>1, <2>2 DEF EmbedQueue
  <2>4. Len(embedQ) \in Nat
    BY DEF TypeInv, TypeOK
  <2> QED
    BY <2>3, <2>4, WorkersCounted
<1>8. fileQ = << >> /\ embedQ = << >>
  BY <1>6, <1>7, EmptySeq DEF TypeInv, TypeOK
<1>9. AllItems(todo) = {} /\ AllItems(buf) = {}
  <2>1. \A w \in DOMAIN todo : todo[w] = << >>
    BY <1>1 DEF NothingDropped, NoneLeft, FileWorkersDone, TypeInv, TypeOK
  <2>2. \A w \in DOMAIN buf : buf[w] = << >>
    BY <1>3 DEF TypeInv, TypeOK
  <2> QED
    BY <2>1, <2>2, ItemsNone DEF AllItems
<1>10. chunkRows = settled \cup unqueued
  BY <1>1, <1>8, <1>9, ItemsNone DEF NothingDropped, Held
<1> QED
  BY <1>6, <1>8, <1>10

-----------------------------------------------------------------------------
(* The pipeline implements IngestPromise, and the count of published       *)
(* chunks is never above what was published.  A file is taken once, so a   *)
(* chunk is in one place; a batch is sent in order, so how often each      *)
(* chunk of it was published can be told from the worker.                  *)

\* Files no worker has started: in the queue, or not yet put there.
Ahead(f) == <<f, 0>> \in Items(fileQ) \/ (phase = "up" /\ f > FilesPut)

\* No two workers have the same file, and a file has no chunks before it is
\* split, which happens once; while it is split all its rows are its worker's,
\* in order.
Splits(w, rows, c, t) ==
    /\ \A x \in rows : x[1] = c[w] => x \in Items(t[w])
    /\ \A i \in DOMAIN t[w] : t[w][i] = <<c[w], i>>
FilesApart ==
    /\ \A v, w \in Busy : v # w => cur[v] # cur[w]
    /\ \A f \in Files : Ahead(f) => /\ \A w \in Busy : cur[w] # f
                                    /\ \A c \in chunkRows : c[1] # f
    /\ \A w \in FileWorkers : fst[w] \in {"process", "store"} => Splits(w, chunkRows, cur, todo)

\* What each worker holds is without repetition and not held by another.
Distinct(q) == \A i, j \in DOMAIN q : i # j => q[i] # q[j]
Apart(f) ==
    /\ \A w \in DOMAIN f : Distinct(f[w])
    /\ \A v, w \in DOMAIN f : v # w => Items(f[v]) \cap Items(f[w]) = {}

\* A file that was given up has no chunk elsewhere.
LeftApart == \A c \in unqueued, d \in chunkRows \ unqueued : c[1] # d[1]

\* A chunk is in one place.
QueuedChunks == Items(embedQ) \ {Sentinel}
OnePlace ==
    /\ Apart(todo) /\ Apart(buf)
    /\ \A i, j \in DOMAIN embedQ : i # j /\ embedQ[i] = embedQ[j] => embedQ[i] = Sentinel
    /\ AllItems(todo) \cap QueuedChunks = {} /\ AllItems(todo) \cap AllItems(buf) = {}
    /\ AllItems(todo) \cap settled = {}      /\ QueuedChunks \cap AllItems(buf) = {}
    /\ QueuedChunks \cap settled = {}        /\ AllItems(buf) \cap settled = {}
    /\ unqueued \cap (settled \cup QueuedChunks \cup AllItems(todo) \cup AllItems(buf)) = {}

\* A chunk is published from a batch only; of the batch, the chunks up to sent
\* are published once, or again if the worker was cancelled.
SentInOrder(w) ==
    est[w] # "done" => \A i \in DOMAIN buf[w] :
        IF exit[w] = "cancelled"
          THEN IF i <= sent[w] THEN published[buf[w][i]] >= 1
                               ELSE published[buf[w][i]] <= 1
          ELSE published[buf[w][i]] = IF i <= sent[w] THEN 1 ELSE 0
PublishedFromBatch ==
    /\ \A c \in Chunks \ (settled \cup AllItems(buf)) : published[c] = 0
    /\ \A w \in EmbedWorkers : SentInOrder(w)

\* The count, and what each worker read of it, is at most the settled chunks
\* that were published, and is final when the pipeline counter is set.
Counted ==
    /\ embedded <= Cardinality(settled \cap PublishedChunks)
    /\ \A w \in EmbedWorkers : base[w] <= Cardinality(settled \cap PublishedChunks)
    /\ produced # NotSet => /\ produced = embedded
                            /\ \A w \in EmbedWorkers : est[w] = "done"
    /\ phase = "up" /\ pc # "done" => status = "running"

-----------------------------------------------------------------------------
USE DEF orchVars, fileVars, batchVars, outVars, doneVars, vars, NoFile, NotSet

(* The files.                                                              *)

LEMMA FilesApartInit == Init => FilesApart
  BY DEF Init, FilesApart, Busy

\* Putting the next file, or a sentinel, on the queue starts nothing.
LEMMA AheadFed ==
  ASSUME TypeInv, FeedFile \/ StopFileWorkers, NEW f \in Files, Ahead(f)'
  PROVE  Ahead(f)
<1>1. /\ nput \in Nat /\ NFiles \in Nat /\ fileQ \in Seq({<<g, 0>> : g \in 0..NFiles})
      /\ phase = "up" /\ phase' = phase
  BY FileNumbers DEF FeedFile, StopFileWorkers, TypeInv, InBounds
<1>f. f \in Nat \ {0} /\ f <= NFiles
  BY <1>1 DEF Files
<1>2. CASE FeedFile
  <2>1. /\ pc = "feed" /\ fileQ' = Append(fileQ, <<nput + 1, 0>>) /\ nput < NFiles
        /\ IF nput + 1 = NFiles THEN pc' = "stopFiles" /\ nput' = 0
                                ELSE pc' = pc /\ nput' = nput + 1
    BY <1>2 DEF FeedFile, TypeInv, InBounds
  <2>2. FilesPut = nput /\ FilesPut' = nput + 1
    BY <1>1, <2>1 DEF FilesPut
  <2>3. <<nput + 1, 0>> \in {<<g, 0>> : g \in 0..NFiles}
    BY <1>1, <2>1
  <2>4. Items(Append(fileQ, <<nput + 1, 0>>)) = Items(fileQ) \cup {<<nput + 1, 0>>}
    <3> DEFINE S == {<<g, 0>> : g \in 0..NFiles}
               x == <<nput + 1, 0>>
    <3>1. fileQ \in Seq(S) /\ x \in S
      BY <1>1, <2>3
    <3> HIDE DEF S, x
    <3>2. Items(Append(fileQ, x)) = Items(fileQ) \cup {x}
      BY <3>1, ItemsPut
    <3> QED
      BY <3>2 DEF x
  <2>5. <<f, 0>> \in Items(fileQ) \/ f > nput
    <3>1. CASE <<f, 0>> \in Items(fileQ')
      <4>1. <<f, 0>> \in Items(fileQ) \/ <<f, 0>> = <<nput + 1, 0>>
        BY <2>1, <2>4, <3>1
      <4>2. <<f, 0>> = <<nput + 1, 0>> => f > nput
        BY <1>1
      <4> QED
        BY <4>1, <4>2
    <3>2. CASE f > FilesPut'
      BY <1>1, <1>f, <2>2, <3>2
    <3> QED
      BY <3>1, <3>2 DEF Ahead
  <2> QED
    BY <1>1, <2>2, <2>5 DEF Ahead
<1>3. CASE StopFileWorkers
  <2>1. /\ pc = "stopFiles" /\ fileQ' = Append(fileQ, Sentinel) /\ pc' \in {"stopFiles", "gatherFiles"}
    BY <1>3 DEF StopFileWorkers
  <2>2. FilesPut = NFiles /\ FilesPut' = NFiles
    BY <2>1 DEF FilesPut
  <2>3. Sentinel \in {<<g, 0>> : g \in 0..NFiles} /\ <<f, 0>> # Sentinel
    BY <1>1, <1>f DEF Sentinel
  <2>4. Items(Append(fileQ, Sentinel)) = Items(fileQ) \cup {Sentinel}
    BY <1>1, <2>3, ItemsPut
  <2>5. <<f, 0>> \in Items(fileQ) \/ f > NFiles
    BY <1>1, <2>1, <2>2, <2>3, <2>4 DEF Ahead
  <2> QED
    BY <1>1, <2>2, <2>5 DEF Ahead
<1> QED
  BY <1>2, <1>3

\* The file taken was ahead, and is ahead no longer.
LEMMA AheadTaken ==
  ASSUME TypeInv, FilesQueued, NEW w \in FileWorkers, FileGet(w), Head(fileQ) # Sentinel
  PROVE  \E f \in Files : /\ Head(fileQ) = <<f, 0>> /\ Ahead(f) /\ ~Ahead(f)'
                          /\ fst' = [fst EXCEPT ![w] = "process"]
                          /\ cur' = [cur EXCEPT ![w] = f]
<1>1. /\ NFiles \in Nat /\ Len(fileQ) \in Nat /\ FilesPut \in Nat
      /\ fileQ \in Seq({<<g, 0>> : g \in 0..NFiles})
  BY FileNumbers
<1>2. /\ fileQ # << >> /\ fileQ' = Tail(fileQ) /\ UNCHANGED <<pc, nput, phase>>
      /\ fst' = [fst EXCEPT ![w] = "process"] /\ cur' = [cur EXCEPT ![w] = Head(fileQ)[1]]
  BY DEF FileGet
<1>3. /\ Len(fileQ) \in Nat \ {0} /\ Head(fileQ) = fileQ[1] /\ Len(fileQ') = Len(fileQ) - 1
      /\ \A i \in 1..Len(fileQ) - 1 : fileQ'[i] = fileQ[i + 1]
      /\ Head(fileQ) \in {<<g, 0>> : g \in 0..NFiles}
      /\ fileQ' \in Seq({<<g, 0>> : g \in 0..NFiles})
  BY <1>1, <1>2, Taken
<1>4. PICK h, k \in Nat : FileQueue(h, k)
  BY DEF FilesQueued
<1>5. /\ \A i \in 1..Len(fileQ) : fileQ[i] = IF i <= k THEN <<h + i, 0>> ELSE Sentinel
      /\ h + k <= NFiles
      /\ phase = "up" => h + k = FilesPut
  BY <1>4 DEF FileQueue
<1>6. fileQ[1] = <<h + 1, 0>> /\ 1 <= k
  <2>1. fileQ[1] = IF 1 <= k THEN <<h + 1, 0>> ELSE Sentinel
    BY <1>3, <1>5
  <2> QED
    BY <1>3, <2>1
<1>7. h + 1 \in Files /\ Head(fileQ)[1] = h + 1
  BY <1>1, <1>3, <1>5, <1>6 DEF Files
<1>8. <<h + 1, 0>> \in Items(fileQ)
  <2>1. Items(fileQ) = {Head(fileQ)} \cup Items(Tail(fileQ))
    BY <1>1, <1>2, ItemsTaken
  <2> QED
    BY <1>3, <1>6, <2>1
<1>9. <<h + 1, 0>> \notin Items(fileQ')
  <2> SUFFICES ASSUME NEW i \in 1..Len(fileQ') PROVE fileQ'[i] # <<h + 1, 0>>
    BY <1>3 DEF Items
  <2>1. i + 1 \in 1..Len(fileQ) /\ fileQ'[i] = fileQ[i + 1]
    BY <1>1, <1>3
  <2>2. fileQ[i + 1] = IF i + 1 <= k THEN <<h + (i + 1), 0>> ELSE Sentinel
    BY <1>5, <2>1
  <2>3. h + (i + 1) # h + 1 /\ h + 1 # 0
    BY <1>1
  <2> QED
    BY <2>1, <2>2, <2>3 DEF Sentinel
<1>10. ~(phase' = "up" /\ h + 1 > FilesPut')
  <2>1. FilesPut' = FilesPut
    BY <1>2 DEF FilesPut
  <2> QED
    <3>1. h + 1 <= h + k
      BY <1>6
    <3>2. ~(phase = "up" /\ h + 1 > FilesPut)
      BY <1>1, <1>5, <3>1
    <3> QED
      BY <1>2, <2>1, <3>2
<1>11. Ahead(h + 1) /\ ~Ahead(h + 1)'
  BY <1>8, <1>9, <1>10 DEF Ahead
<1> QED
  BY <1>2, <1>3, <1>6, <1>7, <1>11

\* A step that starts no file and splits none.
LEMMA FilesApartKept ==
  ASSUME FilesApart, cur' = cur \/ \E w \in FileWorkers : /\ w \notin Busy'
                                      /\ \A v \in FileWorkers \ {w} : cur'[v] = cur[v],
         chunkRows' = chunkRows, Busy' \subseteq Busy,
         \A w \in FileWorkers : fst'[w] \in {"process", "store"}
             => fst[w] \in {"process", "store"} /\ todo'[w] = todo[w],
         \A f \in Files : Ahead(f)' => Ahead(f)
  PROVE  FilesApart'
<1>1. \A w \in Busy' : w \in Busy /\ cur'[w] = cur[w]
  BY DEF Busy
<1>2. \A w \in FileWorkers : fst'[w] \in {"process", "store"} => w \in Busy'
  BY DEF Busy
<1>3. ASSUME NEW w \in FileWorkers, fst'[w] \in {"process", "store"}
      PROVE  Splits(w, chunkRows', cur', todo')
  BY <1>1, <1>2, <1>3 DEF FilesApart, Splits
<1> QED
  BY <1>1, <1>3 DEF FilesApart

\* A worker that takes a file has it for itself, and the file has no chunks.
LEMMA FilesApartTaken ==
  ASSUME TypeInv, FilesQueued, FilesApart, NothingDropped, NEW w \in FileWorkers, FileGet(w)
  PROVE  FilesApart'
<1>t. fst \in [FileWorkers -> {"get", "process", "store", "put", "done"}] /\ cur \in [FileWorkers -> 0..NFiles]
  BY DEF TypeInv, TypeOK
<1>1. /\ fst[w] = "get" /\ fileQ # << >> /\ fileQ' = Tail(fileQ)
      /\ UNCHANGED <<pc, nput, phase, chunkRows, todo>> /\ todo[w] = << >>
  BY DEF FileGet, NothingDropped, NoneLeft
<1>2. \A f \in Files : Ahead(f)' => Ahead(f)
  <2>1. fileQ \in Seq({<<g, 0>> : g \in 0..NFiles})
    BY FileNumbers
  <2>2. Items(fileQ') \subseteq Items(fileQ)
    BY <1>1, <2>1, ItemsTaken
  <2>3. FilesPut' = FilesPut
    BY <1>1 DEF FilesPut
  <2> QED
    BY <1>1, <2>2, <2>3 DEF Ahead
<1>3. CASE Head(fileQ) = Sentinel
  <2>1. fst' = [fst EXCEPT ![w] = "done"] /\ cur' = cur
    BY <1>3 DEF FileGet
  <2>2. /\ Busy' \subseteq Busy
        /\ \A v \in FileWorkers : fst'[v] \in {"process", "store"}
                                     => fst[v] \in {"process", "store"}
    BY <1>t, <1>1, <2>1 DEF Busy
  <2> QED
    BY <1>1, <1>2, <2>1, <2>2, FilesApartKept
<1>4. CASE Head(fileQ) # Sentinel
  <2>1. PICK f \in Files : /\ Ahead(f) /\ ~Ahead(f)'
                           /\ fst' = [fst EXCEPT ![w] = "process"]
                           /\ cur' = [cur EXCEPT ![w] = f]
    BY <1>4, AheadTaken
  <2>2. Busy' = Busy \cup {w} /\ w \notin Busy /\ Busy \subseteq FileWorkers
    BY <1>t, <1>1, <2>1 DEF Busy
  <2>3. cur'[w] = f /\ \A v \in Busy : cur'[v] = cur[v] /\ cur[v] # f
    BY <1>t, <2>1, <2>2 DEF FilesApart
  <2>4. \A v, u \in Busy' : v # u => cur'[v] # cur'[u]
    BY <2>2, <2>3 DEF FilesApart
  <2>5. \A g \in Files : Ahead(g)' => /\ \A v \in Busy' : cur'[v] # g
                                      /\ \A c \in chunkRows' : c[1] # g
    BY <1>1, <1>2, <2>1, <2>2, <2>3 DEF FilesApart
  <2>6. ASSUME NEW v \in FileWorkers, fst'[v] \in {"process", "store"}
        PROVE  Splits(v, chunkRows', cur', todo')
    <3>1. CASE v = w
      <4>1. \A x \in chunkRows : x[1] # f
        BY <2>1 DEF FilesApart
      <4> QED
        BY <1>1, <2>3, <3>1, <4>1 DEF Splits
    <3>2. CASE v # w
      <4>1. fst'[v] = fst[v] /\ cur'[v] = cur[v]
        BY <1>t, <2>1, <3>2
      <4> QED
        BY <1>1, <2>6, <4>1 DEF FilesApart, Splits
    <3> QED
      BY <3>1, <3>2
  <2> QED
    BY <2>4, <2>5, <2>6 DEF FilesApart
<1> QED
  BY <1>3, <1>4

\* The next chunk of a file becomes a row.
LEMMA FilesApartStored ==
  ASSUME TypeInv, FilesApart, NEW w \in FileWorkers, StoreChunk(w)
  PROVE  FilesApart'
<1>t. /\ fst \in [FileWorkers -> {"get", "process", "store", "put", "done"}]
      /\ \A v \in Busy : cur[v] \in Files
      /\ todo \in [FileWorkers -> Seq(Chunks)]
  BY DEF TypeInv, TypeOK, InBounds
<1> DEFINE n == Len(todo[w])
           x == <<cur[w], n + 1>>
<1>1. /\ fst[w] \in {"process", "store"} /\ fst' = [fst EXCEPT ![w] = "store"]
      /\ todo' = [todo EXCEPT ![w] = Append(todo[w], x)]
      /\ chunkRows' = chunkRows \cup {x}
      /\ UNCHANGED <<pc, nput, fileQ, cur, phase>>
  BY DEF StoreChunk
<1>2. Busy' = Busy /\ w \in Busy /\ \A v \in FileWorkers \ {w} : fst'[v] = fst[v]
  BY <1>t, <1>1 DEF Busy
<1>3. \A f : Ahead(f)' = Ahead(f)
  <2>1. FilesPut' = FilesPut
    BY <1>1 DEF FilesPut
  <2> QED
    BY <1>1, <2>1 DEF Ahead
<1>a. x \in Chunks /\ todo[w] \in Seq(Chunks)
  BY <1>t, StoredChunk
<1>4. x[1] = cur[w] /\ \A c \in chunkRows' : c \in chunkRows \/ c = x
  BY <1>1
<1>5. ~Ahead(cur[w])
  BY <1>t, <1>2 DEF FilesApart
<1>6. \A f \in Files : Ahead(f)' => /\ \A v \in Busy' : cur'[v] # f
                                    /\ \A c \in chunkRows' : c[1] # f
  BY <1>1, <1>2, <1>3, <1>4, <1>5 DEF FilesApart
<1>7. ASSUME NEW v \in FileWorkers, fst'[v] \in {"process", "store"}
      PROVE  Splits(v, chunkRows', cur', todo')
  <2>1. CASE v = w
    <3>1. Splits(w, chunkRows, cur, todo) /\ todo'[w] = Append(todo[w], x)
      BY <1>t, <1>1 DEF FilesApart
    <3>2. /\ n \in Nat /\ DOMAIN todo[w] = 1..n /\ DOMAIN Append(todo[w], x) = 1..(n + 1)
          /\ Append(todo[w], x)[n + 1] = x
          /\ \A i \in 1..n : Append(todo[w], x)[i] = todo[w][i]
      BY <1>a, AppendProperties
    <3>3. Items(Append(todo[w], x)) = Items(todo[w]) \cup {x}
      BY <1>a, ItemsPut
    <3>4. \A i \in 1..(n + 1) : i \in 1..n \/ i = n + 1
      BY <3>2
    <3> HIDE DEF n
    <3>5. \A i \in DOMAIN todo'[w] : todo'[w][i] = <<cur[w], i>>
      BY <3>1, <3>2, <3>4 DEF Splits
    <3> QED
      BY <1>1, <1>4, <2>1, <3>1, <3>3, <3>5 DEF Splits
  <2>2. CASE v # w
    <3>1. /\ fst[v] \in {"process", "store"} /\ v \in Busy /\ cur[v] # cur[w]
          /\ todo'[v] = todo[v]
      BY <1>t, <1>1, <1>2, <1>7, <2>2 DEF Busy, FilesApart
    <3>2. Splits(v, chunkRows, cur, todo)
      BY <3>1 DEF FilesApart
    <3> QED
      BY <1>1, <1>4, <3>1, <3>2 DEF Splits
  <2> QED
    BY <2>1, <2>2
<1> QED
  BY <1>1, <1>2, <1>6, <1>7 DEF FilesApart

LEMMA FilesApartStep ==
  TypeInv /\ FilesQueued /\ NothingDropped /\ FilesApart /\ [Next]_vars => FilesApart'
<1> SUFFICES ASSUME TypeInv, FilesQueued, NothingDropped, FilesApart, [Next]_vars
             PROVE  FilesApart'
  OBVIOUS
<1>t. /\ fst \in [FileWorkers -> {"get", "process", "store", "put", "done"}]
      /\ cur \in [FileWorkers -> 0..NFiles]
  BY DEF TypeInv, TypeOK
<1>a. UNCHANGED <<fileQ, FilesPut, phase>> \/ (UNCHANGED fileQ /\ phase' # "up")
        => \A f \in Files : Ahead(f)' => Ahead(f)
  BY DEF Ahead
<1>1. CASE FeedFile \/ StopFileWorkers
  <2>1. UNCHANGED <<fst, cur, todo, chunkRows>>
    BY <1>1 DEF FeedFile, StopFileWorkers
  <2>2. \A f \in Files : Ahead(f)' => Ahead(f)
    BY <1>1, AheadFed
  <2> QED
    BY <2>1, <2>2, FilesApartKept DEF Busy
<1>2. CASE Orchestrate /\ ~FeedFile /\ ~StopFileWorkers
  <2>1. UNCHANGED <<fst, cur, todo, chunkRows, fileQ, FilesPut, phase>>
    BY <1>2 DEF Orchestrate, GatherFileWorkers, StopEmbedWorkers,
                GatherEmbedWorkers, SetCounters, MarkCompleted, FilesPut
  <2> QED
    BY <1>a, <2>1, FilesApartKept DEF Busy
<1>3. ASSUME NEW w \in FileWorkers, ProcessRaises(w) \/ FileDone(w) PROVE FilesApart'
  <2>1. /\ fst' = [fst EXCEPT ![w] = "get"] /\ cur' = [cur EXCEPT ![w] = NoFile]
        /\ UNCHANGED <<chunkRows, todo, fileQ, pc, nput, phase>>
    BY <1>3 DEF ProcessRaises, FileDone
  <2>2. FilesPut' = FilesPut
    BY <2>1 DEF FilesPut
  <2>3. /\ Busy' \subseteq Busy /\ w \notin Busy'
        /\ \A v \in FileWorkers : fst'[v] \in {"process", "store"}
                                     => fst[v] \in {"process", "store"}
        /\ \A v \in FileWorkers \ {w} : cur'[v] = cur[v]
    BY <1>t, <2>1 DEF Busy
  <2> QED
    BY <1>a, <2>1, <2>2, <2>3, FilesApartKept
<1>4. ASSUME NEW w \in FileWorkers, EnrichFails(w) \/ ProcessChunks(w) \/ PutChunk(w)
      PROVE  FilesApart'
  <2>1. /\ UNCHANGED <<cur, chunkRows, fileQ, pc, nput, phase>>
        /\ fst[w] \in {"process", "store", "put"} /\ fst' = [fst EXCEPT ![w] = "put"]
        /\ \A v \in FileWorkers \ {w} : todo'[v] = todo[v]
    BY <1>4, <1>t DEF EnrichFails, ProcessChunks, PutChunk, TypeInv, TypeOK
  <2>2. FilesPut' = FilesPut
    BY <2>1 DEF FilesPut
  <2>3. /\ Busy' \subseteq Busy
        /\ \A v \in FileWorkers : fst'[v] \in {"process", "store"}
               => fst[v] \in {"process", "store"} /\ todo'[v] = todo[v]
    BY <1>t, <2>1 DEF Busy
  <2> QED
    BY <1>a, <2>1, <2>2, <2>3, FilesApartKept
<1>5. ASSUME NEW w \in EmbedWorkers, EmbedWorker(w) PROVE FilesApart'
  <2>1. UNCHANGED <<fst, cur, todo, chunkRows, fileQ, pc, nput, phase>>
    BY <1>5 DEF EmbedWorker, EmbedGet, BatchTimeout, FlushFails, EmbedBatch, SendChunk,
                FlushSucceeds
  <2>2. FilesPut' = FilesPut
    BY <2>1 DEF FilesPut
  <2> QED
    BY <1>a, <2>1, <2>2, FilesApartKept DEF Busy
<1>6. CASE ShutDown
  <2>1. /\ UNCHANGED <<cur, todo, chunkRows, fileQ>> /\ phase' # "up"
        /\ fst' = fst \/ \A w \in FileWorkers : fst'[w] = "done"
    BY <1>6 DEF ShutDown, Signal, MarkFails, StopProducer, ClosePool, TearDown, CancelFileWorkers
  <2>2. /\ Busy' \subseteq Busy
        /\ \A v \in FileWorkers : fst'[v] \in {"process", "store"}
                                     => fst[v] \in {"process", "store"}
    BY <2>1 DEF Busy
  <2> QED
    BY <1>a, <2>1, <2>2, FilesApartKept
<1>7. CASE UNCHANGED vars
  <2>1. UNCHANGED <<fst, cur, todo, chunkRows, fileQ, FilesPut, phase>>
    BY <1>7 DEF FilesPut
  <2> QED
    BY <1>a, <2>1, FilesApartKept DEF Busy
<1> QED
  BY <1>1, <1>2, <1>3, <1>4, <1>5, <1>6, <1>7, FilesApartTaken, FilesApartStored
     DEF Next, Work, Terminated, FileWorker

-----------------------------------------------------------------------------
(* The chunks.                                                             *)

LEMMA DistinctTail ==
  ASSUME NEW S, NEW q \in Seq(S), q # << >>, Distinct(q)
  PROVE  Distinct(Tail(q)) /\ Head(q) \notin Items(Tail(q))
<1>1. /\ DOMAIN q = 1..Len(q) /\ Len(q) \in Nat \ {0} /\ Head(q) = q[1]
      /\ DOMAIN Tail(q) = 1..Len(q) - 1
      /\ \A i \in 1..Len(q) - 1 : Tail(q)[i] = q[i + 1]
  BY Taken
<1>2. ASSUME NEW i \in 1..Len(q) - 1 PROVE i + 1 \in 1..Len(q) /\ i + 1 # 1
  BY <1>1
<1>3. Head(q) \notin Items(Tail(q))
  BY <1>1, <1>2 DEF Items, Distinct
<1>4. ASSUME NEW i \in 1..Len(q) - 1, NEW j \in 1..Len(q) - 1, i # j
      PROVE  Tail(q)[i] # Tail(q)[j]
  <2>1. i + 1 # j + 1
    BY <1>4
  <2> QED
    BY <1>1, <1>2, <2>1 DEF Distinct
<1> QED
  BY <1>1, <1>3, <1>4 DEF Distinct

LEMMA DistinctPut ==
  ASSUME NEW S, NEW q \in Seq(S), NEW x \in S \ Items(q), Distinct(q)
  PROVE  Distinct(Append(q, x))
<1>1. /\ DOMAIN Append(q, x) = 1..Len(q) + 1 /\ DOMAIN q = 1..Len(q) /\ Len(q) \in Nat
      /\ \A i \in 1..Len(q) : Append(q, x)[i] = q[i]
      /\ Append(q, x)[Len(q) + 1] = x
  BY AppendProperties
<1>2. \A i \in 1..Len(q) : q[i] # x
  BY <1>1 DEF Items
<1> SUFFICES ASSUME NEW i \in 1..Len(q) + 1, NEW j \in 1..Len(q) + 1, i # j
             PROVE  Append(q, x)[i] # Append(q, x)[j]
  BY <1>1 DEF Distinct
<1>3. CASE i \in 1..Len(q) /\ j \in 1..Len(q)
  BY <1>1, <1>3 DEF Distinct
<1>4. CASE i = Len(q) + 1 /\ j \in 1..Len(q)
  BY <1>1, <1>2, <1>4
<1>5. CASE i \in 1..Len(q) /\ j = Len(q) + 1
  BY <1>1, <1>2, <1>5
<1> QED
  BY <1>1, <1>3, <1>4, <1>5

\* What one of them holds is replaced by something no other holds.
LEMMA ApartChanged ==
  ASSUME NEW f, NEW w \in DOMAIN f, Apart(f), NEW q, Distinct(q),
         Items(q) \cap ItemsBut(f, w) = {}
  PROVE  Apart([f EXCEPT ![w] = q])
<1> DEFINE g == [f EXCEPT ![w] = q]
<1>1. DOMAIN g = DOMAIN f /\ g[w] = q /\ \A v \in DOMAIN f \ {w} : g[v] = f[v]
  OBVIOUS
<1> HIDE DEF g
<1>2. \A v \in DOMAIN f \ {w} : Items(f[v]) \subseteq ItemsBut(f, w)
  BY DEF ItemsBut
<1>3. \A v \in DOMAIN f \ {w} : Items(g[v]) \cap Items(g[w]) = {}
  BY <1>1, <1>2
<1>4. ASSUME NEW u \in DOMAIN g, NEW v \in DOMAIN g, u # v
      PROVE  Items(g[u]) \cap Items(g[v]) = {}
  <2>1. CASE u = w
    BY <1>1, <1>3, <1>4, <2>1
  <2>2. CASE v = w
    BY <1>1, <1>3, <1>4, <2>2
  <2>3. CASE u # w /\ v # w
    BY <1>1, <1>4, <2>3 DEF Apart
  <2> QED
    BY <2>1, <2>2, <2>3
<1>5. \A v \in DOMAIN g : Distinct(g[v])
  BY <1>1 DEF Apart
<1> QED
  BY <1>4, <1>5 DEF Apart, g

LEMMA ApartFromOthers ==
  ASSUME NEW f, NEW w \in DOMAIN f, Apart(f)
  PROVE  Items(f[w]) \cap ItemsBut(f, w) = {}
  BY DEF Apart, ItemsBut

LEMMA OnePlaceInit == Init => OnePlace
<1> SUFFICES ASSUME Init PROVE OnePlace
  OBVIOUS
<1>1. /\ settled = {} /\ unqueued = {} /\ embedQ = << >>
      /\ \A w \in DOMAIN todo : todo[w] = << >>
      /\ \A w \in DOMAIN buf : buf[w] = << >>
  BY DEF Init
<1>2. AllItems(todo) = {} /\ AllItems(buf) = {} /\ QueuedChunks = {}
  BY <1>1, ItemsNone DEF AllItems, QueuedChunks
<1>3. Apart(todo) /\ Apart(buf)
  BY <1>1, ItemsNone DEF Apart, Distinct
<1>4. DOMAIN embedQ = {}
  BY <1>1
<1> QED
  BY <1>1, <1>2, <1>3, <1>4 DEF OnePlace

\* From the file to the queue.
LEMMA OnePlacePut ==
  ASSUME TypeInv, OnePlace, NEW w \in FileWorkers, PutChunk(w)
  PROVE  OnePlace'
<1>1. /\ embedQ' = Append(embedQ, Head(todo[w])) /\ todo' = [todo EXCEPT ![w] = Tail(todo[w])]
      /\ todo[w] # << >> /\ todo[w] \in Seq(Chunks)
      /\ UNCHANGED <<settled, unqueued, buf>>
  BY DEF PutChunk, TypeInv, TypeOK
<1>d. w \in DOMAIN todo
  BY DEF TypeInv, TypeOK
<1>2. PICK c : c = Head(todo[w])
  OBVIOUS
<1>3. /\ Items(todo[w]) = {c} \cup Items(Tail(todo[w])) /\ c \in Chunks
      /\ Distinct(Tail(todo[w])) /\ c \notin Items(Tail(todo[w]))
  BY <1>1, <1>2, <1>d, ItemsTaken, Taken, DistinctTail DEF OnePlace, Apart
<1>4. AllItems(todo) = ItemsBut(todo, w) \cup Items(todo[w])
  BY <1>d, OneChanged
<1>5. AllItems(todo') = ItemsBut(todo, w) \cup Items(Tail(todo[w]))
  <2>1. \A q : AllItems([todo EXCEPT ![w] = q]) = ItemsBut(todo, w) \cup Items(q)
    BY <1>d, OneChanged
  <2> QED
    BY <1>1, <2>1
<1>6. Items(todo[w]) \cap ItemsBut(todo, w) = {}
  BY <1>d, ApartFromOthers DEF OnePlace
<1>7. c \in AllItems(todo) /\ c \notin AllItems(todo') /\ AllItems(todo') \subseteq AllItems(todo)
  BY <1>3, <1>4, <1>5, <1>6
<1>8. embedQ \in Seq(Chunks \cup {Sentinel}) /\ c \in Chunks \cup {Sentinel} /\ c # Sentinel
  BY <1>3, SentinelNoChunk DEF TypeInv, TypeOK
<1>9. QueuedChunks' = QueuedChunks \cup {c} /\ c \notin QueuedChunks /\ c \notin Items(embedQ)
  <2>1. Items(Append(embedQ, c)) = Items(embedQ) \cup {c}
    BY <1>8, ItemsPut
  <2> QED
    BY <1>1, <1>2, <1>7, <1>8, <2>1 DEF QueuedChunks, OnePlace
<1>10. Apart(todo')
  <2>1. \A q : Distinct(q) /\ Items(q) \cap ItemsBut(todo, w) = {}
                 => Apart([todo EXCEPT ![w] = q])
    BY <1>d, ApartChanged DEF OnePlace
  <2> QED
    BY <1>1, <1>3, <1>6, <2>1
<1>11. \A i, j \in DOMAIN embedQ' :
           i # j /\ embedQ'[i] = embedQ'[j] => embedQ'[i] = Sentinel
  <2>1. /\ Len(embedQ) \in Nat /\ DOMAIN embedQ = 1..Len(embedQ)
        /\ DOMAIN embedQ' = 1..Len(embedQ) + 1
        /\ \A i \in 1..Len(embedQ) : embedQ'[i] = embedQ[i]
        /\ embedQ'[Len(embedQ) + 1] = c
    BY <1>1, <1>2, <1>8, AppendProperties
  <2>2. \A i \in 1..Len(embedQ) : embedQ[i] # c
    BY <1>9, <2>1 DEF Items
  <2> SUFFICES ASSUME NEW i \in 1..Len(embedQ) + 1, NEW j \in 1..Len(embedQ) + 1, i # j,
                      embedQ'[i] = embedQ'[j]
               PROVE  embedQ'[i] = Sentinel
    BY <2>1
  <2>3. CASE i \in 1..Len(embedQ) /\ j \in 1..Len(embedQ)
    BY <2>1, <2>3 DEF OnePlace
  <2>4. CASE i = Len(embedQ) + 1 /\ j \in 1..Len(embedQ)
    BY <2>1, <2>2, <2>4
  <2>5. CASE i \in 1..Len(embedQ) /\ j = Len(embedQ) + 1
    BY <2>1, <2>2, <2>5
  <2> QED
    BY <2>1, <2>3, <2>4, <2>5
<1>12. Apart(buf)' /\ AllItems(buf)' = AllItems(buf)
  BY <1>1 DEF OnePlace
<1> QED
  BY <1>1, <1>7, <1>9, <1>10, <1>11, <1>12 DEF OnePlace

\* The queue without its first element.
LEMMA QueueTail ==
  ASSUME TypeInv, OnePlace, embedQ # << >>, embedQ' = Tail(embedQ)
  PROVE  /\ Items(embedQ) = {Head(embedQ)} \cup Items(embedQ')
         /\ Head(embedQ) \in Chunks \cup {Sentinel}
         /\ Head(embedQ) # Sentinel => Head(embedQ) \notin Items(embedQ')
         /\ \A i, j \in DOMAIN embedQ' :
                i # j /\ embedQ'[i] = embedQ'[j] => embedQ'[i] = Sentinel
<1>1. embedQ \in Seq(Chunks \cup {Sentinel})
  BY DEF TypeInv, TypeOK
<1>2. /\ DOMAIN embedQ = 1..Len(embedQ) /\ Len(embedQ) \in Nat \ {0}
      /\ Head(embedQ) = embedQ[1] /\ DOMAIN embedQ' = 1..Len(embedQ) - 1
      /\ \A i \in 1..Len(embedQ) - 1 : embedQ'[i] = embedQ[i + 1]
      /\ Head(embedQ) \in Chunks \cup {Sentinel}
  BY <1>1, Taken
<1>3. ASSUME NEW i \in 1..Len(embedQ) - 1 PROVE i + 1 \in 1..Len(embedQ) /\ i + 1 # 1
  BY <1>2
<1>4. Items(embedQ) = {Head(embedQ)} \cup Items(embedQ')
  BY <1>1, ItemsTaken
<1>5. ASSUME Head(embedQ) # Sentinel PROVE Head(embedQ) \notin Items(embedQ')
  <2> SUFFICES ASSUME NEW i \in 1..Len(embedQ) - 1 PROVE embedQ'[i] # Head(embedQ)
    BY <1>2 DEF Items
  <2>1. i + 1 \in DOMAIN embedQ /\ 1 \in DOMAIN embedQ /\ i + 1 # 1
    BY <1>2, <1>3
  <2> QED
    BY <1>2, <1>5, <2>1 DEF OnePlace
<1>6. ASSUME NEW i \in 1..Len(embedQ) - 1, NEW j \in 1..Len(embedQ) - 1, i # j,
             embedQ'[i] = embedQ'[j]
      PROVE  embedQ'[i] = Sentinel
  <2>1. i + 1 \in DOMAIN embedQ /\ j + 1 \in DOMAIN embedQ /\ i + 1 # j + 1
    BY <1>2, <1>3, <1>6
  <2> QED
    BY <1>2, <1>6, <2>1 DEF OnePlace
<1> QED
  BY <1>2, <1>4, <1>5, <1>6

\* From the queue into a batch.
LEMMA OnePlaceTaken ==
  ASSUME TypeInv, OnePlace, NEW w \in EmbedWorkers, EmbedGet(w)
  PROVE  OnePlace'
<1>1. /\ embedQ # << >> /\ embedQ' = Tail(embedQ) /\ UNCHANGED <<settled, unqueued, todo>>
      /\ buf[w] \in Seq(Chunks)
  BY DEF EmbedGet, TypeInv, TypeOK
<1>d. w \in DOMAIN buf
  BY DEF TypeInv, TypeOK
<1>2. PICK c : c = Head(embedQ)
  OBVIOUS
<1>3. /\ Items(embedQ) = {c} \cup Items(embedQ') /\ c \in Chunks \cup {Sentinel}
      /\ c # Sentinel => c \notin Items(embedQ')
      /\ \A i, j \in DOMAIN embedQ' :
             i # j /\ embedQ'[i] = embedQ'[j] => embedQ'[i] = Sentinel
  BY <1>1, <1>2, QueueTail
<1>4. Apart(todo)' /\ AllItems(todo)' = AllItems(todo)
  BY <1>1 DEF OnePlace
<1>5. CASE c = Sentinel
  <2>1. buf' = buf
    BY <1>2, <1>5 DEF EmbedGet, Stops, ReceivedSentinel
  <2>2. QueuedChunks' = QueuedChunks
    BY <1>3, <1>5 DEF QueuedChunks
  <2>3. Apart(buf)' /\ AllItems(buf)' = AllItems(buf)
    BY <2>1 DEF OnePlace
  <2> QED
    BY <1>1, <1>3, <1>4, <2>2, <2>3 DEF OnePlace
<1>6. CASE c # Sentinel
  <2>1. buf' = [buf EXCEPT ![w] = Append(buf[w], c)] /\ c \in Chunks
    BY <1>2, <1>3, <1>6 DEF EmbedGet, Stops, Received
  <2>2. QueuedChunks = QueuedChunks' \cup {c} /\ c \notin QueuedChunks'
    BY <1>3, <1>6 DEF QueuedChunks
  <2>3. AllItems(buf) = ItemsBut(buf, w) \cup Items(buf[w])
    BY <1>d, OneChanged
  <2>4. c \notin AllItems(buf) /\ c \notin Items(buf[w]) /\ c \notin ItemsBut(buf, w)
    BY <2>2, <2>3 DEF OnePlace
  <2>5. Items(Append(buf[w], c)) = Items(buf[w]) \cup {c} /\ Distinct(Append(buf[w], c))
    BY <1>1, <1>d, <2>1, <2>4, ItemsPut, DistinctPut DEF OnePlace, Apart
  <2>6. AllItems(buf') = AllItems(buf) \cup {c}
    <3>1. \A q : AllItems([buf EXCEPT ![w] = q]) = ItemsBut(buf, w) \cup Items(q)
      BY <1>d, OneChanged
    <3> QED
      BY <2>1, <2>3, <2>5, <3>1
  <2>7. Apart(buf')
    <3>1. \A q : Distinct(q) /\ Items(q) \cap ItemsBut(buf, w) = {}
                   => Apart([buf EXCEPT ![w] = q])
      BY <1>d, ApartChanged DEF OnePlace
    <3>2. Items(buf[w]) \cap ItemsBut(buf, w) = {}
      BY <1>d, ApartFromOthers DEF OnePlace
    <3> QED
      BY <2>1, <2>4, <2>5, <3>1, <3>2
  <2> QED
    BY <1>1, <1>3, <1>4, <2>2, <2>6, <2>7 DEF OnePlace
<1> QED
  BY <1>5, <1>6

\* A batch is settled.
LEMMA OnePlaceSettled ==
  ASSUME TypeInv, OnePlace, NEW w \in EmbedWorkers, NEW n, FlushReturns(w, n),
         UNCHANGED <<embedQ, todo, unqueued>>
  PROVE  /\ OnePlace'
         /\ settled' = settled \cup Items(buf[w]) /\ Items(buf[w]) \cap settled = {}
         /\ AllItems(buf) = AllItems(buf') \cup Items(buf[w])
<1>1. settled' = settled \cup Items(buf[w]) /\ buf' = [buf EXCEPT ![w] = << >>]
  BY DEF FlushReturns, Items
<1>d. w \in DOMAIN buf
  BY DEF TypeInv, TypeOK
<1>2. AllItems(buf) = ItemsBut(buf, w) \cup Items(buf[w])
  BY <1>d, OneChanged
<1>3. AllItems(buf') = ItemsBut(buf, w)
  <2>1. \A q : AllItems([buf EXCEPT ![w] = q]) = ItemsBut(buf, w) \cup Items(q)
    BY <1>d, OneChanged
  <2> QED
    BY <1>1, <2>1, ItemsNone
<1>4. Items(buf[w]) \cap ItemsBut(buf, w) = {}
  BY <1>d, ApartFromOthers DEF OnePlace
<1>5. Apart(buf')
  <2>1. \A q : Distinct(q) /\ Items(q) \cap ItemsBut(buf, w) = {}
                 => Apart([buf EXCEPT ![w] = q])
    BY <1>d, ApartChanged DEF OnePlace
  <2>2. Distinct(<< >>)
    BY DEF Distinct
  <2> QED
    BY <1>1, <2>1, <2>2, ItemsNone
<1>6. /\ AllItems(todo)' = AllItems(todo) /\ Apart(todo)' /\ QueuedChunks' = QueuedChunks
      /\ \A i, j \in DOMAIN embedQ' :
             i # j /\ embedQ'[i] = embedQ'[j] => embedQ'[i] = Sentinel
  BY DEF OnePlace, QueuedChunks
<1>7. OnePlace'
  BY <1>1, <1>2, <1>3, <1>4, <1>5, <1>6 DEF OnePlace
<1> QED
  BY <1>1, <1>2, <1>3, <1>7 DEF OnePlace

\* The new chunk of a file is nowhere yet.
LEMMA FreshChunk ==
  ASSUME TypeInv, FilesApart, NEW w \in FileWorkers, StoreChunk(w)
  PROVE  <<cur[w], Len(todo[w]) + 1>> \notin chunkRows
<1> DEFINE n == Len(todo[w])
<1>1. /\ Splits(w, chunkRows, cur, todo) /\ n \in Nat /\ DOMAIN todo[w] = 1..n
      /\ ~(n + 1 \in 1..n)
  BY DEF StoreChunk, FilesApart, TypeInv, TypeOK
<1> HIDE DEF n
<1>2. <<cur[w], n + 1>> \notin Items(todo[w])
  BY <1>1 DEF Splits, Items
<1> QED
  BY <1>1, <1>2 DEF Splits, n

LEMMA OnePlaceStored ==
  ASSUME TypeInv, NothingDropped, FilesApart, OnePlace, NEW w \in FileWorkers, StoreChunk(w)
  PROVE  OnePlace'
<1> DEFINE c == <<cur[w], Len(todo[w]) + 1>>
<1>1. /\ todo' = [todo EXCEPT ![w] = Append(todo[w], c)]
      /\ UNCHANGED <<settled, unqueued, embedQ, buf>>
  BY DEF StoreChunk
<1>2. w \in DOMAIN todo /\ todo[w] \in Seq(Chunks) /\ c \in Chunks
  BY StoredChunk DEF TypeInv, TypeOK
<1>3. c \notin Held
  BY FreshChunk DEF NothingDropped
<1> HIDE DEF c
<1>4. AllItems(todo) = ItemsBut(todo, w) \cup Items(todo[w])
  BY <1>2, OneChanged
<1>5. Items(Append(todo[w], c)) = Items(todo[w]) \cup {c} /\ Distinct(Append(todo[w], c))
  BY <1>2, <1>3, <1>4, ItemsPut, DistinctPut DEF OnePlace, Apart, Held
<1>6. AllItems(todo') = AllItems(todo) \cup {c}
  <2>1. \A p : AllItems([todo EXCEPT ![w] = p]) = ItemsBut(todo, w) \cup Items(p)
    BY <1>2, OneChanged
  <2> QED
    BY <1>1, <1>4, <1>5, <2>1
<1>7. Apart(todo')
  <2>1. \A p : Distinct(p) /\ Items(p) \cap ItemsBut(todo, w) = {}
                 => Apart([todo EXCEPT ![w] = p])
    BY <1>2, ApartChanged DEF OnePlace
  <2>2. Items(todo[w]) \cap ItemsBut(todo, w) = {}
    BY <1>2, ApartFromOthers DEF OnePlace
  <2>3. c \notin ItemsBut(todo, w)
    BY <1>3, <1>4 DEF Held
  <2> QED
    BY <1>1, <1>5, <2>1, <2>2, <2>3
<1>8. /\ AllItems(buf)' = AllItems(buf) /\ Apart(buf)' /\ QueuedChunks' = QueuedChunks
      /\ \A i, j \in DOMAIN embedQ' :
             i # j /\ embedQ'[i] = embedQ'[j] => embedQ'[i] = Sentinel
  BY <1>1 DEF OnePlace, QueuedChunks
<1>9. /\ c \notin settled /\ c \notin unqueued /\ c \notin QueuedChunks
      /\ c \notin AllItems(buf)
  BY <1>3 DEF Held, QueuedChunks
<1> QED
  BY <1>1, <1>6, <1>7, <1>8, <1>9 DEF OnePlace

\* The rows of a file that was given up leave its worker.
LEMMA OnePlaceLeft ==
  ASSUME TypeInv, OnePlace, NEW w \in FileWorkers, EnrichFails(w)
  PROVE  OnePlace'
<1>1. /\ todo' = [todo EXCEPT ![w] = << >>] /\ unqueued' = unqueued \cup Items(todo[w])
      /\ UNCHANGED <<settled, embedQ, buf>>
  BY DEF EnrichFails, Items
<1>2. w \in DOMAIN todo
  BY DEF TypeInv, TypeOK
<1>3. /\ AllItems(todo) = ItemsBut(todo, w) \cup Items(todo[w])
      /\ AllItems(todo') = ItemsBut(todo, w)
  <2>1. \A q : AllItems([todo EXCEPT ![w] = q]) = ItemsBut(todo, w) \cup Items(q)
    BY <1>2, OneChanged
  <2>2. AllItems(todo) = ItemsBut(todo, w) \cup Items(todo[w])
    BY <1>2, OneChanged
  <2> QED
    BY <1>1, <2>1, <2>2, ItemsNone
<1>4. Items(todo[w]) \cap ItemsBut(todo, w) = {}
  BY <1>2, ApartFromOthers DEF OnePlace
<1>5. Apart(todo')
  <2>1. \A q : Distinct(q) /\ Items(q) \cap ItemsBut(todo, w) = {}
                 => Apart([todo EXCEPT ![w] = q])
    BY <1>2, ApartChanged DEF OnePlace
  <2>2. Distinct(<< >>)
    BY DEF Distinct
  <2> QED
    BY <1>1, <2>1, <2>2, ItemsNone
<1>6. /\ AllItems(buf)' = AllItems(buf) /\ Apart(buf)' /\ QueuedChunks' = QueuedChunks
      /\ \A i, j \in DOMAIN embedQ' :
             i # j /\ embedQ'[i] = embedQ'[j] => embedQ'[i] = Sentinel
  BY <1>1 DEF OnePlace, QueuedChunks
<1> QED
  BY <1>1, <1>3, <1>4, <1>5, <1>6 DEF OnePlace

\* A file is given up with all its rows.
LEMMA LeftApartStep ==
  TypeInv /\ NothingDropped /\ FilesApart /\ OnePlace /\ LeftApart /\ [Next]_vars => LeftApart'
<1> SUFFICES ASSUME TypeInv, NothingDropped, FilesApart, OnePlace, LeftApart, [Next]_vars
             PROVE  LeftApart'
  OBVIOUS
<1>1. ASSUME NEW w \in FileWorkers, StoreChunk(w) PROVE LeftApart'
  <2>1. /\ unqueued' = unqueued /\ chunkRows' = chunkRows \cup {<<cur[w], Len(todo[w]) + 1>>}
        /\ Splits(w, chunkRows, cur, todo)
    BY <1>1 DEF StoreChunk, FilesApart
  <2>2. \A c \in unqueued : c \in chunkRows /\ c \notin Items(todo[w])
    BY DEF OnePlace, NothingDropped, Held, AllItems, TypeInv, TypeOK
  <2> QED
    BY <2>1, <2>2 DEF LeftApart, Splits
<1>2. ASSUME NEW w \in FileWorkers, EnrichFails(w) PROVE LeftApart'
  <2>1. /\ unqueued' = unqueued \cup Items(todo[w]) /\ chunkRows' = chunkRows
        /\ Splits(w, chunkRows, cur, todo)
    BY <1>2 DEF EnrichFails, FilesApart, Items
  <2>2. \A c \in Items(todo[w]) : c[1] = cur[w]
    BY <2>1 DEF Splits, Items
  <2> QED
    BY <2>1, <2>2 DEF LeftApart, Splits
<1>3. CASE UNCHANGED <<unqueued, chunkRows>>
  BY <1>3 DEF LeftApart
<1>4. CASE Orchestrate
  BY <1>3, <1>4 DEF Orchestrate, FeedFile, StopFileWorkers, GatherFileWorkers,
                    StopEmbedWorkers, GatherEmbedWorkers, SetCounters, MarkCompleted
<1>5. ASSUME NEW w \in FileWorkers, FileWorker(w) PROVE LeftApart'
  BY <1>1, <1>2, <1>3, <1>5 DEF FileWorker, FileGet, ProcessRaises, ProcessChunks, PutChunk,
                                FileDone
<1>6. ASSUME NEW w \in EmbedWorkers, EmbedWorker(w) PROVE LeftApart'
  BY <1>3, <1>6 DEF EmbedWorker, EmbedGet, BatchTimeout, FlushFails, EmbedBatch, SendChunk,
                    FlushSucceeds
<1>7. CASE ShutDown
  BY <1>3, <1>7 DEF ShutDown, Signal, MarkFails, StopProducer, ClosePool, TearDown
<1> QED
  BY <1>3, <1>4, <1>5, <1>6, <1>7 DEF Next, Work, Terminated

LEMMA OnePlaceStep ==
  TypeInv /\ NothingDropped /\ FilesApart /\ OnePlace /\ [Next]_vars => OnePlace'
<1> SUFFICES ASSUME TypeInv, NothingDropped, FilesApart, OnePlace, [Next]_vars
             PROVE  OnePlace'
  OBVIOUS
<1>a. UNCHANGED <<settled, unqueued, embedQ, todo, buf>> => OnePlace'
  BY DEF OnePlace, QueuedChunks
<1>1. CASE StopEmbedWorkers
  <2>1. /\ embedQ' = Append(embedQ, Sentinel) /\ UNCHANGED <<settled, unqueued, todo, buf>>
        /\ embedQ \in Seq(Chunks \cup {Sentinel})
    BY <1>1 DEF StopEmbedWorkers, TypeInv, TypeOK
  <2>2. Items(Append(embedQ, Sentinel)) = Items(embedQ) \cup {Sentinel}
    BY <2>1, ItemsPut
  <2>3. QueuedChunks' = QueuedChunks
    BY <2>1, <2>2 DEF QueuedChunks
  <2>4. /\ Len(embedQ) \in Nat /\ DOMAIN embedQ = 1..Len(embedQ)
        /\ DOMAIN embedQ' = 1..Len(embedQ) + 1
        /\ \A i \in 1..Len(embedQ) : embedQ'[i] = embedQ[i]
        /\ embedQ'[Len(embedQ) + 1] = Sentinel
    BY <2>1, AppendProperties
  <2>5. \A i, j \in DOMAIN embedQ' :
            i # j /\ embedQ'[i] = embedQ'[j] => embedQ'[i] = Sentinel
    BY <2>4 DEF OnePlace
  <2>6. /\ AllItems(todo)' = AllItems(todo) /\ AllItems(buf)' = AllItems(buf)
        /\ Apart(todo)' /\ Apart(buf)'
    BY <2>1 DEF OnePlace
  <2> QED
    BY <2>1, <2>3, <2>5, <2>6 DEF OnePlace
<1>2. CASE Orchestrate /\ ~StopEmbedWorkers
  BY <1>a, <1>2 DEF Orchestrate, FeedFile, StopFileWorkers, GatherFileWorkers,
                    GatherEmbedWorkers, SetCounters, MarkCompleted
<1>3. ASSUME NEW w \in FileWorkers,
             FileGet(w) \/ ProcessRaises(w) \/ ProcessChunks(w) \/ FileDone(w)
      PROVE  OnePlace'
  BY <1>a, <1>3 DEF FileGet, ProcessRaises, ProcessChunks, FileDone
<1>4. ASSUME NEW w \in EmbedWorkers, FlushFails(w) \/ FlushSucceeds(w) PROVE OnePlace'
  <2>1. UNCHANGED <<embedQ, todo, unqueued>> /\ \E n \in Nat \cup {Len(buf[w])} : FlushReturns(w, n)
    BY <1>4 DEF FlushFails, FlushSucceeds, FailedCount
  <2> QED
    BY <2>1, OnePlaceSettled
<1>5. ASSUME NEW w \in EmbedWorkers, BatchTimeout(w) \/ EmbedBatch(w) \/ SendChunk(w)
      PROVE  OnePlace'
  BY <1>a, <1>5 DEF BatchTimeout, EmbedBatch, SendChunk
<1>6. CASE ShutDown
  BY <1>a, <1>6 DEF ShutDown, Signal, MarkFails, StopProducer, ClosePool, TearDown, CancelEmbedWorkers
<1>7. CASE UNCHANGED vars
  BY <1>a, <1>7
<1> QED
  BY <1>1, <1>2, <1>3, <1>4, <1>5, <1>6, <1>7, OnePlacePut, OnePlaceTaken,
     OnePlaceStored, OnePlaceLeft DEF Next, Work, Terminated, FileWorker, EmbedWorker

-----------------------------------------------------------------------------
(* What was published.                                                     *)

LEMMA PublishedInit == Init => PublishedFromBatch
<1> SUFFICES ASSUME Init PROVE PublishedFromBatch
  OBVIOUS
<1>1. /\ \A c \in Chunks : published[c] = 0
      /\ \A w \in EmbedWorkers : DOMAIN buf[w] = {}
  BY DEF Init
<1> QED
  BY <1>1 DEF PublishedFromBatch, SentInOrder

\* A step that leaves what was published, and moves no chunk out of a batch
\* but to settled.
LEMMA PublishedKept ==
  ASSUME PublishedFromBatch, published' = published,
         settled \cup AllItems(buf) \subseteq (settled \cup AllItems(buf))',
         \A w \in EmbedWorkers :
             \/ est'[w] = "done" \/ DOMAIN buf'[w] = {}
             \/ /\ est[w] # "done"
                /\ buf'[w] = buf[w] /\ sent'[w] = sent[w] /\ exit'[w] = exit[w]
             \/ SentInOrder(w)'
  PROVE  PublishedFromBatch'
<1>1. \A c \in Chunks \ (settled \cup AllItems(buf))' : published'[c] = 0
  BY DEF PublishedFromBatch
<1>2. ASSUME NEW w \in EmbedWorkers PROVE SentInOrder(w)'
  BY DEF PublishedFromBatch, SentInOrder
<1> QED
  BY <1>1, <1>2 DEF PublishedFromBatch

\* A chunk just taken was not published; only a worker that was not told to
\* stop takes one.
LEMMA PublishedTaken ==
  ASSUME TypeInv, WorkersHold, OnePlace, PublishedFromBatch, NEW w \in EmbedWorkers, EmbedGet(w)
  PROVE  PublishedFromBatch'
<1>t. /\ est \in [EmbedWorkers -> {"get", "collect", "embed", "publish", "done"}]
      /\ exit \in [EmbedWorkers -> {"loop", "return", "cancelled"}]
      /\ buf \in [EmbedWorkers -> Seq(Chunks)]
  BY DEF TypeInv, TypeOK
<1>1. /\ embedQ # << >> /\ embedQ' = Tail(embedQ) /\ UNCHANGED <<settled, sent, published>>
      /\ buf[w] \in Seq(Chunks) /\ est[w] \in {"get", "collect"} /\ exit[w] = "loop"
      /\ sent[w] = 0
  BY <1>t DEF EmbedGet, WorkersHold, WorkerHolds
<1>d. w \in DOMAIN buf
  BY <1>t
<1>2. PICK c : c = Head(embedQ)
  OBVIOUS
<1>3. c \in Items(embedQ) /\ c \in Chunks \cup {Sentinel}
  <2>1. embedQ \in Seq(Chunks \cup {Sentinel})
    BY DEF TypeInv, TypeOK
  <2> QED
    BY <1>1, <1>2, <2>1, ItemsTaken, Taken
<1>4. /\ Len(buf[w]) \in Nat /\ DOMAIN buf[w] = 1..Len(buf[w])
      /\ \A i \in DOMAIN buf[w] : published[buf[w][i]] = 0
  <2>1. \A i \in DOMAIN buf[w] : i > 0
    BY <1>1
  <2>2. est[w] # "done" /\ SentInOrder(w)
    BY <1>1 DEF PublishedFromBatch
  <2> QED
    BY <1>1, <2>1, <2>2 DEF SentInOrder
<1>5. CASE c = Sentinel
  <2>1. /\ buf' = buf /\ exit' = [exit EXCEPT ![w] = "return"]
        /\ \A v \in EmbedWorkers \ {w} : est'[v] = est[v]
    BY <1>2, <1>5, <1>t DEF EmbedGet, Stops, ReceivedSentinel, BeginFlush
  <2>2. SentInOrder(w)'
    <3>1. \A i \in DOMAIN buf'[w] : ~(i <= sent'[w]) /\ published'[buf'[w][i]] = 0
      <4>1. buf' = buf /\ sent' = sent /\ published' = published /\ sent[w] = 0
        BY <1>1, <2>1
      <4>2. \A i \in DOMAIN buf[w] : ~(i <= 0) /\ published[buf[w][i]] = 0
        BY <1>4
      <4> QED
        BY <4>1, <4>2
    <3>2. exit'[w] = "return"
      BY <1>t, <2>1
    <3> QED
      BY <3>1, <3>2 DEF SentInOrder
  <2>3. \A v \in EmbedWorkers \ {w} : exit'[v] = exit[v]
    BY <1>t, <2>1
  <2>4. settled' \cup AllItems(buf') = settled \cup AllItems(buf)
    BY <1>1, <2>1
  <2> QED
    BY <1>1, <2>1, <2>2, <2>3, <2>4, PublishedKept
<1>6. CASE c # Sentinel
  <2>1. /\ buf' = [buf EXCEPT ![w] = Append(buf[w], c)] /\ exit' = exit
        /\ \A v \in EmbedWorkers \ {w} : est'[v] = est[v]
    BY <1>2, <1>6, <1>t DEF EmbedGet, Stops, Received, BeginFlush
  <2>2. c \in Chunks /\ published[c] = 0
    BY <1>3, <1>6 DEF PublishedFromBatch, OnePlace, QueuedChunks
  <2>3. /\ DOMAIN Append(buf[w], c) = 1..Len(buf[w]) + 1
        /\ \A i \in 1..Len(buf[w]) : Append(buf[w], c)[i] = buf[w][i]
        /\ Append(buf[w], c)[Len(buf[w]) + 1] = c
    BY <1>1, <2>2, AppendProperties
  <2>4. \A i \in DOMAIN Append(buf[w], c) : published[Append(buf[w], c)[i]] = 0 /\ i > 0
    BY <1>4, <2>2, <2>3
  <2>5. SentInOrder(w)'
    <3>1. buf'[w] = Append(buf[w], c) /\ sent'[w] = 0 /\ exit'[w] = "loop"
      BY <1>1, <1>t, <2>1
    <3> QED
      BY <1>1, <2>4, <3>1 DEF SentInOrder
  <2>6. AllItems(buf) \subseteq AllItems(buf')
    <3>1. AllItems(buf) = ItemsBut(buf, w) \cup Items(buf[w])
      BY <1>d, OneChanged
    <3>2. \A q : AllItems([buf EXCEPT ![w] = q]) = ItemsBut(buf, w) \cup Items(q)
      BY <1>d, OneChanged
    <3>3. Items(Append(buf[w], c)) = Items(buf[w]) \cup {c}
      BY <1>1, <2>2, ItemsPut
    <3> QED
      BY <2>1, <3>1, <3>2, <3>3
  <2>7. \A v \in EmbedWorkers \ {w} :
            \/ est'[v] = "done"
            \/ /\ est[v] # "done"
               /\ buf'[v] = buf[v] /\ sent'[v] = sent[v] /\ exit'[v] = exit[v]
    BY <1>t, <1>1, <2>1
  <2>8. settled \cup AllItems(buf) \subseteq settled' \cup AllItems(buf')
    BY <1>1, <2>6
  <2> QED
    BY <1>1, <2>5, <2>7, <2>8, PublishedKept
<1> QED
  BY <1>5, <1>6

\* The next chunk of a batch is published: a worker sends in order.
LEMMA PublishedSent ==
  ASSUME TypeInv, OnePlace, PublishedFromBatch, NEW w \in EmbedWorkers, SendChunk(w)
  PROVE  PublishedFromBatch'
<1>t. /\ sent \in [EmbedWorkers -> Nat] /\ buf \in [EmbedWorkers -> Seq(Chunks)]
      /\ published \in [Chunks -> Nat] /\ DOMAIN buf = EmbedWorkers
  BY DEF TypeInv, TypeOK
<1>1. /\ est[w] = "publish" /\ sent[w] < Len(buf[w]) /\ sent' = [sent EXCEPT ![w] = sent[w] + 1]
      /\ published' = [published EXCEPT ![buf[w][sent[w] + 1]] = @ + 1]
      /\ UNCHANGED <<est, buf, exit, settled>>
  BY DEF SendChunk
<1>2. /\ sent[w] \in Nat /\ Len(buf[w]) \in Nat /\ DOMAIN buf[w] = 1..Len(buf[w])
      /\ sent[w] + 1 \in DOMAIN buf[w]
  BY <1>t, <1>1
<1>3. PICK c \in Chunks : c = buf[w][sent[w] + 1]
  BY <1>t, <1>2
<1>4. published'[c] = published[c] + 1 /\ \A b \in Chunks \ {c} : published'[b] = published[b]
  BY <1>t, <1>1, <1>3
<1>5. c \in Items(buf[w]) /\ c \in AllItems(buf)
  BY <1>t, <1>2, <1>3 DEF Items, AllItems
<1>6. \A b \in Chunks \ (settled \cup AllItems(buf)) : published'[b] = 0
  BY <1>4, <1>5 DEF PublishedFromBatch
<1>7. ASSUME NEW v \in EmbedWorkers, v # w PROVE SentInOrder(v)'
  <2>1. c \notin Items(buf[v])
    BY <1>t, <1>5, <1>7 DEF OnePlace, Apart
  <2>2. \A i \in DOMAIN buf[v] : buf[v][i] \in Chunks \ {c}
    BY <1>t, <2>1 DEF Items
  <2>3. sent'[v] = sent[v]
    BY <1>t, <1>1, <1>7
  <2> QED
    BY <1>1, <1>4, <2>2, <2>3 DEF PublishedFromBatch, SentInOrder
<1>8. SentInOrder(w)'
  <2> SUFFICES ASSUME NEW i \in DOMAIN buf[w]
               PROVE  IF exit[w] = "cancelled"
                        THEN IF i <= sent[w] + 1 THEN published'[buf[w][i]] >= 1
                                                 ELSE published'[buf[w][i]] <= 1
                        ELSE published'[buf[w][i]] = IF i <= sent[w] + 1 THEN 1 ELSE 0
    BY <1>t, <1>1 DEF SentInOrder
  <2>1. IF exit[w] = "cancelled"
          THEN IF i <= sent[w] THEN published[buf[w][i]] >= 1
                               ELSE published[buf[w][i]] <= 1
          ELSE published[buf[w][i]] = IF i <= sent[w] THEN 1 ELSE 0
    BY <1>1 DEF PublishedFromBatch, SentInOrder
  <2>2. CASE i = sent[w] + 1
    <3>1. published'[buf[w][i]] = published[buf[w][i]] + 1 /\ published[buf[w][i]] \in Nat
      BY <1>t, <1>3, <1>4, <2>2
    <3>2. ~(i <= sent[w]) /\ i <= sent[w] + 1
      BY <1>2, <2>2
    <3> QED
      BY <2>1, <3>1, <3>2
  <2>3. CASE i # sent[w] + 1
    <3>1. buf[w][i] \in Chunks \ {c}
      BY <1>t, <1>2, <1>3, <2>3 DEF OnePlace, Apart, Distinct
    <3>2. i <= sent[w] + 1 <=> i <= sent[w]
      BY <1>2, <2>3
    <3> QED
      BY <1>4, <2>1, <3>1, <3>2
  <2> QED
    BY <2>2, <2>3
<1> QED
  BY <1>1, <1>6, <1>7, <1>8 DEF PublishedFromBatch

\* A cancelled worker starts its batch again: what it had sent is sent twice.
LEMMA PublishedCancelled ==
  ASSUME TypeInv, PublishedFromBatch, CancelEmbedWorkers, UNCHANGED <<published, settled>>
  PROVE  PublishedFromBatch'
<1>t. /\ sent \in [EmbedWorkers -> Nat] /\ buf \in [EmbedWorkers -> Seq(Chunks)]
      /\ published \in [Chunks -> Nat]
  BY DEF TypeInv, TypeOK
<1>1. ASSUME NEW w \in EmbedWorkers, est'[w] # "done" PROVE SentInOrder(w)'
  <2>1. /\ est[w] \in {"collect", "embed", "publish"} /\ exit[w] # "cancelled"
        /\ exit'[w] = "cancelled" /\ sent'[w] = 0 /\ buf'[w] = buf[w]
    BY <1>1 DEF CancelEmbedWorkers
  <2>2. \A i \in DOMAIN buf[w] : published[buf[w][i]] = IF i <= sent[w] THEN 1 ELSE 0
    BY <2>1 DEF PublishedFromBatch, SentInOrder
  <2>3. \A i \in DOMAIN buf[w] : published[buf[w][i]] <= 1 /\ ~(i <= 0)
    BY <1>t, <2>2
  <2> QED
    BY <2>1, <2>3 DEF SentInOrder
<1>2. settled' \cup AllItems(buf') = settled \cup AllItems(buf)
  BY DEF CancelEmbedWorkers
<1>3. \A w \in EmbedWorkers : est'[w] = "done" \/ SentInOrder(w)'
  BY <1>1
<1> QED
  BY <1>2, <1>3, PublishedKept

LEMMA PublishedStep ==
  TypeInv /\ WorkersHold /\ OnePlace /\ PublishedFromBatch /\ [Next]_vars => PublishedFromBatch'
<1> SUFFICES ASSUME TypeInv, WorkersHold, OnePlace, PublishedFromBatch, [Next]_vars
             PROVE  PublishedFromBatch'
  OBVIOUS
<1>t. /\ est \in [EmbedWorkers -> {"get", "collect", "embed", "publish", "done"}]
      /\ buf \in [EmbedWorkers -> Seq(Chunks)] /\ sent \in [EmbedWorkers -> Nat]
  BY DEF TypeInv, TypeOK
<1>a. ASSUME UNCHANGED <<published, settled, buf, sent, exit>>,
             \A w \in EmbedWorkers : est[w] = "done" => est'[w] = "done"
      PROVE  PublishedFromBatch'
  BY <1>a DEF PublishedFromBatch, SentInOrder
<1>1. CASE Orchestrate
  BY <1>a, <1>1 DEF Orchestrate, FeedFile, StopFileWorkers, GatherFileWorkers,
                    StopEmbedWorkers, GatherEmbedWorkers, SetCounters, MarkCompleted
<1>2. ASSUME NEW w \in FileWorkers, FileWorker(w) PROVE PublishedFromBatch'
  BY <1>a, <1>2 DEF FileWorker, FileGet, ProcessRaises, StoreChunk, EnrichFails, ProcessChunks, PutChunk, FileDone
<1>3. ASSUME NEW w \in EmbedWorkers, BatchTimeout(w) \/ EmbedBatch(w) PROVE PublishedFromBatch'
  <2>1. /\ UNCHANGED <<published, settled, buf, sent, exit>> /\ est[w] # "done"
        /\ \A v \in EmbedWorkers \ {w} : est'[v] = est[v]
    BY <1>3, <1>t DEF BatchTimeout, BeginFlush, EmbedBatch
  <2> QED
    BY <1>a, <2>1
<1>4. ASSUME NEW w \in EmbedWorkers, FlushFails(w) \/ FlushSucceeds(w) PROVE PublishedFromBatch'
  <2>1. /\ UNCHANGED <<embedQ, todo, unqueued, published, exit>>
        /\ \E n \in Nat \cup {Len(buf[w])} : FlushReturns(w, n)
    BY <1>4 DEF FlushFails, FlushSucceeds, FailedCount, FlushReturns
  <2>2. settled' = settled \cup Items(buf[w]) /\ AllItems(buf) = AllItems(buf') \cup Items(buf[w])
    BY <2>1, OnePlaceSettled
  <2>3. /\ DOMAIN buf'[w] = {}
        /\ \A v \in EmbedWorkers \ {w} :
               est'[v] = est[v] /\ buf'[v] = buf[v] /\ sent'[v] = sent[v]
    BY <1>t, <2>1 DEF FlushReturns
  <2>4. settled \cup AllItems(buf) \subseteq settled' \cup AllItems(buf')
    BY <2>2
  <2>5. \A v \in EmbedWorkers :
            \/ est'[v] = "done" \/ DOMAIN buf'[v] = {}
            \/ /\ est[v] # "done"
               /\ buf'[v] = buf[v] /\ sent'[v] = sent[v] /\ exit'[v] = exit[v]
    BY <2>1, <2>3
  <2> QED
    BY <2>1, <2>4, <2>5, PublishedKept
<1>5. CASE Signal \/ TearDown
  <2>1. /\ UNCHANGED <<published, settled>>
        /\ CancelEmbedWorkers \/ UNCHANGED batchVars
    BY <1>5 DEF Signal, TearDown
  <2> QED
    BY <1>a, <2>1, PublishedCancelled
<1>6. CASE MarkFails \/ StopProducer \/ ClosePool \/ UNCHANGED vars
  BY <1>a, <1>6 DEF MarkFails, StopProducer, ClosePool
<1> QED
  BY <1>1, <1>2, <1>3, <1>4, <1>5, <1>6, PublishedTaken, PublishedSent
     DEF Next, Work, Terminated, EmbedWorker, ShutDown

-----------------------------------------------------------------------------
(* The count.                                                              *)

LEMMA ChunksFinite == \A S \in SUBSET Chunks : IsFiniteSet(S) /\ Cardinality(S) \in Nat
<1>1. IsFiniteSet(Files) /\ IsFiniteSet(1..MaxChunks)
  BY ConstantsAssumption, FS_Interval DEF Files
<1>2. IsFiniteSet(Chunks)
  BY <1>1, FS_Product DEF Chunks
<1> QED
  BY <1>2, FS_Subset, FS_CardinalityType

\* A batch without repetition has as many chunks as its length.
LEMMA BatchCounted ==
  ASSUME NEW q \in Seq(Chunks), Distinct(q)
  PROVE  Items(q) \subseteq Chunks /\ Cardinality(Items(q)) = Len(q)
<1>1. Len(q) \in Nat /\ DOMAIN q = 1..Len(q) /\ Items(q) \subseteq Chunks
  BY DEF Items
<1>2. IsFiniteSet(1..Len(q)) /\ Cardinality(1..Len(q)) = Len(q)
  <2>1. Cardinality(1..Len(q)) = IF 1 > Len(q) THEN 0 ELSE Len(q) - 1 + 1
    BY <1>1, FS_Interval
  <2> QED
    BY <1>1, <2>1, FS_Interval
<1>3. q \in Surjection(1..Len(q), Items(q)) /\ q \in Injection(1..Len(q), Items(q))
  BY <1>1 DEF Items, Distinct, Surjection, Injection, IsInjective
<1> QED
  BY <1>1, <1>2, <1>3, FS_Surjection

\* A flush that returns counts the published chunks of its batch, on top of what
\* the worker read.
LEMMA FlushCounted ==
  ASSUME TypeInv, WorkersHold, OnePlace, PublishedFromBatch, NEW w \in EmbedWorkers,
         FlushSucceeds(w)
  PROVE  /\ \A c \in Items(buf[w]) : published[c] > 0
         /\ embedded' = base[w] + Cardinality(Items(buf[w]))
<1>t. /\ buf \in [EmbedWorkers -> Seq(Chunks)] /\ published \in [Chunks -> Nat]
      /\ DOMAIN buf = EmbedWorkers
  BY DEF TypeInv, TypeOK
<1>1. est[w] = "publish" /\ sent[w] = Len(buf[w]) /\ embedded' = base[w] + Len(buf[w])
  BY DEF FlushSucceeds, FlushReturns
<1>2. Cardinality(Items(buf[w])) = Len(buf[w])
  BY <1>t, BatchCounted DEF OnePlace, Apart
<1>3. ASSUME NEW i \in DOMAIN buf[w] PROVE published[buf[w][i]] > 0
  <2>1. i <= sent[w] /\ published[buf[w][i]] \in Nat
    BY <1>t, <1>1
  <2> QED
    BY <1>1, <2>1 DEF PublishedFromBatch, SentInOrder
<1> QED
  BY <1>1, <1>2, <1>3 DEF Items

LEMMA CountedInit == Init => Counted
<1> SUFFICES ASSUME Init PROVE Counted
  OBVIOUS
<1>1. settled \cap PublishedChunks = {}
  BY DEF Init
<1> QED
  BY <1>1, FS_EmptySet DEF Init, Counted

\* The chunks counted stay settled and published, whichever count a worker read.
CountsRead == {0, embedded} \cup {base[v] : v \in EmbedWorkers}

LEMMA CountedGrows ==
  ASSUME TypeInv, TypeInv', Counted, settled \cap PublishedChunks \subseteq (settled \cap PublishedChunks)'
  PROVE  \A n \in CountsRead : n <= Cardinality(settled \cap PublishedChunks)'
<1>1. /\ (settled \cap PublishedChunks)' \in SUBSET Chunks
      /\ CountsRead \subseteq Nat
  BY DEF TypeInv, TypeOK, PublishedChunks, CountsRead
<1>2. /\ IsFiniteSet((settled \cap PublishedChunks)')
      /\ Cardinality((settled \cap PublishedChunks)') \in Nat
  BY <1>1, ChunksFinite
<1>3. Cardinality(settled \cap PublishedChunks) <= Cardinality((settled \cap PublishedChunks)')
  BY <1>2, FS_Subset
<1>4. Cardinality(settled \cap PublishedChunks) \in Nat
  BY ChunksFinite DEF TypeInv, TypeOK, PublishedChunks
<1> SUFFICES ASSUME NEW n \in CountsRead
             PROVE  n <= Cardinality(settled \cap PublishedChunks)'
  OBVIOUS
<1>5. n \in Nat /\ n <= Cardinality(settled \cap PublishedChunks)
  <2>1. n = 0 \/ n = embedded \/ \E v \in EmbedWorkers : n = base[v]
    BY DEF CountsRead
  <2>2. n <= Cardinality(settled \cap PublishedChunks)
    BY <1>4, <2>1 DEF Counted
  <2> QED
    BY <1>1, <2>2
<1> QED
  BY <1>2, <1>3, <1>4, <1>5

\* A step that changes no more than which of them the workers have.
LEMMA CountedKept ==
  ASSUME TypeInv, TypeInv', Counted, settled \cap PublishedChunks \subseteq (settled \cap PublishedChunks)',
         embedded' \in CountsRead, \A w \in EmbedWorkers : base'[w] \in CountsRead
  PROVE  /\ embedded' <= Cardinality(settled \cap PublishedChunks)'
         /\ \A w \in EmbedWorkers : base'[w] <= Cardinality(settled \cap PublishedChunks)'
  BY CountedGrows

LEMMA CountedFlush ==
  ASSUME TypeInv, TypeInv', WorkersHold, OnePlace, PublishedFromBatch, Counted,
         NEW w \in EmbedWorkers, FlushSucceeds(w)
  PROVE  /\ embedded' <= Cardinality(settled \cap PublishedChunks)'
         /\ \A v \in EmbedWorkers : base'[v] <= Cardinality(settled \cap PublishedChunks)'
<1>1. FlushReturns(w, Len(buf[w])) /\ UNCHANGED <<embedQ, todo, unqueued, published>>
  BY DEF FlushSucceeds
<1>2. settled' = settled \cup Items(buf[w]) /\ Items(buf[w]) \cap settled = {}
  BY <1>1, OnePlaceSettled
<1>3. Items(buf[w]) \subseteq Chunks /\ Items(buf[w]) \subseteq PublishedChunks
  <2>1. Items(buf[w]) \subseteq Chunks
    BY DEF TypeInv, TypeOK, Items
  <2> QED
    BY <2>1, FlushCounted DEF PublishedChunks
<1> DEFINE C == settled \cap PublishedChunks
           B == Items(buf[w])
<1>4. PublishedChunks' = PublishedChunks
  BY <1>1 DEF PublishedChunks
<1>5. C' = C \cup B /\ C \cap B = {}
  BY <1>2, <1>3, <1>4
<1>6. /\ IsFiniteSet(C) /\ IsFiniteSet(B) /\ Cardinality(C) \in Nat /\ Cardinality(B) \in Nat
  BY <1>3, ChunksFinite DEF TypeInv, TypeOK, PublishedChunks
<1>7. embedded' = base[w] + Cardinality(B) /\ base[w] <= Cardinality(C) /\ base[w] \in Nat
  BY FlushCounted DEF Counted, TypeInv, TypeOK
<1> HIDE DEF C, B
<1>8. Cardinality(C \cup B) = Cardinality(C) + Cardinality(B) - Cardinality(C \cap B)
  BY <1>6, FS_Union
<1>9. Cardinality(C') = Cardinality(C) + Cardinality(B)
  <2>1. Cardinality(C \cap B) = 0
    BY <1>5, FS_EmptySet
  <2>2. Cardinality(C \cup B) = Cardinality(C) + Cardinality(B)
    BY <1>6, <1>8, <2>1
  <2> QED
    BY <1>5, <2>2
<1>10. embedded' <= Cardinality(C')
  BY <1>6, <1>7, <1>9
<1>11. \A v \in EmbedWorkers : base'[v] <= Cardinality(C')
  <2>1. \A v \in EmbedWorkers : base'[v] \in CountsRead
    BY <1>1 DEF FlushReturns, CountsRead, TypeInv, TypeOK
  <2> QED
    BY <1>5, <2>1, CountedGrows DEF C
<1> QED
  BY <1>10, <1>11 DEF C

LEMMA CountedStep ==
  TypeInv /\ StagesDone /\ WorkersHold /\ OnePlace /\ PublishedFromBatch /\ Counted /\ [Next]_vars
    => Counted'
<1> SUFFICES ASSUME TypeInv, StagesDone, WorkersHold, OnePlace, PublishedFromBatch, Counted,
                    [Next]_vars
             PROVE  Counted'
  OBVIOUS
<1>t. TypeInv'
  BY TypeStep
<1>k. ASSUME UNCHANGED <<embedded, base, settled, published, produced, est, status, phase>>,
             pc' # "done" => pc # "done"
      PROVE  Counted'
  BY <1>k DEF Counted, PublishedChunks
<1>1. CASE SetCounters
  <2>1. /\ UNCHANGED <<embedded, base, settled, published, est, status, phase>> /\ pc # "done"
        /\ produced' = embedded \/ produced' = produced
        /\ \A w \in EmbedWorkers : est[w] = "done"
    BY <1>1 DEF SetCounters, StagesDone
  <2> QED
    BY <2>1 DEF Counted, PublishedChunks
<1>2. CASE MarkCompleted
  BY <1>2 DEF MarkCompleted, Counted, PublishedChunks
<1>3. CASE Orchestrate /\ ~SetCounters /\ ~MarkCompleted
  BY <1>k, <1>3 DEF Orchestrate, FeedFile, StopFileWorkers, GatherFileWorkers,
                    StopEmbedWorkers, GatherEmbedWorkers
<1>4. ASSUME NEW w \in FileWorkers, FileWorker(w) PROVE Counted'
  BY <1>k, <1>4 DEF FileWorker, FileGet, ProcessRaises, StoreChunk, EnrichFails, ProcessChunks, PutChunk, FileDone
<1>5. ASSUME NEW w \in EmbedWorkers, EmbedWorker(w) PROVE Counted'
  <2>1. est[w] # "done" /\ UNCHANGED <<produced, status, phase, pc>>
    BY <1>5 DEF EmbedWorker, EmbedGet, BatchTimeout, FlushFails, EmbedBatch, SendChunk,
                FlushSucceeds
  <2>2. produced = NotSet
    BY <2>1 DEF Counted
  <2>3. /\ embedded' <= Cardinality(settled \cap PublishedChunks)'
        /\ \A v \in EmbedWorkers : base'[v] <= Cardinality(settled \cap PublishedChunks)'
    <3>b. base \in [EmbedWorkers -> Nat]
      BY DEF TypeInv, TypeOK
    <3>1. CASE EmbedGet(w) \/ BatchTimeout(w) \/ EmbedBatch(w)
      <4>1. UNCHANGED <<embedded, settled, published>>
        BY <3>1 DEF EmbedGet, BatchTimeout, EmbedBatch
      <4>2. base' = base \/ base' = [base EXCEPT ![w] = embedded]
        BY <3>1 DEF EmbedGet, BatchTimeout, EmbedBatch, BeginFlush, Received, ReceivedSentinel
      <4>3. embedded' \in CountsRead /\ \A v \in EmbedWorkers : base'[v] \in CountsRead
        BY <3>b, <4>1, <4>2 DEF CountsRead
      <4> QED
        BY <1>t, <4>1, <4>3, CountedKept DEF PublishedChunks
    <3>2. CASE FlushFails(w)
      <4>1. /\ embedded' = base[w] + 0 /\ base' = [base EXCEPT ![w] = 0]
            /\ settled \subseteq settled' /\ published' = published
        BY <3>2 DEF FlushFails, FlushReturns, FailedCount
      <4>2. embedded' \in CountsRead /\ \A v \in EmbedWorkers : base'[v] \in CountsRead
        BY <3>b, <4>1 DEF CountsRead
      <4> QED
        BY <1>t, <4>1, <4>2, CountedKept DEF PublishedChunks
    <3>3. CASE SendChunk(w)
      <4>1. /\ UNCHANGED <<embedded, base, settled>>
            /\ published' = [published EXCEPT ![buf[w][sent[w] + 1]] = @ + 1]
        BY <3>3 DEF SendChunk
      <4>2. \A c \in Chunks : published[c] > 0 => published'[c] > 0
        BY <4>1 DEF TypeInv, TypeOK
      <4>3. embedded' \in CountsRead /\ \A v \in EmbedWorkers : base'[v] \in CountsRead
        BY <4>1 DEF CountsRead
      <4> QED
        BY <1>t, <4>1, <4>2, <4>3, CountedKept DEF PublishedChunks
    <3>4. CASE FlushSucceeds(w)
      BY <1>t, <3>4, CountedFlush
    <3> QED
      BY <1>5, <3>1, <3>2, <3>3, <3>4 DEF EmbedWorker
  <2> QED
    BY <2>1, <2>2, <2>3 DEF Counted
<1>6. CASE ShutDown
  <2>1. /\ UNCHANGED <<embedded, settled, published, produced>> /\ phase' # "up"
        /\ \A w \in EmbedWorkers : est[w] = "done" => est'[w] = "done"
    BY <1>6 DEF ShutDown, Signal, MarkFails, StopProducer, ClosePool, TearDown, CancelEmbedWorkers
  <2>2. \A w \in EmbedWorkers : base'[w] \in CountsRead
    BY <1>6 DEF ShutDown, Signal, MarkFails, StopProducer, ClosePool, TearDown, CancelEmbedWorkers,
                CountsRead, TypeInv, TypeOK
  <2>3. embedded' \in CountsRead
    BY <2>1 DEF CountsRead
  <2>4. /\ embedded' <= Cardinality(settled \cap PublishedChunks)'
        /\ \A v \in EmbedWorkers : base'[v] <= Cardinality(settled \cap PublishedChunks)'
    BY <1>t, <2>1, <2>2, <2>3, CountedKept DEF PublishedChunks
  <2> QED
    BY <2>1, <2>4 DEF Counted
<1>7. CASE UNCHANGED vars
  BY <1>k, <1>7
<1> QED
  BY <1>1, <1>2, <1>3, <1>4, <1>5, <1>6, <1>7 DEF Next, Work, Terminated

-----------------------------------------------------------------------------
(* The theorems.                                                           *)

Holds == TypeInv /\ Queues /\ NothingDropped /\ FilesApart /\ OnePlace /\ LeftApart
         /\ PublishedFromBatch /\ Counted

LEMMA HoldsInit == Init => Holds
  BY TypeInit, QueuesInit, HeldAtFirst, FilesApartInit, OnePlaceInit, PublishedInit, CountedInit
     DEF Holds, LeftApart, Init

LEMMA HoldsStep == Holds /\ [Next]_vars => Holds'
  BY TypeStep, QueuesStep, NothingDroppedStep, FilesApartStep, OnePlaceStep, LeftApartStep,
     PublishedStep, CountedStep DEF Holds, Queues

LEMMA CountedCovers == Holds => NeverOverstated
<1> SUFFICES ASSUME Holds PROVE NeverOverstated
  OBVIOUS
<1>1. settled \cap PublishedChunks \in SUBSET PublishedChunks /\ PublishedChunks \in SUBSET Chunks
  BY DEF PublishedChunks
<1>2. /\ IsFiniteSet(PublishedChunks) /\ Cardinality(PublishedChunks) \in Nat
      /\ Cardinality(settled \cap PublishedChunks) \in Nat
  BY <1>1, ChunksFinite
<1>3. Cardinality(settled \cap PublishedChunks) <= Cardinality(PublishedChunks)
  BY <1>1, <1>2, FS_Subset
<1>4. embedded \in Nat
  BY DEF Holds, TypeInv, TypeOK
<1> QED
  BY <1>2, <1>3, <1>4 DEF Holds, Counted, NeverOverstated

LEMMA NothingLeftBehind == Holds => NothingStranded
<1> SUFFICES ASSUME Holds, pc \in {"counters", "complete", "done"}
             PROVE  /\ ok + fail = NFiles /\ chunkRows = settled \cup unqueued
                    /\ \A c \in settled, d \in unqueued : c[1] # d[1]
                    /\ fileQ = << >> /\ embedQ = << >>
  BY DEF NothingStranded
<1>1. settled \subseteq chunkRows \ unqueued
  BY DEF Holds, NothingDropped, OnePlace, Held
<1> QED
  BY <1>1, NothingLeft DEF Holds, LeftApart

\* When a run that was not interrupted sets its counters, every file is counted
\* and every stored chunk has been through a flush, or is of a file whose
\* enrichment failed: no interleaving of the workers with the sentinels leaves
\* one in a queue, a batch or a half-processed file.
THEOREM NothingStrandedHolds == Spec => []NothingStranded
  BY HoldsInit, HoldsStep, NothingLeftBehind, PTL DEF Spec

\* chunks_produced, on which the completion of every later service rests, is
\* never above the chunks published to the topic, whatever fails, is cancelled or
\* is overwritten by another worker's count.
THEOREM NeverOverstatedHolds == Spec => []NeverOverstated
  BY HoldsInit, HoldsStep, CountedCovers, PTL DEF Spec

\* A chunk is sent twice only by a worker the signal cancelled, never thrice.
THEOREM ResentOnlyByCancellationHolds == Spec => ResentOnlyByCancellation
<1> DEFINE A == \A c \in Chunks : published'[c] # published[c] =>
                    /\ published[c] <= 1
                    /\ published[c] = 1 => \E w \in EmbedWorkers : exit[w] = "cancelled"
<1>1. Holds /\ [Next]_vars => [A]_vars
  <2> SUFFICES ASSUME Holds, Next, NEW c \in Chunks, published'[c] # published[c]
               PROVE  /\ published[c] <= 1
                      /\ published[c] = 1 => \E w \in EmbedWorkers : exit[w] = "cancelled"
    OBVIOUS
  <2>1. PICK w \in EmbedWorkers : SendChunk(w)
    BY DEF Next, Work, ShutDown, Terminated, Orchestrate, FileWorker, EmbedWorker,
           FeedFile, StopFileWorkers, GatherFileWorkers, StopEmbedWorkers, GatherEmbedWorkers,
           SetCounters, MarkCompleted, FileGet, ProcessRaises, StoreChunk, EnrichFails, ProcessChunks, PutChunk, FileDone,
           EmbedGet, BatchTimeout, FlushFails, EmbedBatch, FlushSucceeds,
           Signal, MarkFails, StopProducer, ClosePool, TearDown
  <2>2. /\ est[w] = "publish" /\ sent[w] < Len(buf[w])
        /\ published' = [published EXCEPT ![buf[w][sent[w] + 1]] = @ + 1]
        /\ published \in [Chunks -> Nat] /\ sent[w] \in Nat /\ buf[w] \in Seq(Chunks)
    BY <2>1 DEF SendChunk, Holds, TypeInv, TypeOK
  <2>3. sent[w] + 1 \in DOMAIN buf[w] /\ c = buf[w][sent[w] + 1] /\ ~(sent[w] + 1 <= sent[w])
    BY <2>2
  <2>4. SentInOrder(w)
    BY DEF Holds, PublishedFromBatch
  <2> QED
    BY <2>2, <2>3, <2>4 DEF SentInOrder
<1>2. Spec => [][A]_vars
  BY <1>1, HoldsInit, HoldsStep, PTL DEF Spec
<1> QED
  BY <1>2 DEF ResentOnlyByCancellation

-----------------------------------------------------------------------------
(* The refinement.                                                         *)

LEMMA PromiseChunks == Promise!Chunks = Chunks
  BY DEF Promise!Chunks, Chunks, Files

LEMMA PromiseCounts == \A S : Promise!Cardinality(S) = Cardinality(S)
  BY Zenon DEF Promise!Cardinality, Cardinality

LEMMA PromiseInit == Init => Promise!Init
  BY PromiseChunks DEF Init, Promise!Init

\* A busy worker's file is not among the handled ones.
LEMMA FilesToHandle ==
  ASSUME TypeInv, FilesQueued, NEW w \in Busy
  PROVE  ok + fail < NFiles /\ ok + fail \in Nat
<1>1. PICK h, k \in Nat : FileQueue(h, k)
  BY DEF FilesQueued
<1>2. Cardinality(Busy) \in Nat /\ Cardinality(Busy) # 0
  BY FileWorkersCounted, FS_EmptySet
<1>3. ok + fail + Cardinality(Busy) <= h /\ h + k <= NFiles
  BY <1>1 DEF FileQueue
<1>4. ok \in Nat /\ fail \in Nat /\ NFiles \in Nat
  BY FileNumbers
<1> QED
  BY <1>2, <1>3, <1>4

LEMMA PromiseHandle ==
  ASSUME Holds, NEW w \in FileWorkers, ProcessRaises(w) \/ FileDone(w)
  PROVE  Promise!Handle
<1>1. w \in Busy
  BY DEF ProcessRaises, FileDone, Busy
<1>2. ok + fail < NFiles
  BY <1>1, FilesToHandle DEF Holds, Queues
<1>3. ok' + fail' = ok + fail + 1
  BY FileNumbers DEF ProcessRaises, FileDone, Holds
<1>4. UNCHANGED <<chunkRows, published, settled, unqueued, embedded, status, phase>>
  BY DEF ProcessRaises, FileDone
<1> QED
  BY <1>2, <1>3, <1>4 DEF Promise!Handle

LEMMA PromiseSplit ==
  ASSUME Holds, NEW w \in FileWorkers, StoreChunk(w)
  PROVE  \E S \in SUBSET Promise!Chunks : Promise!Split(S)
<1> DEFINE c == <<cur[w], Len(todo[w]) + 1>>
<1>1. /\ fst[w] \in {"process", "store"} /\ chunkRows' = chunkRows \cup {c}
      /\ UNCHANGED <<ok, fail, published, settled, unqueued, embedded, status, phase>>
  BY DEF StoreChunk
<1>2. w \in Busy
  BY <1>1 DEF Busy
<1>3. ok + fail < NFiles
  BY <1>2, FilesToHandle DEF Holds, Queues
<1>4. c \in Chunks
  BY StoredChunk DEF Holds
<1>5. c \notin chunkRows
  BY FreshChunk DEF Holds
<1> HIDE DEF c
<1>6. Promise!Split({c})
  BY <1>1, <1>3, <1>5 DEF Promise!Split
<1> QED
  BY <1>4, <1>6, PromiseChunks

\* What a count may be when more chunks are settled.
LEMMA PromiseCounted ==
  ASSUME Holds, Holds', NEW S \in SUBSET Chunks, settled' \cup unqueued' = settled \cup unqueued \cup S,
         published' = published
  PROVE  embedded' \in 0..Promise!Cardinality({c \in settled \cup unqueued \cup S : published[c] > 0})
<1> DEFINE C == settled' \cap PublishedChunks'
           D == {c \in settled \cup unqueued \cup S : published[c] > 0}
<1>1. C \subseteq D /\ D \in SUBSET Chunks
  BY DEF PublishedChunks, Holds, TypeInv, TypeOK
<1>2. embedded' \in Nat /\ embedded' <= Cardinality(C)
  BY DEF Holds, TypeInv, TypeOK, Counted
<1> HIDE DEF C, D
<1>3. IsFiniteSet(D) /\ Cardinality(D) \in Nat /\ Cardinality(C) \in Nat
  BY <1>1, ChunksFinite
<1>4. Cardinality(C) <= Cardinality(D)
  BY <1>1, <1>3, FS_Subset
<1>5. embedded' \in 0..Cardinality(D)
  BY <1>2, <1>3, <1>4
<1> QED
  BY <1>5, PromiseCounts DEF D

LEMMA PromisePublish ==
  ASSUME Holds, NEW w \in EmbedWorkers, SendChunk(w)
  PROVE  \E c \in Promise!Chunks : Promise!Publish(c)
<1>t. /\ buf[w] \in Seq(Chunks) /\ sent[w] \in Nat /\ published \in [Chunks -> Nat]
      /\ w \in DOMAIN buf
  BY DEF Holds, TypeInv, TypeOK
<1>1. /\ est[w] = "publish" /\ sent[w] < Len(buf[w])
      /\ published' = [published EXCEPT ![buf[w][sent[w] + 1]] = @ + 1]
      /\ UNCHANGED <<ok, fail, chunkRows, settled, unqueued, embedded, status, phase>>
  BY DEF SendChunk
<1>2. sent[w] + 1 \in DOMAIN buf[w] /\ ~(sent[w] + 1 <= sent[w])
  BY <1>t, <1>1
<1>3. PICK c \in Chunks : c = buf[w][sent[w] + 1]
  BY <1>t, <1>2
<1>4. c \in Items(buf[w]) /\ c \in AllItems(buf)
  BY <1>t, <1>2, <1>3 DEF Items, AllItems
<1>5. c \in chunkRows \ (settled \cup unqueued)
  BY <1>4 DEF Holds, NothingDropped, Held, OnePlace
<1>6. published[c] = 0 \/ (exit[w] = "cancelled" /\ published[c] = 1)
  <2>1. IF exit[w] = "cancelled" THEN published[c] <= 1 ELSE published[c] = 0
    BY <1>1, <1>2, <1>3 DEF Holds, PublishedFromBatch, SentInOrder
  <2>2. published[c] \in Nat
    BY <1>t
  <2> QED
    BY <2>1, <2>2
<1>7. exit[w] = "cancelled" => phase # "up"
  BY DEF Holds, Queues, WorkersHold, WorkerHolds
<1>8. Promise!Publish(c)
  BY <1>1, <1>3, <1>5, <1>6, <1>7 DEF Promise!Publish
<1> QED
  BY <1>8, PromiseChunks

LEMMA PromiseSettle ==
  ASSUME Holds, Holds', NEW w \in EmbedWorkers, FlushFails(w) \/ FlushSucceeds(w)
  PROVE  \E B \in SUBSET Promise!Chunks : Promise!Settle(B)
<1>t. /\ buf[w] \in Seq(Chunks) /\ w \in DOMAIN buf
  BY DEF Holds, TypeInv, TypeOK
<1>1. /\ est[w] \in {"embed", "publish"}
      /\ UNCHANGED <<ok, fail, embedQ, todo, chunkRows, unqueued, published, status, phase>>
      /\ \E n \in Nat \cup {Len(buf[w])} : FlushReturns(w, n)
  BY DEF FlushFails, FlushSucceeds, FailedCount
<1> DEFINE B == Items(buf[w])
<1>2. settled' = settled \cup B /\ B \cap settled = {}
  BY <1>1, OnePlaceSettled DEF Holds
<1>3. B # {} /\ B \subseteq chunkRows /\ B \in SUBSET Chunks /\ B \cap unqueued = {}
  <2>1. buf[w] # << >>
    BY <1>1 DEF Holds, Queues, WorkersHold, WorkerHolds
  <2>2. Head(buf[w]) \in B
    BY <1>t, <2>1, ItemsTaken
  <2>3. B \subseteq AllItems(buf)
    BY <1>t DEF AllItems
  <2>4. B \subseteq chunkRows /\ B \cap unqueued = {}
    BY <2>3 DEF Holds, NothingDropped, Held, OnePlace
  <2> QED
    BY <2>2, <2>4 DEF Holds, TypeInv, TypeOK
<1> HIDE DEF B
<1>5. settled' \cup unqueued' = settled \cup unqueued \cup B
  BY <1>1, <1>2
<1>6. embedded' \in 0..Promise!Cardinality({c \in settled \cup unqueued \cup B : published[c] > 0})
  BY <1>1, <1>3, <1>5, PromiseCounted
<1>7. /\ UNCHANGED <<chunkRows, published>> /\ ok' + fail' = ok + fail
      /\ (IF phase' = "up" THEN status' ELSE "interrupted")
            = (IF phase = "up" THEN status ELSE "interrupted")
  BY <1>1
<1>8. Promise!Settle(B)
  BY <1>2, <1>3, <1>5, <1>6, <1>7 DEF Promise!Settle
<1> QED
  BY <1>3, <1>8, PromiseChunks

\* A file that is given up settles its rows, if it has some.
LEMMA PromiseLeft ==
  ASSUME Holds, Holds', NEW w \in FileWorkers, EnrichFails(w)
  PROVE  \/ \E B \in SUBSET Promise!Chunks : Promise!Settle(B)
         \/ Promise!vars' = Promise!vars
<1> DEFINE B == Items(todo[w])
<1>1. /\ unqueued' = unqueued \cup B
      /\ UNCHANGED <<ok, fail, chunkRows, settled, embedded, published, status, phase>>
  BY DEF EnrichFails, Items
<1>2. B \subseteq AllItems(todo)
  BY DEF AllItems, Holds, TypeInv, TypeOK
<1>3. /\ B \subseteq chunkRows /\ B \cap (settled \cup unqueued) = {} /\ B \in SUBSET Chunks
  BY <1>2 DEF Holds, NothingDropped, Held, OnePlace, TypeInv, TypeOK
<1> HIDE DEF B
<1>4. settled' \cup unqueued' = settled \cup unqueued \cup B
  BY <1>1
<1>5. embedded' \in 0..Promise!Cardinality({c \in settled \cup unqueued \cup B : published[c] > 0})
  BY <1>1, <1>3, <1>4, PromiseCounted
<1>6. /\ UNCHANGED <<chunkRows, published>> /\ ok' + fail' = ok + fail
      /\ (IF phase' = "up" THEN status' ELSE "interrupted")
            = (IF phase = "up" THEN status ELSE "interrupted")
  BY <1>1
<1>7. CASE B = {}
  BY <1>1, <1>6, <1>7 DEF Promise!vars
<1>8. CASE B # {}
  <2>1. Promise!Settle(B)
    BY <1>3, <1>4, <1>5, <1>6, <1>8 DEF Promise!Settle
  <2> QED
    BY <1>3, <2>1, PromiseChunks
<1> QED
  BY <1>7, <1>8

LEMMA PromiseComplete ==
  ASSUME Holds, MarkCompleted
  PROVE  Promise!Complete
<1>1. /\ pc = "complete" /\ status' = "completed"
      /\ UNCHANGED <<ok, fail, chunkRows, published, settled, unqueued, embedded, phase>>
  BY DEF MarkCompleted
<1>2. phase = "up" /\ status = "running"
  BY <1>1 DEF Holds, TypeInv, TypeOK, InBounds, Counted
<1>3. ok + fail = NFiles /\ settled \cup unqueued = chunkRows
  BY <1>1, NothingLeft DEF Holds
<1> QED
  BY <1>1, <1>2, <1>3 DEF Promise!Complete

LEMMA PromiseInterrupt ==
  ASSUME Holds, Signal \/ MarkFails
  PROVE  Promise!Interrupt
<1>1. /\ phase = "up" /\ pc # "done" /\ phase' = "signalled"
      /\ UNCHANGED <<ok, fail, chunkRows, published, settled, unqueued, embedded, status>>
  BY DEF Signal, MarkFails, Holds, TypeInv, TypeOK, InBounds
<1>2. status = "running"
  BY <1>1 DEF Holds, Counted
<1> QED
  BY <1>1, <1>2 DEF Promise!Interrupt

LEMMA PromiseStep == Holds /\ [Next]_vars => [Promise!Next]_(Promise!vars)
<1> SUFFICES ASSUME Holds, [Next]_vars PROVE Promise!Next \/ Promise!vars' = Promise!vars
  OBVIOUS
<1>h. Holds'
  BY HoldsStep
<1>a. UNCHANGED <<ok, fail, chunkRows, published, settled, unqueued, embedded, status, phase>>
        => Promise!vars' = Promise!vars
  BY DEF Promise!vars
<1>1. CASE Orchestrate /\ ~MarkCompleted
  BY <1>a, <1>1 DEF Orchestrate, FeedFile, StopFileWorkers, GatherFileWorkers,
                    StopEmbedWorkers, GatherEmbedWorkers, SetCounters
<1>2. CASE MarkCompleted
  BY <1>2, PromiseComplete DEF Promise!Next
<1>3. ASSUME NEW w \in FileWorkers, FileWorker(w)
      PROVE  Promise!Next \/ Promise!vars' = Promise!vars
  <2>1. CASE FileGet(w) \/ ProcessChunks(w) \/ PutChunk(w)
    BY <1>a, <2>1 DEF FileGet, ProcessChunks, PutChunk
  <2>2. CASE ProcessRaises(w) \/ FileDone(w)
    BY <2>2, PromiseHandle DEF Promise!Next
  <2>3. CASE StoreChunk(w)
    BY <2>3, PromiseSplit DEF Promise!Next
  <2>4. CASE EnrichFails(w)
    BY <1>h, <2>4, PromiseLeft DEF Promise!Next
  <2> QED
    BY <1>3, <2>1, <2>2, <2>3, <2>4 DEF FileWorker
<1>4. ASSUME NEW w \in EmbedWorkers, EmbedWorker(w)
      PROVE  Promise!Next \/ Promise!vars' = Promise!vars
  <2>1. CASE EmbedGet(w) \/ BatchTimeout(w) \/ EmbedBatch(w)
    BY <1>a, <2>1 DEF EmbedGet, BatchTimeout, EmbedBatch
  <2>2. CASE FlushFails(w) \/ FlushSucceeds(w)
    BY <1>h, <2>2, PromiseSettle DEF Promise!Next
  <2>3. CASE SendChunk(w)
    BY <2>3, PromisePublish DEF Promise!Next
  <2> QED
    BY <1>4, <2>1, <2>2, <2>3 DEF EmbedWorker
<1>5. CASE Signal \/ MarkFails
  BY <1>5, PromiseInterrupt DEF Promise!Next
<1>6. CASE StopProducer \/ ClosePool \/ TearDown
  BY <1>6 DEF StopProducer, ClosePool, TearDown, CancelEmbedWorkers, Promise!vars
<1>7. CASE UNCHANGED vars
  BY <1>a, <1>7
<1> QED
  BY <1>1, <1>2, <1>3, <1>4, <1>5, <1>6, <1>7 DEF Next, Work, ShutDown, Terminated

\* The pipeline keeps the promise of an ingestion: every file handled once,
\* no more chunks reported than were published, complete only with nothing left.
THEOREM PipelineKeepsPromise == Spec => PromiseSpec
<1>1. Spec => []Holds
  BY HoldsInit, HoldsStep, PTL DEF Spec
<1>2. Init => Promise!Init
  BY PromiseInit
<1>3. Holds /\ [Next]_vars => [Promise!Next]_(Promise!vars)
  BY PromiseStep
<1>4. Spec => Promise!Spec
  BY <1>1, <1>2, <1>3, PTL DEF Spec, Promise!Spec
<1> QED
  BY <1>4 DEF PromiseSpec
==============================================================================
