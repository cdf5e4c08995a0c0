------------------------- MODULE GraphStorage_proofs -------------------------
(***************************************************************************)
(* Proofs about GraphStorage, for any log, any files, chunks and entities, *)
(* any number of workers, any batch size and any number of failures.       *)
(***************************************************************************)
EXTENDS GraphStorage, SequenceTheorems, WellFoundedInduction, TLAPS

-----------------------------------------------------------------------------
(* Batches.                                                                *)

\* How many statements a batch has for its entities, and for its summaries.
EntityWidth(B) == IF ChunksIn(B, "entities") = {} THEN 0 ELSE 15
SummaryWidth(B) == IF ChunksIn(B, "summary") = {} THEN 0 ELSE 4

Statement ==
    {"TextSummary", "summarizes", "summary_made_from", "summary_document", "EntityType", "Entity",
     "DocumentChunk", "backfill_summarizes", "backfill_made_from", "Repository", "Document",
     "chunk_document", "document_repository", "relationship", "contains", "made_from", "is_a",
     "entity_document", "count"}

\* The sequence t is the end of the statements of batch B.
EndOf(t, B) ==
    LET width == EntityWidth(B) IN
    /\ t \in Seq(Statement) /\ Len(t) <= width + SummaryWidth(B)
    /\ \A n \in 1..Len(t) :
           t[n] = IF Len(t) - n < width THEN EntitySteps[15 - (Len(t) - n)]
                  ELSE SummarySteps[4 - (Len(t) - n - width)]

\* A worker's statements are the end of those of its batch; Left(w) of them
\* are still to be run.
Left(w) == Len(todo[w])
TodoFits == \A w \in Workers : EndOf(todo[w], batch[w])

\* A message is in one batch; it is done or failed only after its part.
InBatch ==
    /\ batch \in [Workers -> SUBSET DOMAIN Log] /\ todo \in [Workers -> Seq(Statement)]
    /\ \A w \in Workers : \A i \in batch[w] :
           /\ i \in DOMAIN Log /\ Log[i].kind \in {"entities", "summary"}
           /\ outcome[i] \in {"running", "failed"}
           /\ Log[i].kind = "entities" \/ Left(w) > EntityWidth(batch[w]) => outcome[i] = "running"
    /\ \A w, x \in Workers : w # x => batch[w] \cap batch[x] = {}

-----------------------------------------------------------------------------
(* Deletes.                                                                *)

\* The delete in hand is that of a message, and its statements are the last of
\* DeleteSteps.
Named(i, v) ==
    /\ Log[i].kind = "delete"
    /\ \/ Log[i].version = v
       \/ /\ Log[i].version = NoVersion
          /\ PathOf[v] = Log[i].path \/ Shares(v, Log[i].path)
Asked ==
    /\ \A i \in DOMAIN Log : Log[i].kind = "delete" => outcome[i] # "queued"
    /\ Len(cleanup) <= 4
    /\ \A n \in 1..Len(cleanup) : cleanup[n] = DeleteSteps[4 - Len(cleanup) + n]
    /\ cleanup # <<>> => target \in Version /\ \E i \in With("running") : Named(i, target)
    /\ target \in Version =>
           \E i \in DOMAIN Log : /\ Log[i].kind = "delete" /\ outcome[i] # "unread"
                                 /\ Log[i].version \in {target, NoVersion}

\* A delete that began in quiet has no message of its version in flight, and
\* finds nothing of what it has deleted.
Swept ==
    settled /\ cleanup # <<>> =>
        /\ \A i \in With("queued") \cup With("running") :
               Log[i].kind # "delete" => VersionOf[Log[i].chunk] # target
        /\ Len(cleanup) <= 3 => <<"Document", target>> \notin nodes
        /\ \A c \in Chunk : VersionOf[c] = target =>
               /\ Len(cleanup) <= 2 => <<"DocumentChunk", c>> \notin nodes
               /\ Len(cleanup) <= 1 => <<"TextSummary", c>> \notin nodes

\* An entity node has the version of a chunk with the entity, and a path of one.
OwnersFit ==
    \A e \in Entity : <<"Entity", e>> \in nodes =>
        /\ \E c \in Chunk : e \in Extracted[c] /\ owner[e] = VersionOf[c]
        /\ \E d \in Chunk : e \in Extracted[d] /\ origin[e] = PathOf[VersionOf[d]]

-----------------------------------------------------------------------------
(* What the statements have left in the graph.                             *)

\* Summary and chunk are linked, or a worker is still to link them, or failed to.
Linked(r, c) == <<r, <<"TextSummary", c>>, <<"DocumentChunk", c>>>> \in edges
Spoilt(c) ==
    \E i \in DOMAIN Log :
        Log[i].kind \in {"entities", "summary"} /\ Log[i].chunk = c /\ outcome[i] = "failed"
\* the edge is written by the statement with s others behind it in the summary
\* part, e in the entity part
ToLink(c, s, e) ==
    \E w \in Workers :
        \/ c \in ChunksIn(batch[w], "summary") /\ Left(w) > EntityWidth(batch[w]) + s
        \/ c \in ChunksIn(batch[w], "entities") /\ Left(w) > e
Links ==
    \A c \in Chunk :
        <<"TextSummary", c>> \in nodes /\ <<"DocumentChunk", c>> \in nodes =>
            /\ Linked("summarizes", c) \/ Spoilt(c) \/ ToLink(c, 2, 11)
            /\ Linked("made_from", c) \/ Spoilt(c) \/ ToLink(c, 1, 10)

\* What a worker with n statements left has written of a chunk is there, or
\* was deleted.
Gone(c) == DeleteBegun(VersionOf[c])
Lost(e) == \E d \in Chunk : e \in Extracted[d] /\ Gone(d)
Written(c, n) ==
    LET chunk == <<"DocumentChunk", c>>
        doc == <<"Document", VersionOf[c]>>
    IN /\ n <= 12 => chunk \in nodes \/ Gone(c)
       /\ n <= 8 => doc \in nodes \/ Gone(c)
       /\ n <= 7 => <<"is_part_of", chunk, doc>> \in edges \/ Gone(c)
       /\ \A e \in Lasting(c) :
              LET entity == <<"Entity", e>> IN
              /\ n <= 13 => entity \in nodes \/ Lost(e)
              /\ n <= 4 => <<"contains", chunk, entity>> \in edges \/ Lost(e)
              /\ n <= 3 => <<"made_from", entity, chunk>> \in edges \/ Lost(e)
              /\ n <= 1 => <<"is_part_of", entity, doc>> \in edges \/ Lost(e)
Progress ==
    \A w \in Workers : \A n \in Nat :
        Left(w) = n => \A c \in ChunksIn(batch[w], "entities") : Written(c, n)

\* Where everything is: the parts of the invariant that speak of control.
Control == TypeOK /\ TodoFits /\ InBatch /\ Asked /\ OwnersFit

\* A set of places in a sequence has a last one.
LEMMA Greatest ==
  ASSUME NEW n \in Nat, NEW T \in SUBSET (1..n), T # {}
  PROVE  \E i \in T : \A j \in T : j <= i
<1> DEFINE R == {ss \in Nat \X Nat : ss[1] < ss[2]}
           U == {n - i : i \in T}
<1>1. IsWellFoundedOn(R, Nat)
  BY NatLessThanWellFounded DEF OpToRel
<1>2. U \subseteq Nat /\ U # {}
  <2>1. \A i \in T : n - i \in Nat
    OBVIOUS
  <2> QED
    BY <2>1
<1>3. PICK x \in U : \A y \in U : ~ (<<y, x>> \in R)
  <2> HIDE DEF R, U
  <2> QED
    BY <1>1, <1>2, WFMin
<1>4. \A y \in U : ~ (y < x)
  <2> SUFFICES ASSUME NEW y \in U, y < x PROVE FALSE
    OBVIOUS
  <2>1. <<y, x>> \in R
    BY <1>2
  <2> QED
    BY <1>3, <2>1
<1>5. PICK i \in T : x = n - i
  OBVIOUS
<1>6. ASSUME NEW j \in T PROVE j <= i
  <2>1. ~ (n - j < x)
    BY <1>4
  <2> QED
    BY <1>5, <2>1
<1> QED
  BY <1>6

-----------------------------------------------------------------------------
(* The log, and the statements of a batch.                                 *)

\* A set of places in a sequence has a first one.
LEMMA Least ==
  ASSUME NEW n \in Nat, NEW T \in SUBSET (1..n), T # {}
  PROVE  \E i \in T : \A j \in T : i <= j
<1> DEFINE U == {n + 1 - i : i \in T}
<1>1. U \in SUBSET (1..n) /\ U # {}
  <2>1. \A i \in T : n + 1 - i \in 1..n
    OBVIOUS
  <2> QED
    BY <2>1
<1>2. PICK m \in U : \A j \in U : j <= m
  <2> HIDE DEF U
  <2> QED
    BY <1>1, Greatest
<1>3. PICK i \in T : m = n + 1 - i
  BY <1>2
<1>4. ASSUME NEW j \in T PROVE i <= j
  <2>1. n + 1 - j <= m
    BY <1>2
  <2> QED
    BY <1>3, <2>1
<1> QED
  BY <1>4

\* What a message says.
LEMMA MessageType ==
  ASSUME NEW i \in DOMAIN Log
  PROVE  /\ Log[i].kind \in {"entities", "summary", "delete"}
         /\ Log[i].kind # "delete" => Log[i].chunk \in Chunk /\ VersionOf[Log[i].chunk] \in Version
         /\ Log[i].kind = "delete" => Log[i].version \in Version \cup {NoVersion}
<1>1. Log[i] \in Message
  BY ConstantsAssumption
<1> QED
  BY <1>1, ConstantsAssumption DEF Message

\* The chunks of a batch are chunks.
LEMMA ChunksType ==
  ASSUME NEW B, B \subseteq DOMAIN Log, NEW k \in {"entities", "summary"}
  PROVE  ChunksIn(B, k) \subseteq Chunk
  BY MessageType DEF ChunksIn

\* A batch's chunks are those of its messages.
LEMMA ChunkMessage ==
  ASSUME NEW B, NEW k, NEW c \in ChunksIn(B, k)
  PROVE  \E i \in B : Log[i].kind = k /\ Log[i].chunk = c
  BY DEF ChunksIn

\* The statements of the entity part, by place.
LEMMA EntityStepsAre ==
  /\ EntitySteps \in Seq(Statement) /\ Len(EntitySteps) = 15
  /\ EntitySteps[1] = "EntityType" /\ EntitySteps[2] = "Entity"
  /\ EntitySteps[3] = "DocumentChunk" /\ EntitySteps[4] = "backfill_summarizes"
  /\ EntitySteps[5] = "backfill_made_from" /\ EntitySteps[6] = "Repository"
  /\ EntitySteps[7] = "Document" /\ EntitySteps[8] = "chunk_document"
  /\ EntitySteps[9] = "document_repository" /\ EntitySteps[10] = "relationship"
  /\ EntitySteps[11] = "contains" /\ EntitySteps[12] = "made_from"
  /\ EntitySteps[13] = "is_a" /\ EntitySteps[14] = "entity_document"
  /\ EntitySteps[15] = "count"
<1>1. EntitySteps \in Seq(Statement)
  BY DEF EntitySteps, Statement
<1>2. Len(EntitySteps) = 15
  BY DEF EntitySteps
<1> QED
  BY <1>1, <1>2 DEF EntitySteps

\* The statements of the summary part, by place.
LEMMA SummaryStepsAre ==
  /\ SummarySteps \in Seq(Statement) /\ Len(SummarySteps) = 4
  /\ SummarySteps[1] = "TextSummary" /\ SummarySteps[2] = "summarizes"
  /\ SummarySteps[3] = "summary_made_from" /\ SummarySteps[4] = "summary_document"
<1>1. SummarySteps \in Seq(Statement)
  BY DEF SummarySteps, Statement
<1>2. Len(SummarySteps) = 4
  BY DEF SummarySteps
<1> QED
  BY <1>1, <1>2 DEF SummarySteps

\* A part is whole or missing.
LEMMA Widths ==
  ASSUME NEW B
  PROVE  /\ EntityWidth(B) \in {0, 15} /\ SummaryWidth(B) \in {0, 4}
         /\ EntityWidth(B) = 0 <=> ChunksIn(B, "entities") = {}
         /\ SummaryWidth(B) = 0 <=> ChunksIn(B, "summary") = {}
  BY DEF EntityWidth, SummaryWidth

\* What a worker has to do, at first and after a failing summary, ends the batch's
\* statements.
LEMMA WholeEnd ==
  ASSUME NEW B
  PROVE  /\ EndOf(StepsFor(B), B) /\ Len(StepsFor(B)) = EntityWidth(B) + SummaryWidth(B)
         /\ EndOf(EntityPart(B), B) /\ Len(EntityPart(B)) = EntityWidth(B)
<1> DEFINE sum == IF ChunksIn(B, "summary") = {} THEN <<>> ELSE SummarySteps
<1>1. StepsFor(B) = sum \o EntityPart(B)
  BY DEF StepsFor
<1>2. /\ EntityPart(B) \in Seq(Statement) /\ Len(EntityPart(B)) = EntityWidth(B)
      /\ \A n \in 1..EntityWidth(B) : EntityPart(B)[n] = EntitySteps[n]
  <2>1. CASE ChunksIn(B, "entities") = {}
    BY <2>1 DEF EntityPart, EntityWidth
  <2>2. CASE ChunksIn(B, "entities") # {}
    BY <2>2, EntityStepsAre DEF EntityPart, EntityWidth
  <2> QED
    BY <2>1, <2>2
<1>3. /\ sum \in Seq(Statement) /\ Len(sum) = SummaryWidth(B)
      /\ \A n \in 1..SummaryWidth(B) : sum[n] = SummarySteps[n]
  <2>1. CASE ChunksIn(B, "summary") = {}
    BY <2>1 DEF SummaryWidth
  <2>2. CASE ChunksIn(B, "summary") # {}
    BY <2>2, SummaryStepsAre DEF SummaryWidth
  <2> QED
    BY <2>1, <2>2
<1> HIDE DEF sum
<1>4. /\ sum \o EntityPart(B) \in Seq(Statement)
      /\ Len(sum \o EntityPart(B)) = EntityWidth(B) + SummaryWidth(B)
      /\ \A n \in 1..(EntityWidth(B) + SummaryWidth(B)) :
             (sum \o EntityPart(B))[n] = IF n <= SummaryWidth(B) THEN SummarySteps[n]
                                         ELSE EntitySteps[n - SummaryWidth(B)]
  <2>1. \A n \in 1..(Len(sum) + Len(EntityPart(B))) :
            (sum \o EntityPart(B))[n] = IF n <= Len(sum) THEN sum[n]
                                        ELSE EntityPart(B)[n - Len(sum)]
    BY <1>2, <1>3
  <2>2. Len(sum \o EntityPart(B)) = Len(sum) + Len(EntityPart(B))
    BY <1>2, <1>3
  <2>3. sum \o EntityPart(B) \in Seq(Statement)
    BY <1>2, <1>3
  <2> QED
    BY <1>2, <1>3, <2>1, <2>2, <2>3, Widths
<1>5. EndOf(StepsFor(B), B)
  <2> DEFINE all == sum \o EntityPart(B)
             width == EntityWidth(B)
             more == SummaryWidth(B)
  <2>1. /\ all \in Seq(Statement) /\ Len(all) = width + more
        /\ \A n \in 1..(width + more) :
               all[n] = IF n <= more THEN SummarySteps[n] ELSE EntitySteps[n - more]
    BY <1>4
  <2>2. width \in {0, 15} /\ more \in {0, 4}
    BY Widths
  <2> HIDE DEF all, width, more
  <2>3. ASSUME NEW n \in 1..Len(all)
        PROVE  all[n] = IF Len(all) - n < width THEN EntitySteps[15 - (Len(all) - n)]
                        ELSE SummarySteps[4 - (Len(all) - n - width)]
    <3>1. n \in Int /\ n >= 1 /\ n <= width + more /\ Len(all) = width + more
      BY <2>1, <2>2
    <3>2. CASE n <= more
      <4>1. ~ (Len(all) - n < width) /\ 4 - (Len(all) - n - width) = n
        BY <2>2, <3>1, <3>2
      <4>2. all[n] = SummarySteps[n]
        BY <2>1, <3>2
      <4> QED
        BY <4>1, <4>2
    <3>3. CASE ~ (n <= more)
      <4>1. Len(all) - n < width /\ 15 - (Len(all) - n) = n - more
        BY <2>2, <3>1, <3>3
      <4>2. all[n] = EntitySteps[n - more]
        BY <2>1, <3>3
      <4> QED
        BY <4>1, <4>2
    <3> QED
      BY <3>2, <3>3
  <2>4. StepsFor(B) = all /\ width = EntityWidth(B) /\ more = SummaryWidth(B)
    BY <1>1 DEF all, width, more
  <2>5. Len(all) <= width + more
    BY <2>1, <2>2
  <2>6. EndOf(all, B)
    BY <2>1, <2>3, <2>4, <2>5 DEF EndOf
  <2> QED
    BY <2>4, <2>6
<1>6. EndOf(EntityPart(B), B)
  BY <1>2, Widths DEF EndOf
<1> QED
  BY <1>1, <1>2, <1>4, <1>5, <1>6

\* Without its first statement an end is still one.
LEMMA TailEnd ==
  ASSUME NEW B, NEW t, EndOf(t, B), t # <<>>
  PROVE  EndOf(Tail(t), B) /\ Len(Tail(t)) = Len(t) - 1 /\ Len(t) \in Nat \ {0}
<1>1. t \in Seq(Statement) /\ Len(t) \in Nat \ {0}
  BY DEF EndOf
<1>2. /\ Tail(t) \in Seq(Statement) /\ Len(Tail(t)) = Len(t) - 1
      /\ \A n \in 1..Len(Tail(t)) : Tail(t)[n] = t[n + 1]
  BY <1>1
<1> HIDE DEF EndOf
<1>3. EndOf(Tail(t), B)
  BY <1>1, <1>2, Widths DEF EndOf
<1> QED
  BY <1>1, <1>2, <1>3

\* The next statement, by how many are left.
LEMMA HeadIs ==
  ASSUME NEW B, NEW t, EndOf(t, B), t # <<>>
  PROVE  \/ EntityWidth(B) = 15 /\ Len(t) <= 15 /\ Head(t) = EntitySteps[16 - Len(t)]
         \/ /\ SummaryWidth(B) = 4 /\ Len(t) > EntityWidth(B) /\ Len(t) <= EntityWidth(B) + 4
            /\ Head(t) = SummarySteps[5 - (Len(t) - EntityWidth(B))]
<1>1. t \in Seq(Statement) /\ Len(t) \in Nat \ {0} /\ Head(t) = t[1]
  BY DEF EndOf
<1> QED
  BY <1>1, Widths DEF EndOf

\* A statement of the entity part, by its place.
LEMMA HeadAt ==
  ASSUME NEW B, NEW t, EndOf(t, B), t # <<>>
  PROVE  /\ Len(t) <= EntityWidth(B) <=> Head(t) \notin ToSet(SummarySteps)
         /\ Head(t) = "count" <=> Len(t) = 1 /\ EntityWidth(B) = 15
         /\ Head(t) = "Entity" <=> Len(t) = 14 /\ EntityWidth(B) = 15
<1>1. ToSet(SummarySteps) = {SummarySteps[1], SummarySteps[2], SummarySteps[3], SummarySteps[4]}
  <2>1. DOMAIN SummarySteps = 1..4
    BY SummaryStepsAre
  <2> QED
    BY <2>1 DEF ToSet
<1>2. \A k \in 1..15 :
          /\ EntitySteps[k] \notin ToSet(SummarySteps)
          /\ EntitySteps[k] = "count" <=> k = 15
          /\ EntitySteps[k] = "Entity" <=> k = 2
  <2>1. \A k \in 1..15 : k \in {1, 2, 3, 4, 5, 6, 7, 8, 9, 10, 11, 12, 13, 14, 15}
    OBVIOUS
  <2> QED
    BY <1>1, <2>1, EntityStepsAre, SummaryStepsAre
<1>3. \A k \in 1..4 :
          /\ SummarySteps[k] \in ToSet(SummarySteps)
          /\ SummarySteps[k] # "count" /\ SummarySteps[k] # "Entity"
  <2>1. \A k \in 1..4 : k \in {1, 2, 3, 4}
    OBVIOUS
  <2> QED
    BY <1>1, <2>1, SummaryStepsAre
<1> DEFINE L == Len(t)
           width == EntityWidth(B)
<1>4. L \in Nat /\ L >= 1 /\ width \in {0, 15}
  BY Widths DEF EndOf
<1>5. \/ width = 15 /\ L <= 15 /\ Head(t) = EntitySteps[16 - L]
      \/ L > width /\ L <= width + 4 /\ Head(t) = SummarySteps[5 - (L - width)]
  BY HeadIs
<1> HIDE DEF L, width
<1>6. CASE width = 15 /\ L <= 15 /\ Head(t) = EntitySteps[16 - L]
  <2>1. 16 - L \in 1..15 /\ (16 - L = 15 <=> L = 1) /\ (16 - L = 2 <=> L = 14)
    BY <1>4, <1>6
  <2> QED
    BY <1>2, <1>6, <2>1 DEF L, width
<1>7. CASE L > width /\ L <= width + 4 /\ Head(t) = SummarySteps[5 - (L - width)]
  <2>1. 5 - (L - width) \in 1..4 /\ ~ (L <= width) /\ (L = 1 => width = 0) /\ (L = 14 => width = 0)
    BY <1>4, <1>7
  <2> QED
    BY <1>3, <1>7, <2>1 DEF L, width
<1> QED
  BY <1>5, <1>6, <1>7

-----------------------------------------------------------------------------
(* Messages.                                                               *)

\* The consumer reads a message that was not read yet.
LEMMA NextUnread ==
  ASSUME With("unread") # {}
  PROVE  NextMessage \in DOMAIN Log /\ outcome[NextMessage] = "unread"
<1>1. Len(Log) \in Nat /\ DOMAIN Log = 1..Len(Log)
  BY ConstantsAssumption
<1>2. With("unread") \in SUBSET (1..Len(Log))
  BY <1>1 DEF With
<1>3. \E i \in With("unread") : \A j \in With("unread") : i <= j
  BY <1>1, <1>2, Least
<1>4. NextMessage \in With("unread")
  BY <1>3 DEF NextMessage
<1> QED
  BY <1>4 DEF With

Outcomes == {"unread", "queued", "running", "done", "failed"}

\* Marking messages changes only those.
LEMMA Marked ==
  ASSUME TypeOK, NEW S, NEW s \in Outcomes
  PROVE  /\ Mark(S, s) \in [DOMAIN Log -> Outcomes]
         /\ \A i \in DOMAIN Log : Mark(S, s)[i] = IF i \in S THEN s ELSE outcome[i]
  BY DEF Mark, TypeOK, Outcomes

\* A message that is not a delete is queued, then in a batch, then done or failed.
Moves ==
    /\ outcome' \in [DOMAIN Log -> Outcomes]
    /\ \A i \in DOMAIN Log :
           \/ outcome'[i] = outcome[i]
           \/ /\ Log[i].kind = "delete" /\ outcome[i] \in {"unread", "running"}
              /\ outcome'[i] \in {"running", "done", "failed"}
           \/ Log[i].kind # "delete" /\ outcome[i] = "unread" /\ outcome'[i] = "queued" /\ Reading
           \/ Log[i].kind # "delete" /\ outcome[i] = "queued" /\ outcome'[i] = "running"
           \/ /\ Log[i].kind # "delete" /\ outcome[i] = "running"
              /\ outcome'[i] \in {"done", "failed"}

\* The consumer only queues messages and handles deletes.
LEMMA ConsumeMoves ==
  ASSUME Control, ConsumeStep
  PROVE  /\ Moves
         /\ \A i \in DOMAIN Log : Log[i].kind # "delete" /\ outcome[i] # "unread"
                => outcome'[i] = outcome[i]
<1> USE DEF Control
<1>1. outcome \in [DOMAIN Log -> Outcomes]
  BY DEF TypeOK, Outcomes
<1>2. CASE Enqueue
  BY <1>1, <1>2, NextUnread, Marked DEF Enqueue, Moves, Outcomes
<1>3. \A s \in Outcomes : EndDelete(s) => 
        /\ outcome' \in [DOMAIN Log -> Outcomes]
        /\ \A i \in DOMAIN Log :
               \/ outcome'[i] = outcome[i]
               \/ Log[i].kind = "delete" /\ outcome[i] = "running" /\ outcome'[i] = s
  BY Marked DEF EndDelete, With
<1>4. ASSUME NEW s \in {"running", "done", "failed"}, With("unread") # {},
             Log[NextMessage].kind = "delete", outcome' = Mark({NextMessage}, s)
      PROVE  /\ Moves
             /\ \A i \in DOMAIN Log : Log[i].kind # "delete" /\ outcome[i] # "unread"
                    => outcome'[i] = outcome[i]
  BY <1>1, <1>4, NextUnread, Marked DEF Moves, Outcomes
<1>5. CASE BeginDelete
  <2>1. \E s \in {"running", "done", "failed"} : outcome' = Mark({NextMessage}, s)
    BY <1>5 DEF BeginDelete, StartDelete
  <2> QED
    BY <1>4, <1>5, <2>1 DEF BeginDelete
<1>6. CASE DeleteStep
  <2>1. EndDelete("done") \/ outcome' = outcome
    BY <1>6 DEF DeleteStep
  <2> QED
    BY <1>1, <1>3, <2>1 DEF Moves, Outcomes
<1>7. CASE DeleteFails
  <2>1. CASE EndDelete("failed")
    BY <1>1, <1>3, <2>1 DEF Moves, Outcomes
  <2>2. CASE ~ EndDelete("failed")
    BY <1>4, <1>7, <2>2 DEF DeleteFails
  <2> QED
    BY <2>1, <2>2
<1> QED
  BY <1>2, <1>5, <1>6, <1>7 DEF ConsumeStep

\* A worker only moves queued messages and those of its batch.
LEMMA WorkerMoves ==
  ASSUME Control, NEW w \in Workers, WorkerStep(w)
  PROVE  /\ Moves
         /\ \A i \in DOMAIN Log : outcome'[i] # outcome[i] => outcome[i] = "queued" \/ i \in batch[w]
<1> USE DEF Control
<1>1. outcome \in [DOMAIN Log -> Outcomes]
  BY DEF TypeOK, Outcomes
<1>2. \A i \in DOMAIN Log : outcome[i] = "queued" => Log[i].kind # "delete"
  BY DEF Asked
<1>3. \A i \in batch[w] : Log[i].kind # "delete" /\ outcome[i] \in {"running", "failed"}
  BY DEF InBatch
<1>4. CASE TakeBatch(w)
  <2>1. PICK B \in ReadyBatches : outcome' = Mark(B, "running")
    BY <1>4 DEF TakeBatch
  <2>2. \A i \in B : i \in DOMAIN Log /\ outcome[i] = "queued"
    BY <2>1 DEF ReadyBatches, With
  <2> QED
    BY <1>1, <1>2, <2>1, <2>2, Marked DEF Moves, Outcomes
<1>5. ASSUME outcome' = outcome \/ outcome' = Mark(batch[w] \cap With("running"), "done")
      PROVE  /\ Moves
             /\ \A i \in DOMAIN Log : outcome'[i] # outcome[i] => i \in batch[w]
  BY <1>1, <1>3, <1>5, Marked DEF Moves, Outcomes, With
<1>6. CASE Write(w) \/ Count(w)
  BY <1>5, <1>6 DEF Write, Count, Advance
<1>7. CASE SummaryFails(w)
  <2>1. outcome' = Mark({i \in batch[w] : Log[i].kind = "summary"}, "failed")
    BY <1>7 DEF SummaryFails
  <2> QED
    BY <1>1, <1>3, <2>1, Marked DEF Moves, Outcomes
<1>8. CASE EntitiesFail(w)
  BY <1>1, <1>3, <1>8 DEF EntitiesFail, Moves, Outcomes, With
<1>9. CASE BatchFails(w)
  <2>1. outcome' = Mark(batch[w], "failed")
    BY <1>9 DEF BatchFails
  <2> QED
    BY <1>1, <1>3, <2>1, Marked DEF Moves, Outcomes
<1> QED
  BY <1>4, <1>6, <1>7, <1>8, <1>9 DEF WorkerStep

-----------------------------------------------------------------------------
(* Batches.                                                                *)

\* What the control invariant says of one worker.
LEMMA BatchParts ==
  ASSUME Control, NEW w \in Workers
  PROVE  /\ EndOf(todo[w], batch[w]) /\ batch[w] \subseteq DOMAIN Log
         /\ ChunksIn(batch[w], "entities") \subseteq Chunk
         /\ ChunksIn(batch[w], "summary") \subseteq Chunk
         /\ Left(w) \in Nat /\ (todo[w] = <<>> <=> Left(w) = 0)
         /\ batch[w] = {} <=> todo[w] = <<>>
<1>1. EndOf(todo[w], batch[w]) /\ batch[w] \subseteq DOMAIN Log
  BY DEF Control, TodoFits, InBatch
<1>2. ChunksIn(batch[w], "entities") \subseteq Chunk /\ ChunksIn(batch[w], "summary") \subseteq Chunk
  BY <1>1, ChunksType DEF Control
<1>3. todo[w] \in Seq(Statement)
  BY <1>1 DEF EndOf
<1> QED
  BY <1>1, <1>2, <1>3 DEF Left, Control, TypeOK

\* Nothing left is an end of every batch.
LEMMA EmptyEnd == ASSUME NEW B PROVE EndOf(<<>>, B)
  BY Widths DEF EndOf

\* A worker that goes on has t left to do.
Goes(w, t) ==
    /\ EndOf(t, batch[w]) /\ Len(t) < Left(w)
    /\ todo' = [todo EXCEPT ![w] = t]
    /\ batch' = [batch EXCEPT ![w] = IF t = <<>> THEN {} ELSE batch[w]]
    /\ t # <<>> => \A i \in batch[w] :
           /\ outcome'[i] \in {"running", "failed"}
           /\ Log[i].kind = "entities" \/ Len(t) > EntityWidth(batch[w]) => outcome'[i] = "running"

\* After a statement a worker goes on with the rest.
LEMMA AdvanceGoes ==
  ASSUME Control, NEW w \in Workers, todo[w] # <<>>, Advance(w, Tail(todo[w]))
  PROVE  Goes(w, Tail(todo[w])) /\ Len(Tail(todo[w])) = Left(w) - 1
<1>1. EndOf(Tail(todo[w]), batch[w]) /\ Len(Tail(todo[w])) = Left(w) - 1 /\ Left(w) \in Nat \ {0}
  BY BatchParts, TailEnd DEF Left
<1>2. EntityWidth(batch[w]) \in {0, 15}
  BY Widths
<1>3. ASSUME Tail(todo[w]) # <<>>, NEW i \in batch[w]
      PROVE  /\ outcome'[i] \in {"running", "failed"}
             /\ Log[i].kind = "entities" \/ Len(Tail(todo[w])) > EntityWidth(batch[w])
                    => outcome'[i] = "running"
  <2>1. outcome' = outcome
    BY <1>3 DEF Advance
  <2>2. Len(Tail(todo[w])) > EntityWidth(batch[w]) => Left(w) > EntityWidth(batch[w])
    BY <1>1, <1>2
  <2> QED
    BY <1>3, <2>1, <2>2 DEF Control, InBatch
<1> QED
  BY <1>1, <1>3 DEF Goes, Advance

\* After a failing summary it goes on with the entity part.
LEMMA SummaryFailsGoes ==
  ASSUME Control, NEW w \in Workers, SummaryFails(w)
  PROVE  Goes(w, EntityPart(batch[w])) /\ Left(w) > EntityWidth(batch[w])
<1> DEFINE t == EntityPart(batch[w])
<1>1. EndOf(t, batch[w]) /\ Len(t) = EntityWidth(batch[w]) /\ Len(t) \in Nat
  BY WholeEnd, Widths
<1>2. Left(w) > EntityWidth(batch[w])
  <2>1. ~ (Len(todo[w]) <= EntityWidth(batch[w]))
    BY BatchParts, HeadAt DEF SummaryFails
  <2> QED
    BY <2>1, BatchParts, Widths DEF Left
<1>3. ASSUME NEW i \in batch[w]
      PROVE  /\ outcome'[i] \in {"running", "failed"}
             /\ Log[i].kind = "entities" => outcome'[i] = "running"
  <2>1. i \in DOMAIN Log /\ outcome[i] \in {"running", "failed"}
        /\ (Log[i].kind = "entities" => outcome[i] = "running")
    BY <1>3 DEF Control, InBatch
  <2>2. outcome' = Mark({k \in batch[w] : Log[k].kind = "summary"}, "failed")
    BY DEF SummaryFails
  <2>3. outcome'[i] = IF Log[i].kind = "summary" THEN "failed" ELSE outcome[i]
    BY <1>3, <2>1, <2>2, Marked DEF Control, Outcomes
  <2> QED
    BY <2>1, <2>3
<1>4. ~ (Len(t) > EntityWidth(batch[w]))
  BY <1>1
<1>5. /\ todo' = [todo EXCEPT ![w] = t]
      /\ batch' = [batch EXCEPT ![w] = IF t = <<>> THEN {} ELSE batch[w]]
  BY DEF SummaryFails
<1> HIDE DEF t
<1>6. Goes(w, t)
  BY <1>1, <1>2, <1>3, <1>4, <1>5 DEF Goes
<1> QED
  BY <1>2, <1>6 DEF t

\* After a failing entity part it has nothing left.
LEMMA EntitiesFailGoes ==
  ASSUME Control, NEW w \in Workers, EntitiesFail(w)
  PROVE  Goes(w, <<>>) /\ Left(w) <= EntityWidth(batch[w]) /\ EntityWidth(batch[w]) = 15
<1>1. Left(w) <= EntityWidth(batch[w])
  BY BatchParts, HeadAt DEF EntitiesFail, Left
<1>2. Left(w) \in Nat \ {0}
  BY BatchParts DEF EntitiesFail
<1>3. EntityWidth(batch[w]) = 15
  BY <1>1, <1>2, Widths
<1> QED
  BY <1>1, <1>2, <1>3, EmptyEnd DEF Goes, EntitiesFail

\* After a lost batch too.
LEMMA BatchFailsGoes ==
  ASSUME Control, NEW w \in Workers, BatchFails(w)
  PROVE  Goes(w, <<>>)
<1>1. Left(w) \in Nat \ {0}
  BY BatchParts DEF BatchFails
<1> QED
  BY <1>1, EmptyEnd DEF Goes, BatchFails

\* Whatever a busy worker does, it goes on.
LEMMA WorkGoes ==
  ASSUME Control, NEW w \in Workers,
         Write(w) \/ Count(w) \/ SummaryFails(w) \/ BatchFails(w) \/ EntitiesFail(w)
  PROVE  \E t : Goes(w, t)
  BY AdvanceGoes, SummaryFailsGoes, BatchFailsGoes, EntitiesFailGoes DEF Write, Count

\* What a worker takes is the beginning of its statements.
LEMMA TakeStarts ==
  ASSUME Control, NEW w \in Workers, TakeBatch(w)
  PROVE  \E B \in ReadyBatches :
             /\ B # {} /\ batch[w] = {} /\ B \subseteq DOMAIN Log
             /\ batch' = [batch EXCEPT ![w] = B] /\ todo' = [todo EXCEPT ![w] = StepsFor(B)]
             /\ EndOf(StepsFor(B), B) /\ StepsFor(B) # <<>>
             /\ Len(StepsFor(B)) = EntityWidth(B) + SummaryWidth(B)
             /\ \A i \in B : /\ outcome[i] = "queued" /\ outcome'[i] = "running"
                             /\ Log[i].kind \in {"entities", "summary"}
<1>1. PICK B \in ReadyBatches :
          /\ batch' = [batch EXCEPT ![w] = B] /\ todo' = [todo EXCEPT ![w] = StepsFor(B)]
          /\ outcome' = Mark(B, "running")
  BY DEF TakeBatch
<1>2. B # {} /\ \A i \in B : i \in DOMAIN Log /\ outcome[i] = "queued"
  BY DEF ReadyBatches, With
<1>3. \A i \in B : Log[i].kind \in {"entities", "summary"} /\ outcome'[i] = "running"
  BY <1>1, <1>2, MessageType, Marked DEF Control, Asked, Outcomes
<1>4. ChunksIn(B, "entities") # {} \/ ChunksIn(B, "summary") # {}
  BY <1>2, <1>3 DEF ChunksIn
<1>5. EndOf(StepsFor(B), B) /\ Len(StepsFor(B)) = EntityWidth(B) + SummaryWidth(B)
  BY WholeEnd
<1>6. StepsFor(B) # <<>>
  <2>1. EntityWidth(B) + SummaryWidth(B) # 0
    BY <1>4, Widths
  <2> QED
    BY <1>5, <2>1
<1>7. batch[w] = {}
  BY DEF TakeBatch
<1> QED
  BY <1>1, <1>2, <1>3, <1>5, <1>6, <1>7

\* A worker's step keeps what is said of batches and of their statements.
LEMMA TodoStep ==
  ASSUME Control, NEW w \in Workers, WorkerStep(w)
  PROVE  TodoFits' /\ InBatch' /\ \A x \in Workers : batch'[x] = {} <=> todo'[x] = <<>>
<1>1. /\ batch \in [Workers -> SUBSET DOMAIN Log] /\ todo \in [Workers -> Seq(Statement)]
      /\ \A x \in Workers : EndOf(todo[x], batch[x]) /\ (batch[x] = {} <=> todo[x] = <<>>)
  BY DEF Control, TodoFits, InBatch, TypeOK
<1>2. \A x \in Workers : x # w => \A i \in batch[x] : i \in DOMAIN Log /\ outcome'[i] = outcome[i]
  <2>1. ASSUME NEW x \in Workers, x # w, NEW i \in batch[x]
        PROVE  i \in DOMAIN Log /\ outcome[i] # "queued" /\ i \notin batch[w]
    BY <2>1 DEF Control, InBatch
  <2> QED
    BY <2>1, WorkerMoves
<1>3. CASE TakeBatch(w)
  <2>1. PICK B \in ReadyBatches :
             /\ B # {} /\ batch[w] = {} /\ B \subseteq DOMAIN Log
             /\ batch' = [batch EXCEPT ![w] = B] /\ todo' = [todo EXCEPT ![w] = StepsFor(B)]
             /\ EndOf(StepsFor(B), B) /\ StepsFor(B) # <<>>
             /\ \A i \in B : /\ outcome[i] = "queued" /\ outcome'[i] = "running"
                             /\ Log[i].kind \in {"entities", "summary"}
    BY <1>3, TakeStarts
  <2>2. StepsFor(B) \in Seq(Statement)
    BY <2>1 DEF EndOf
  <2>3. batch'[w] = B /\ todo'[w] = StepsFor(B)
        /\ \A x \in Workers : x # w => batch'[x] = batch[x] /\ todo'[x] = todo[x]
    BY <1>1, <2>1
  <2>4. TodoFits'
    BY <1>1, <2>1, <2>3 DEF TodoFits
  <2>5. batch' \in [Workers -> SUBSET DOMAIN Log] /\ todo' \in [Workers -> Seq(Statement)]
    BY <1>1, <2>1, <2>2
  <2>6. \A x \in Workers : x # w => batch[x] \cap B = {}
    BY <2>1 DEF Control, InBatch
  <2>7. InBatch'
    <3>1. \A x, y \in Workers : x # y => batch'[x] \cap batch'[y] = {}
      BY <2>3, <2>6 DEF Control, InBatch
    <3>2. ASSUME NEW x \in Workers, NEW i \in batch'[x]
          PROVE  /\ i \in DOMAIN Log /\ Log[i].kind \in {"entities", "summary"}
                 /\ outcome'[i] \in {"running", "failed"}
                 /\ Log[i].kind = "entities" \/ Left(x)' > EntityWidth(batch'[x])
                        => outcome'[i] = "running"
      <4>1. CASE x = w
        BY <2>1, <2>3, <3>2, <4>1
      <4>2. CASE x # w
        <5>1. batch'[x] = batch[x] /\ Left(x)' = Left(x)
          BY <2>3, <4>2 DEF Left
        <5> QED
          BY <1>2, <3>2, <4>2, <5>1 DEF Control, InBatch
      <4> QED
        BY <4>1, <4>2
    <3> QED
      BY <2>5, <3>1, <3>2 DEF InBatch
  <2> QED
    BY <1>1, <2>1, <2>3, <2>4, <2>7
<1>4. CASE ~ TakeBatch(w)
  <2>1. PICK t : Goes(w, t)
    BY <1>4, WorkGoes DEF WorkerStep
  <2>2. t \in Seq(Statement)
    BY <2>1 DEF Goes, EndOf
  <2>3. batch'[w] = (IF t = <<>> THEN {} ELSE batch[w]) /\ todo'[w] = t
        /\ \A x \in Workers : x # w => batch'[x] = batch[x] /\ todo'[x] = todo[x]
    BY <1>1, <2>1 DEF Goes
  <2>4. batch[w] # {}
    <3>1. Len(t) \in Nat /\ Left(w) > Len(t)
      BY <2>1, <2>2 DEF Goes
    <3>2. Left(w) # 0
      BY <3>1, BatchParts
    <3> QED
      BY <3>2, BatchParts
  <2>5. TodoFits'
    BY <1>1, <2>1, <2>3, EmptyEnd DEF TodoFits, Goes
  <2>6. batch' \in [Workers -> SUBSET DOMAIN Log] /\ todo' \in [Workers -> Seq(Statement)]
    BY <1>1, <2>1, <2>2 DEF Goes
  <2>7. \A x \in Workers : batch'[x] \subseteq batch[x]
    BY <2>3
  <2>8. \A i \in batch'[w] :
           /\ i \in DOMAIN Log /\ Log[i].kind \in {"entities", "summary"}
           /\ outcome'[i] \in {"running", "failed"}
           /\ Log[i].kind = "entities" \/ Left(w)' > EntityWidth(batch'[w]) => outcome'[i] = "running"
    <3>1. ASSUME NEW i \in batch'[w] PROVE t # <<>> /\ batch'[w] = batch[w]
      BY <2>3
    <3>2. Left(w)' = Len(t)
      BY <2>3 DEF Left
    <3> QED
      BY <2>1, <3>1, <3>2 DEF Goes, Control, InBatch
  <2>9. \A x \in Workers : x # w => Left(x)' = Left(x)
    BY <2>3 DEF Left
  <2>10. \A x, y \in Workers : x # y => batch[x] \cap batch[y] = {}
    BY DEF Control, InBatch
  <2>11. \A x, y \in Workers : x # y => batch'[x] \cap batch'[y] = {}
    BY <2>7, <2>10
  <2>12. ASSUME NEW x \in Workers, NEW i \in batch'[x]
         PROVE  /\ i \in DOMAIN Log /\ Log[i].kind \in {"entities", "summary"}
                /\ outcome'[i] \in {"running", "failed"}
                /\ Log[i].kind = "entities" \/ Left(x)' > EntityWidth(batch'[x]) => outcome'[i] = "running"
    <3>1. CASE x = w
      BY <2>8, <2>12, <3>1
    <3>2. CASE x # w
      BY <1>2, <2>3, <2>9, <2>12, <3>2 DEF Control, InBatch
    <3> QED
      BY <3>1, <3>2
  <2>13. InBatch'
    BY <2>6, <2>11, <2>12 DEF InBatch
  <2> QED
    BY <1>1, <2>3, <2>4, <2>5, <2>13
<1> QED
  BY <1>3, <1>4

-----------------------------------------------------------------------------
(* What the statements write.                                              *)

\* An edge and a node of a statement.
LEMMA NewNodesType ==
  ASSUME NEW B, B \subseteq DOMAIN Log, NEW s
  PROVE  /\ NewNodes(s, B) \subseteq Node
         /\ \A e : <<"Entity", e>> \in NewNodes(s, B) <=> s = "Entity" /\ e \in EntitiesIn(B)
<1>0. /\ ChunksIn(B, "entities") \subseteq Chunk /\ ChunksIn(B, "summary") \subseteq Chunk
      /\ VersionOf \in [Chunk -> Version]
  BY ChunksType, ConstantsAssumption
<1>a. OfferedIn(B) \subseteq Entity
  BY <1>0, ConstantsAssumption DEF OfferedIn
<1>1. /\ ChunksIn(B, "entities") \subseteq Chunk /\ ChunksIn(B, "summary") \subseteq Chunk
      /\ EntitiesIn(B) \subseteq Entity /\ VersionOf \in [Chunk -> Version]
  BY <1>0, <1>a DEF EntitiesIn, Judged
<1>2. CASE s = "TextSummary"
  BY <1>1, <1>2 DEF NewNodes, SummaryNodes, Node
<1>3. CASE s = "EntityType"
  BY <1>1, <1>3 DEF NewNodes, EntityTypeNodes, Node
<1>4. CASE s = "Entity"
  BY <1>1, <1>4 DEF NewNodes, EntityNodes, Node
<1>5. CASE s = "DocumentChunk"
  BY <1>1, <1>5 DEF NewNodes, ChunkNodes, Node
<1>6. CASE s = "Repository"
  BY <1>1, <1>6 DEF NewNodes, RepositoryNode, Node
<1>7. CASE s = "Document"
  BY <1>1, <1>7 DEF NewNodes, DocumentNodes, Node
<1>8. CASE s \notin {"TextSummary", "EntityType", "Entity", "DocumentChunk", "Repository", "Document"}
  BY <1>8 DEF NewNodes
<1> QED
  BY <1>2, <1>3, <1>4, <1>5, <1>6, <1>7, <1>8

\* An entity of a batch has a last event.
LEMMA LastWriterHas ==
  ASSUME NEW B, B \subseteq DOMAIN Log, NEW e \in OfferedIn(B)
  PROVE  /\ LastWriter(B, e) \in Chunk /\ e \in Extracted[LastWriter(B, e)]
         /\ VersionOf[LastWriter(B, e)] \in Version
<1> DEFINE T == {i \in B : Log[i].kind = "entities" /\ e \in Extracted[Log[i].chunk]}
           P(i) == /\ Log[i].kind = "entities" /\ e \in Extracted[Log[i].chunk]
                   /\ \A j \in B : j > i => Log[j].kind # "entities" \/ e \notin Extracted[Log[j].chunk]
<1>1. Len(Log) \in Nat /\ DOMAIN Log = 1..Len(Log)
  BY ConstantsAssumption
<1>2. T \in SUBSET (1..Len(Log)) /\ T # {}
  BY <1>1 DEF OfferedIn, ChunksIn
<1>3. PICK m \in T : \A j \in T : j <= m
  <2> HIDE DEF T
  <2> QED
    BY <1>1, <1>2, Greatest
<1>4. P(m)
  BY <1>1, <1>2, <1>3
<1>5. \E i \in B : P(i)
  BY <1>3, <1>4
<1> DEFINE x == CHOOSE i \in B : P(i)
<1>6. x \in B /\ P(x)
  <2> HIDE DEF P
  <2> QED
    BY <1>5
<1>7. LastWriter(B, e) = Log[x].chunk
  BY DEF LastWriter
<1>8. x \in DOMAIN Log /\ Log[x].kind = "entities" /\ e \in Extracted[Log[x].chunk]
  BY <1>6
<1> HIDE DEF x, P, T
<1> QED
  BY <1>7, <1>8, MessageType

\* The graph part of the types, and what entity nodes say.
GraphFits ==
    /\ nodes \subseteq Node
    /\ \A x \in edges : x[2] \in nodes /\ x[3] \in nodes
    /\ owner \in [Entity -> Version \cup {NoVersion}]
    /\ origin \in [Entity -> Path \cup {None}]
    /\ \A e \in Entity : <<"Entity", e>> \in nodes <=> owner[e] # NoVersion

\* The control invariant has the types of the graph.
LEMMA GraphFitsControl == Control => GraphFits
  BY DEF Control, TypeOK, GraphFits

\* A statement of a worker only adds to the graph, and leaves it well formed.
LEMMA WriteGraph ==
  ASSUME Control, NEW w \in Workers, Write(w)
  PROVE  GraphFits' /\ OwnersFit' /\ nodes \subseteq nodes' /\ edges \subseteq edges'
<1> DEFINE s == Head(todo[w])
           B == batch[w]
<1>1. /\ nodes' = nodes \cup NewNodes(s, B) /\ edges' = edges \cup NewEdges(s, B)
      /\ IF s = "Entity"
         THEN /\ owner' = [e \in Entity |-> IF e \in EntitiesIn(B)
                                            THEN VersionOf[LastWriter(B, e)] ELSE owner[e]]
              /\ origin' = [e \in Entity |-> IF e \in EntitiesIn(B) /\ <<s, e>> \notin nodes
                                             THEN PathOf[VersionOf[LastWriter(B, e)]]
                                             ELSE origin[e]]
         ELSE UNCHANGED <<owner, origin>>
  BY DEF Write
<1>2. B \subseteq DOMAIN Log
  BY BatchParts
<1> HIDE DEF s, B
<1>3. \A x \in NewEdges(s, B) : x[2] \in nodes /\ x[3] \in nodes
  BY DEF NewEdges
<1>4. /\ NewNodes(s, B) \subseteq Node
      /\ \A e : <<"Entity", e>> \in NewNodes(s, B) <=> s = "Entity" /\ e \in EntitiesIn(B)
  BY <1>2, NewNodesType DEF Control
<1>5. \A e \in EntitiesIn(B) : /\ LastWriter(B, e) \in Chunk /\ e \in Extracted[LastWriter(B, e)]
                               /\ VersionOf[LastWriter(B, e)] \in Version
                               /\ VersionOf[LastWriter(B, e)] # NoVersion
                               /\ PathOf[VersionOf[LastWriter(B, e)]] \in Path
  BY <1>2, LastWriterHas, ConstantsAssumption DEF Control, EntitiesIn, Judged
<1>6. GraphFits
  BY GraphFitsControl
<1>7. OwnersFit
  BY DEF Control
<1>8. nodes \subseteq nodes' /\ edges \subseteq edges'
  BY <1>1
<1>9. nodes' \subseteq Node /\ \A x \in edges' : x[2] \in nodes' /\ x[3] \in nodes'
  BY <1>1, <1>3, <1>4, <1>6 DEF GraphFits
<1>10. CASE s = "Entity"
  <2>1. /\ owner' \in [Entity -> Version \cup {NoVersion}]
        /\ origin' \in [Entity -> Path \cup {None}]
    BY <1>1, <1>5, <1>6, <1>10 DEF GraphFits
  <2>2. \A e \in Entity : <<"Entity", e>> \in nodes' <=> <<"Entity", e>> \in nodes \/ e \in EntitiesIn(B)
    BY <1>1, <1>4, <1>10
  <2>3. \A e \in Entity : owner'[e] = IF e \in EntitiesIn(B) THEN VersionOf[LastWriter(B, e)] ELSE owner[e]
    BY <1>1, <1>10
  <2>4. \A e \in Entity : origin'[e] = IF e \in EntitiesIn(B) /\ <<"Entity", e>> \notin nodes
                                       THEN PathOf[VersionOf[LastWriter(B, e)]] ELSE origin[e]
    BY <1>1, <1>10
  <2>5. \A e \in Entity : <<"Entity", e>> \in nodes' <=> owner'[e] # NoVersion
    BY <1>5, <1>6, <2>2, <2>3 DEF GraphFits
  <2>6. ASSUME NEW e \in Entity, <<"Entity", e>> \in nodes'
        PROVE  /\ \E c \in Chunk : e \in Extracted[c] /\ owner'[e] = VersionOf[c]
               /\ \E d \in Chunk : e \in Extracted[d] /\ origin'[e] = PathOf[VersionOf[d]]
    <3>1. CASE e \in EntitiesIn(B) /\ <<"Entity", e>> \notin nodes
      BY <1>5, <2>3, <2>4, <3>1
    <3>2. CASE e \in EntitiesIn(B) /\ <<"Entity", e>> \in nodes
      BY <1>5, <1>7, <2>3, <2>4, <3>2 DEF OwnersFit
    <3>3. CASE e \notin EntitiesIn(B)
      BY <1>7, <2>2, <2>3, <2>4, <2>6, <3>3 DEF OwnersFit
    <3> QED
      BY <3>1, <3>2, <3>3
  <2> QED
    BY <1>8, <1>9, <2>1, <2>5, <2>6 DEF GraphFits, OwnersFit
<1>11. CASE s # "Entity"
  <2>1. \A e \in Entity : <<"Entity", e>> \in nodes' <=> <<"Entity", e>> \in nodes
    BY <1>1, <1>4, <1>11
  <2>2. owner' = owner /\ origin' = origin
    BY <1>1, <1>11
  <2>3. GraphFits'
    BY <1>6, <1>9, <2>1, <2>2 DEF GraphFits
  <2>4. OwnersFit'
    BY <1>7, <2>1, <2>2 DEF OwnersFit
  <2> QED
    BY <1>8, <2>3, <2>4
<1> QED
  BY <1>10, <1>11

\* The nodes a delete's statement takes away.
LEMMA DoomedAre ==
  ASSUME NEW s, NEW v
  PROVE  /\ \A n \in Doomed(s, v) : \E k : n = <<s, k>>
         /\ \A u : <<"Document", u>> \in Doomed(s, v) => u = v
         /\ \A c \in Chunk : /\ <<"DocumentChunk", c>> \in Doomed(s, v) => VersionOf[c] = v
                             /\ <<"TextSummary", c>> \in Doomed(s, v) => VersionOf[c] = v
         /\ \A e : <<"Entity", e>> \in Doomed(s, v) => (s = "Entity" => owner[e] = v)
<1>1. CASE s = "Document"
  BY <1>1 DEF Doomed
<1>2. CASE s = "Entity"
  BY <1>2 DEF Doomed
<1>3. CASE s \notin {"Document", "Entity"}
  BY <1>3 DEF Doomed
<1> QED
  BY <1>1, <1>2, <1>3

\* A delete's statement leaves the graph well formed: edges go with their ends.
LEMMA DeleteGraph ==
  ASSUME Control, DeleteStep
  PROVE  /\ GraphFits' /\ OwnersFit'
         /\ nodes' = nodes \ Doomed(Head(cleanup), target)
         /\ edges' = {x \in edges : x[2] \in nodes' /\ x[3] \in nodes'}
<1> DEFINE gone == Doomed(Head(cleanup), target)
<1>1. /\ nodes' = nodes \ gone
      /\ edges' = {x \in edges : x[2] \notin gone /\ x[3] \notin gone}
      /\ owner' = [e \in Entity |-> IF <<"Entity", e>> \in gone THEN NoVersion ELSE owner[e]]
      /\ origin' = [e \in Entity |-> IF <<"Entity", e>> \in gone THEN None ELSE origin[e]]
  BY DEF DeleteStep
<1> HIDE DEF gone
<1>2. GraphFits
  BY GraphFitsControl
<1>3. edges' = {x \in edges : x[2] \in nodes' /\ x[3] \in nodes'}
  BY <1>1, <1>2 DEF GraphFits
<1>4. /\ owner' \in [Entity -> Version \cup {NoVersion}]
      /\ origin' \in [Entity -> Path \cup {None}]
  BY <1>1, <1>2 DEF GraphFits
<1>5. \A e \in Entity : <<"Entity", e>> \in nodes' <=> owner'[e] # NoVersion
  BY <1>1, <1>2 DEF GraphFits
<1>6. GraphFits'
  BY <1>1, <1>2, <1>3, <1>4, <1>5 DEF GraphFits
<1>7. \A e \in Entity : <<"Entity", e>> \in nodes' =>
          <<"Entity", e>> \in nodes /\ owner'[e] = owner[e] /\ origin'[e] = origin[e]
  BY <1>1
<1>8. OwnersFit'
  BY <1>7 DEF OwnersFit, Control
<1> QED
  BY <1>1, <1>3, <1>6, <1>8 DEF gone

\* Nothing happens to the graph in the other steps.
LEMMA SameGraph ==
  ASSUME Control, UNCHANGED graph
  PROVE  GraphFits' /\ OwnersFit' /\ nodes' = nodes /\ edges' = edges
  BY GraphFitsControl DEF graph, GraphFits, OwnersFit, Control

-----------------------------------------------------------------------------
(* Deletes, and the control invariant.                                     *)

\* A version that is looked up is one of the path, or shares an entity with it.
LEMMA ResolvedIs ==
  ASSUME Control, NEW p, NEW v \in Resolved(p)
  PROVE  v \in Version /\ (PathOf[v] = p \/ Shares(v, p))
<1>1. VersionOf \in [Chunk -> Version]
  BY ConstantsAssumption DEF Control
<1>2. CASE \E c \in Chunk : PathOf[VersionOf[c]] = p /\ v = VersionOf[c]
  BY <1>1, <1>2
<1>3. CASE \E x \in Entity : <<"Entity", x>> \in nodes /\ origin[x] = p /\ v = owner[x]
  <2>1. PICK x \in Entity : <<"Entity", x>> \in nodes /\ origin[x] = p /\ v = owner[x]
    BY <1>3
  <2>2. PICK c \in Chunk : x \in Extracted[c] /\ owner[x] = VersionOf[c]
    BY <2>1 DEF Control, OwnersFit
  <2>3. PICK d \in Chunk : x \in Extracted[d] /\ origin[x] = PathOf[VersionOf[d]]
    BY <2>1 DEF Control, OwnersFit
  <2>4. Shares(v, p)
    BY <2>1, <2>2, <2>3 DEF Shares
  <2> QED
    BY <1>1, <2>1, <2>2, <2>4
<1> QED
  BY <1>2, <1>3 DEF Resolved

\* The statements of a delete, by place.
LEMMA DeleteStepsAre ==
  /\ DeleteSteps \in Seq(ToSet(DeleteSteps)) /\ Len(DeleteSteps) = 4 /\ DeleteSteps # <<>>
  /\ DeleteSteps[1] = "Document" /\ DeleteSteps[2] = "DocumentChunk"
  /\ DeleteSteps[3] = "TextSummary" /\ DeleteSteps[4] = "Entity"
<1>1. Len(DeleteSteps) = 4 /\ DOMAIN DeleteSteps = 1..4
  BY DEF DeleteSteps
<1>2. DeleteSteps \in Seq(ToSet(DeleteSteps))
  BY DEF DeleteSteps, ToSet
<1> QED
  BY <1>1, <1>2 DEF DeleteSteps

\* What a delete has left to do ends with the same statements.
LEMMA CleanupIs ==
  ASSUME Control, cleanup # <<>>
  PROVE  /\ Head(cleanup) = DeleteSteps[5 - Len(cleanup)] /\ Len(cleanup) \in 1..4
         /\ Tail(cleanup) \in Seq(ToSet(DeleteSteps)) /\ Len(Tail(cleanup)) = Len(cleanup) - 1
         /\ \A n \in 1..Len(Tail(cleanup)) : Tail(cleanup)[n] = DeleteSteps[4 - Len(Tail(cleanup)) + n]
         /\ Tail(cleanup) = <<>> <=> Len(cleanup) = 1
<1>1. /\ cleanup \in Seq(ToSet(DeleteSteps)) /\ Len(cleanup) <= 4
      /\ \A n \in 1..Len(cleanup) : cleanup[n] = DeleteSteps[4 - Len(cleanup) + n]
  BY DEF Control, TypeOK, Asked
<1>2. Len(cleanup) \in Nat /\ Len(cleanup) # 0 /\ Head(cleanup) = cleanup[1]
  BY <1>1
<1>3. /\ Tail(cleanup) \in Seq(ToSet(DeleteSteps)) /\ Len(Tail(cleanup)) = Len(cleanup) - 1
      /\ \A n \in 1..Len(Tail(cleanup)) : Tail(cleanup)[n] = cleanup[n + 1]
  BY <1>1, <1>2
<1>4. Len(cleanup) \in 1..4 /\ 4 - Len(cleanup) + 1 = 5 - Len(cleanup)
  <2> DEFINE L == Len(cleanup)
  <2>1. L \in Nat /\ L # 0 /\ L <= 4
    BY <1>1, <1>2
  <2> HIDE DEF L
  <2>2. L \in 1..4 /\ 4 - L + 1 = 5 - L
    BY <2>1
  <2> QED
    BY <2>2 DEF L
<1>5. cleanup[1] = DeleteSteps[4 - Len(cleanup) + 1]
  BY <1>1, <1>4
<1>6. ASSUME NEW n \in 1..Len(Tail(cleanup))
      PROVE  Tail(cleanup)[n] = DeleteSteps[4 - Len(Tail(cleanup)) + n]
  <2>1. n + 1 \in 1..Len(cleanup) /\ 4 - Len(cleanup) + (n + 1) = 4 - Len(Tail(cleanup)) + n
    BY <1>3, <1>4
  <2> QED
    BY <1>1, <1>3, <2>1
<1> QED
  BY <1>2, <1>3, <1>4, <1>5, <1>6

\* A delete stays read.
LEMMA StaysRead ==
  ASSUME Moves, NEW i \in DOMAIN Log, outcome[i] # "unread"
  PROVE  outcome'[i] # "unread"
  BY DEF Moves

\* The consumer keeps what is said of the delete in hand.
LEMMA AskedConsume ==
  ASSUME Control, ConsumeStep
  PROVE  /\ Asked' /\ cleanup' \in Seq(ToSet(DeleteSteps))
         /\ target' \in Version \cup {NoVersion} /\ settled' \in BOOLEAN
<1>1. Moves
  BY ConsumeMoves
<1>2. /\ Asked /\ cleanup \in Seq(ToSet(DeleteSteps))
      /\ target \in Version \cup {NoVersion} /\ settled \in BOOLEAN
      /\ outcome \in [DOMAIN Log -> Outcomes]
  BY DEF Control, TypeOK, Outcomes
<1>3. \A i \in DOMAIN Log : Log[i].kind = "delete" => outcome'[i] # "queued"
  BY <1>1, <1>2 DEF Moves, Asked
<1>4. ASSUME UNCHANGED target
      PROVE  target' \in Version =>
                 \E i \in DOMAIN Log : /\ Log[i].kind = "delete" /\ outcome'[i] # "unread"
                                       /\ Log[i].version \in {target', NoVersion}
  BY <1>1, <1>2, <1>4, StaysRead DEF Asked
<1>5. Len(<<>>) = 0 /\ <<>> \in Seq(ToSet(DeleteSteps))
  OBVIOUS
<1>6. ASSUME UNCHANGED <<target, settled>>, cleanup' = <<>>
      PROVE  Asked'
  BY <1>3, <1>4, <1>5, <1>6 DEF Asked
<1>7. CASE Enqueue
  <2>1. UNCHANGED <<target, cleanup, settled>> /\ cleanup = <<>>
    BY <1>7 DEF Enqueue, Reading
  <2> QED
    BY <1>2, <1>6, <2>1
<1>8. CASE DeleteFails
  <2>1. UNCHANGED <<target, settled>> /\ cleanup' = <<>>
    BY <1>8 DEF DeleteFails, Reading
  <2> QED
    BY <1>2, <1>5, <1>6, <2>1
<1>9. CASE BeginDelete
  <2> DEFINE m == NextMessage
  <2>1. /\ m \in DOMAIN Log /\ outcome[m] = "unread" /\ Log[m].kind = "delete"
    BY <1>9, NextUnread DEF BeginDelete, Control
  <2> HIDE DEF m
  <2>2. Log[m].version \in Version \cup {NoVersion}
    BY <2>1, MessageType DEF Control
  <2>3. CASE \E v : StartDelete(v) /\ v \in Version /\ Named(m, v)
    <3>1. PICK v : StartDelete(v) /\ v \in Version /\ Named(m, v)
      BY <2>3
    <3>2. /\ target' = v /\ settled' \in BOOLEAN /\ cleanup' = DeleteSteps
          /\ outcome' = Mark({m}, "running")
      BY <3>1 DEF StartDelete, m
    <3>3. outcome'[m] = "running"
      BY <2>1, <3>2, Marked DEF Control, Outcomes
    <3>4. m \in With("running")'
      BY <2>1, <3>3 DEF With
    <3>5. Log[m].version \in {v, NoVersion}
      BY <3>1 DEF Named
    <3>6. Len(cleanup') = 4 /\ \A n \in 1..4 : cleanup'[n] = DeleteSteps[4 - 4 + n]
      BY <3>2, DeleteStepsAre
    <3>7. \E i \in With("running")' : Named(i, target')
      BY <3>1, <3>2, <3>4
    <3>8. \E i \in DOMAIN Log : /\ Log[i].kind = "delete" /\ outcome'[i] # "unread"
                                /\ Log[i].version \in {target', NoVersion}
      BY <2>1, <3>2, <3>3, <3>5
    <3>9. \A n \in 1..Len(cleanup') : cleanup'[n] = DeleteSteps[4 - Len(cleanup') + n]
      BY <3>6
    <3>10. Len(cleanup') <= 4 /\ target' \in Version
      BY <3>1, <3>2, <3>6
    <3>11. Asked'
      <4> HIDE DEF Named
      <4> QED
        BY <1>3, <3>7, <3>8, <3>9, <3>10 DEF Asked
    <3> QED
      BY <3>1, <3>2, <3>11, DeleteStepsAre
  <2>4. CASE UNCHANGED <<target, cleanup, settled>>
    BY <1>2, <1>6, <1>9, <2>4 DEF BeginDelete, Reading
  <2>5. CASE Log[m].version # NoVersion /\ StartDelete(Log[m].version)
    <3>1. Named(m, Log[m].version)
      BY <2>1 DEF Named
    <3> QED
      BY <2>2, <2>3, <2>5, <3>1
  <2>6. CASE Log[m].version = NoVersion /\ \E v \in Resolved(Log[m].path) : StartDelete(v)
    <3>1. PICK v \in Resolved(Log[m].path) : StartDelete(v)
      BY <2>6
    <3>2. v \in Version /\ Named(m, v)
      BY <2>1, <2>6, ResolvedIs DEF Named
    <3> QED
      BY <2>3, <3>1, <3>2
  <2> QED
    BY <1>9, <2>4, <2>5, <2>6 DEF BeginDelete, m
<1>10. CASE DeleteStep
  <2>1. cleanup # <<>> /\ cleanup' = Tail(cleanup) /\ UNCHANGED <<target, settled>>
        /\ (Tail(cleanup) # <<>> => outcome' = outcome)
    BY <1>10 DEF DeleteStep
  <2>2. cleanup' \in Seq(ToSet(DeleteSteps)) /\ Len(cleanup') <= 4
        /\ \A n \in 1..Len(cleanup') : cleanup'[n] = DeleteSteps[4 - Len(cleanup') + n]
    BY <2>1, CleanupIs
  <2>3. cleanup' # <<>> => \E i \in With("running") : Named(i, target) /\ outcome' = outcome
    BY <1>2, <2>1 DEF Asked
  <2>4. cleanup' # <<>> => target' \in Version /\ \E i \in With("running")' : Named(i, target')
    BY <1>2, <2>1, <2>3 DEF Asked, With
  <2>5. Asked'
    BY <1>3, <1>4, <2>1, <2>2, <2>4 DEF Asked, Named
  <2> QED
    BY <1>2, <2>1, <2>2, <2>5
<1> QED
  BY <1>2, <1>5, <1>6, <1>7, <1>8, <1>9, <1>10 DEF ConsumeStep, Enqueue, DeleteFails

\* A worker leaves the delete in hand alone.
LEMMA AskedWorker ==
  ASSUME Control, NEW w \in Workers, WorkerStep(w)
  PROVE  Asked' /\ UNCHANGED <<target, cleanup, settled>>
<1>1. UNCHANGED <<target, cleanup, settled>>
  BY DEF WorkerStep, TakeBatch, Write, Count, SummaryFails, BatchFails, EntitiesFail
<1>2. Moves /\ Asked
  BY WorkerMoves DEF Control
<1>3. \A i \in With("running") : Log[i].kind = "delete" => i \in With("running")'
  <2>1. ASSUME NEW i \in With("running"), Log[i].kind = "delete" PROVE outcome'[i] = outcome[i]
    <3>1. i \in DOMAIN Log /\ outcome[i] = "running" /\ i \notin batch[w]
      BY <2>1 DEF With, Control, InBatch
    <3> QED
      BY <3>1, WorkerMoves
  <2> QED
    BY <2>1 DEF With
<1>4. \A i : Named(i, target) => Log[i].kind = "delete"
  BY DEF Named
<1>5. /\ \A i \in DOMAIN Log : Log[i].kind = "delete" => outcome'[i] # "queued"
      /\ target \in Version =>
             \E i \in DOMAIN Log : /\ Log[i].kind = "delete" /\ outcome'[i] # "unread"
                                   /\ Log[i].version \in {target, NoVersion}
  BY <1>2, StaysRead DEF Asked, Moves
<1>6. Asked'
  BY <1>1, <1>2, <1>3, <1>4, <1>5 DEF Asked, Named
<1> QED
  BY <1>1, <1>6

\* The types of the parts are those of the state.
LEMMA TypesCombine ==
  ASSUME GraphFits', Moves,
         (\A w \in Workers : batch[w] = {} <=> todo[w] = <<>>)',
         cleanup' \in Seq(ToSet(DeleteSteps)), target' \in Version \cup {NoVersion},
         settled' \in BOOLEAN, counted' \subseteq Chunk, faults' \in 0..MaxFaults
  PROVE  TypeOK'
  BY DEF TypeOK, GraphFits, Moves, Outcomes

\* Every step keeps the control invariant.
LEMMA ControlStep == Control /\ [Next]_vars => Control'
<1> SUFFICES ASSUME Control, [Next]_vars PROVE Control'
  OBVIOUS
<1>1. /\ TypeOK /\ GraphFits
      /\ counted \subseteq Chunk /\ faults \in 0..MaxFaults /\ MaxFaults \in Nat
  BY GraphFitsControl, ConstantsAssumption DEF Control, TypeOK
<1>2. \A w \in Workers : batch[w] = {} <=> todo[w] = <<>>
  BY <1>1 DEF TypeOK
<1>3. ASSUME faults < MaxFaults, faults' = faults + 1 PROVE faults' \in 0..MaxFaults
  BY <1>1, <1>3
<1>4. CASE ConsumeStep
  <2>1. GraphFits' /\ OwnersFit'
    BY <1>4, SameGraph, DeleteGraph DEF ConsumeStep, Enqueue, BeginDelete, DeleteFails
  <2>2. UNCHANGED <<batch, todo, counted>>
    BY <1>4 DEF ConsumeStep, Enqueue, BeginDelete, DeleteStep, DeleteFails
  <2>3. faults' \in 0..MaxFaults
    BY <1>1, <1>3, <1>4 DEF ConsumeStep, Enqueue, BeginDelete, DeleteStep, DeleteFails
  <2>4. TodoFits'
    BY <2>2 DEF Control, TodoFits
  <2>5. ASSUME NEW w \in Workers, NEW i \in batch[w]
        PROVE  i \in DOMAIN Log /\ outcome'[i] = outcome[i] /\ Left(w)' = Left(w)
    <3>1. i \in DOMAIN Log /\ Log[i].kind # "delete" /\ outcome[i] # "unread"
      BY <2>5 DEF Control, InBatch
    <3>2. outcome'[i] = outcome[i]
      BY <1>4, <3>1, ConsumeMoves
    <3> QED
      BY <2>2, <3>1, <3>2 DEF Left
  <2>6. InBatch'
    BY <2>2, <2>5 DEF Control, InBatch
  <2>7. TypeOK'
    BY <1>1, <1>2, <1>4, <2>1, <2>2, <2>3, ConsumeMoves, AskedConsume, TypesCombine
  <2> QED
    BY <1>1, <1>4, <2>1, <2>4, <2>6, <2>7, AskedConsume DEF Control
<1>5. ASSUME NEW w \in Workers, WorkerStep(w) PROVE Control'
  <2>1. GraphFits' /\ OwnersFit'
    BY <1>5, SameGraph, WriteGraph DEF WorkerStep, TakeBatch, Count, SummaryFails, BatchFails, EntitiesFail
  <2>2. /\ Asked' /\ cleanup' \in Seq(ToSet(DeleteSteps))
        /\ target' \in Version \cup {NoVersion} /\ settled' \in BOOLEAN
    BY <1>1, <1>5, AskedWorker DEF TypeOK
  <2>3. ChunksIn(batch[w], "entities") \subseteq Chunk
    BY BatchParts
  <2>4. counted' \subseteq Chunk
    BY <1>1, <1>5, <2>3 DEF WorkerStep, TakeBatch, Write, Count, SummaryFails, BatchFails, EntitiesFail
  <2>5. faults' \in 0..MaxFaults
    BY <1>1, <1>3, <1>5 DEF WorkerStep, TakeBatch, Write, Count, SummaryFails, BatchFails, EntitiesFail
  <2>6. TypeOK'
    BY <1>1, <1>5, <2>1, <2>2, <2>4, <2>5, WorkerMoves, TodoStep, TypesCombine
  <2> QED
    BY <1>1, <1>5, <2>1, <2>2, <2>6, TodoStep DEF Control
<1>6. CASE UNCHANGED vars
  BY <1>6 DEF vars, graph, Control, TypeOK, TodoFits, InBatch, Asked, OwnersFit, With, Named, Left
<1> QED
  BY <1>4, <1>5, <1>6 DEF Next, Rests

\* The control invariant holds at first.
LEMMA ControlInit == Init => Control
<1> SUFFICES ASSUME Init PROVE Control
  OBVIOUS
<1>1. TypeOK
  <2>1. \A w \in Workers : batch[w] = {} /\ todo[w] = <<>>
    BY DEF Init
  <2>2. cleanup \in Seq(ToSet(DeleteSteps)) /\ target \in Version \cup {NoVersion}
    BY DEF Init
  <2>3. 0 \in 0..MaxFaults /\ faults = 0 /\ counted = {} /\ settled = FALSE
    BY ConstantsAssumption DEF Init
  <2>4. outcome \in [DOMAIN Log -> {"unread", "queued", "running", "done", "failed"}]
    BY DEF Init
  <2>5. /\ owner \in [Entity -> Version \cup {NoVersion}] /\ origin \in [Entity -> Path \cup {None}]
        /\ nodes = {} /\ edges = {} /\ \A e \in Entity : owner[e] = NoVersion
    BY DEF Init
  <2> QED
    BY <2>1, <2>2, <2>3, <2>4, <2>5 DEF TypeOK
<1>2. TodoFits
  BY EmptyEnd DEF Init, TodoFits
<1>3. InBatch
  BY DEF Init, InBatch
<1>4. Asked
  BY ConstantsAssumption DEF Init, Asked
<1>5. OwnersFit
  BY DEF Init, OwnersFit
<1> QED
  BY <1>1, <1>2, <1>3, <1>4, <1>5 DEF Control

-----------------------------------------------------------------------------
(* What a delete takes away.                                               *)

\* Only a delete's statement takes nodes away.
LEMMA OnlyDeletesShrink ==
  ASSUME Control, [Next]_vars
  PROVE  DeleteStep \/ (nodes \subseteq nodes' /\ edges \subseteq edges')
<1>1. CASE ConsumeStep
  BY <1>1, SameGraph DEF ConsumeStep, Enqueue, BeginDelete, DeleteFails
<1>2. ASSUME NEW w \in Workers, WorkerStep(w) PROVE nodes \subseteq nodes' /\ edges \subseteq edges'
  BY <1>2, SameGraph, WriteGraph DEF WorkerStep, TakeBatch, Count, SummaryFails, BatchFails, EntitiesFail
<1>3. CASE UNCHANGED vars
  BY <1>3 DEF vars, graph
<1> QED
  BY <1>1, <1>2, <1>3 DEF Next, Rests

\* What a step takes away of a file is named by a delete in hand.
LEMMA OwnFileOnly ==
  ASSUME Control, [Next]_vars, NEW v \in Version, FileNodes(v) \cap (nodes \ nodes') # {}
  PROVE  \E i \in With("running") : Named(i, v)
<1>1. PICK n \in FileNodes(v) : n \in nodes /\ n \notin nodes'
  OBVIOUS
<1>2. DeleteStep
  BY <1>1, OnlyDeletesShrink
<1>3. n \in Doomed(Head(cleanup), target)
  BY <1>1, <1>2, DeleteGraph
<1>4. v = target
  <2>1. CASE n = <<"Document", v>>
    BY <1>3, <2>1, DoomedAre
  <2>2. CASE \E c \in Chunk : VersionOf[c] = v /\ n \in {<<"DocumentChunk", c>>, <<"TextSummary", c>>}
    <3>1. PICK c \in Chunk : VersionOf[c] = v /\ (n = <<"DocumentChunk", c>> \/ n = <<"TextSummary", c>>)
      BY <2>2
    <3>2. CASE n = <<"DocumentChunk", c>>
      <4>1. <<"DocumentChunk", c>> \in Doomed(Head(cleanup), target)
        BY <1>3, <3>2
      <4> QED
        BY <3>1, <4>1, DoomedAre
    <3>3. CASE n = <<"TextSummary", c>>
      <4>1. <<"TextSummary", c>> \in Doomed(Head(cleanup), target)
        BY <1>3, <3>3
      <4> QED
        BY <3>1, <4>1, DoomedAre
    <3> QED
      BY <3>1, <3>2, <3>3
  <2> QED
    BY <1>1, <2>1, <2>2 DEF FileNodes
<1>5. \E i \in With("running") : Named(i, target)
  BY <1>2 DEF DeleteStep, Control, Asked
<1> QED
  BY <1>4, <1>5

\* The nodes of a file are written for one of its chunks.
LEMMA NewFileNodes ==
  ASSUME NEW B, NEW s
  PROVE  /\ \A v : <<"Document", v>> \in NewNodes(s, B) =>
                \E c \in ChunksIn(B, "entities") : VersionOf[c] = v
         /\ \A c : <<"DocumentChunk", c>> \in NewNodes(s, B) =>
                s = "DocumentChunk" /\ c \in ChunksIn(B, "entities")
         /\ \A c : <<"TextSummary", c>> \in NewNodes(s, B) =>
                s = "TextSummary" /\ c \in ChunksIn(B, "summary")
<1>1. CASE s = "TextSummary"
  BY <1>1 DEF NewNodes, SummaryNodes
<1>2. CASE s = "EntityType"
  BY <1>2 DEF NewNodes, EntityTypeNodes
<1>3. CASE s = "Entity"
  BY <1>3 DEF NewNodes, EntityNodes
<1>4. CASE s = "DocumentChunk"
  BY <1>4 DEF NewNodes, ChunkNodes
<1>5. CASE s = "Repository"
  BY <1>5 DEF NewNodes, RepositoryNode
<1>6. CASE s = "Document"
  BY <1>6 DEF NewNodes, DocumentNodes
<1>7. CASE s \notin {"TextSummary", "EntityType", "Entity", "DocumentChunk", "Repository", "Document"}
  BY <1>7 DEF NewNodes
<1> QED
  BY <1>1, <1>2, <1>3, <1>4, <1>5, <1>6, <1>7

\* Every step keeps a quiet delete's versions out, and what it removed.
LEMMA SweptStep ==
  ASSUME Control, Swept, [Next]_vars
  PROVE  Swept'
<1> SUFFICES ASSUME settled', cleanup' # <<>> PROVE Swept'
  BY DEF Swept
<1> DEFINE Quiet(v) == \A i \in With("queued") \cup With("running") :
                           Log[i].kind # "delete" => VersionOf[Log[i].chunk] # v
           Clean(N, n, v) ==
               /\ n <= 3 => <<"Document", v>> \notin N
               /\ \A c \in Chunk : VersionOf[c] = v =>
                      /\ n <= 2 => <<"DocumentChunk", c>> \notin N
                      /\ n <= 1 => <<"TextSummary", c>> \notin N
<1>1. outcome \in [DOMAIN Log -> Outcomes] /\ VersionOf \in [Chunk -> Version]
  BY ConstantsAssumption DEF Control, TypeOK, Outcomes
<1>2. CASE Enqueue \/ DeleteFails
  BY <1>2 DEF Enqueue, DeleteFails, Reading
<1>3. CASE BeginDelete
  <2>1. \E v : StartDelete(v)
    BY <1>3 DEF BeginDelete, Reading
  <2>2. PICK v : StartDelete(v)
    BY <2>1
  <2>3. target' = v /\ ~ InFlight(v) /\ cleanup' = DeleteSteps
    BY <2>2 DEF StartDelete
  <2>4. ASSUME NEW i \in With("queued")' \cup With("running")', Log[i].kind # "delete"
        PROVE  i \in With("queued") \cup With("running")
    <3>1. i \in DOMAIN Log /\ outcome'[i] \in {"queued", "running"}
      BY <2>4 DEF With
    <3>2. i # NextMessage /\ outcome' = Mark({NextMessage}, "running")
      BY <1>3, <2>2, <2>4 DEF BeginDelete, StartDelete
    <3>3. outcome'[i] = outcome[i]
      BY <3>1, <3>2, Marked DEF Control, Outcomes
    <3> QED
      BY <3>1, <3>3 DEF With
  <2>5. Quiet(v)'
    BY <2>3, <2>4 DEF InFlight, VersionIn
  <2>6. Len(cleanup') = 4
    BY <2>3, DeleteStepsAre
  <2> QED
    BY <2>3, <2>5, <2>6 DEF Swept
<1>4. CASE DeleteStep
  <2>1. /\ cleanup # <<>> /\ cleanup' = Tail(cleanup) /\ outcome' = outcome
        /\ target' = target /\ settled' = settled
    BY <1>4 DEF DeleteStep
  <2>2. Quiet(target) /\ Clean(nodes, Len(cleanup), target)
    BY <2>1 DEF Swept
  <2>3. /\ Len(cleanup) \in 1..4 /\ Len(cleanup') = Len(cleanup) - 1
        /\ Head(cleanup) = DeleteSteps[5 - Len(cleanup)]
    BY <2>1, CleanupIs
  <2>4. nodes' = nodes \ Doomed(Head(cleanup), target)
    BY <1>4, DeleteGraph
  <2> DEFINE n == Len(cleanup)
  <2>5. /\ n = 4 => Head(cleanup) = "Document"
        /\ n = 3 => Head(cleanup) = "DocumentChunk"
        /\ n = 2 => Head(cleanup) = "TextSummary"
    <3>1. /\ n = 4 => 5 - n = 1
          /\ n = 3 => 5 - n = 2
          /\ n = 2 => 5 - n = 3
      BY <2>3
    <3> QED
      BY <2>3, <3>1, DeleteStepsAre
  <2>6. /\ n = 4 => <<"Document", target>> \notin nodes'
        /\ \A c \in Chunk : VersionOf[c] = target =>
               /\ n = 3 => <<"DocumentChunk", c>> \notin nodes'
               /\ n = 2 => <<"TextSummary", c>> \notin nodes'
    BY <2>4, <2>5 DEF Doomed
  <2>7. n \in 1..4 /\ Len(cleanup') = n - 1 /\ nodes' \subseteq nodes
    BY <2>3, <2>4
  <2> HIDE DEF n
  <2>8. Clean(nodes, n, target)
    BY <2>2 DEF n
  <2>9. /\ n - 1 <= 3 <=> n = 4 \/ n <= 3
        /\ n - 1 <= 2 <=> n = 3 \/ n <= 2
        /\ n - 1 <= 1 <=> n = 2 \/ n <= 1
    BY <2>7
  <2>10. Clean(nodes', n - 1, target)
    BY <2>6, <2>7, <2>8, <2>9
  <2>11. Quiet(target)'
    BY <2>1, <2>2 DEF With
  <2> QED
    BY <2>1, <2>7, <2>10, <2>11 DEF Swept
<1>5. ASSUME NEW w \in Workers, WorkerStep(w) PROVE Swept'
  <2>1. UNCHANGED <<target, cleanup, settled>> /\ Moves
    BY <1>5, AskedWorker, WorkerMoves
  <2>2. Quiet(target) /\ Clean(nodes, Len(cleanup), target)
    BY <2>1 DEF Swept
  <2>3. ASSUME NEW i \in With("queued")' \cup With("running")', Log[i].kind # "delete"
        PROVE  i \in With("queued") \cup With("running")
    <3>1. i \in DOMAIN Log /\ outcome'[i] \in {"queued", "running"}
      BY <2>3 DEF With
    <3>2. outcome[i] \in {"queued", "running"}
      BY <2>1, <2>3, <3>1 DEF Moves, Reading
    <3> QED
      BY <3>1, <3>2 DEF With
  <2>4. Quiet(target)'
    BY <2>1, <2>2, <2>3
  <2>5. CASE ~ Write(w)
    <3>1. nodes' = nodes
      BY <1>5, <2>5 DEF WorkerStep, TakeBatch, Count, SummaryFails, BatchFails, EntitiesFail, graph
    <3> QED
      BY <2>1, <2>2, <2>4, <3>1 DEF Swept
  <2>6. CASE Write(w)
    <3> DEFINE s == Head(todo[w])
               B == batch[w]
    <3>1. nodes' = nodes \cup NewNodes(s, B) /\ todo[w] # <<>>
      BY <2>6 DEF Write
    <3>2. ASSUME NEW k \in {"entities", "summary"}, NEW c \in ChunksIn(B, k),
                 k = "summary" => s = "TextSummary"
          PROVE  VersionOf[c] # target
      <4>1. PICK i \in B : Log[i].kind = k /\ Log[i].chunk = c
        BY <3>2 DEF ChunksIn
      <4>2. s = "TextSummary" => Left(w) > EntityWidth(B)
        <5>1. "TextSummary" \in ToSet(SummarySteps)
          <6>1. 1 \in DOMAIN SummarySteps /\ SummarySteps[1] = "TextSummary"
            BY SummaryStepsAre
          <6> QED
            BY <6>1 DEF ToSet
        <5>2. s = "TextSummary" => ~ (Len(todo[w]) <= EntityWidth(B))
          BY <3>1, <5>1, BatchParts, HeadAt
        <5> QED
          BY <5>2, BatchParts, Widths DEF Left
      <4>3. i \in DOMAIN Log /\ outcome[i] = "running"
        BY <3>2, <4>1, <4>2 DEF Control, InBatch
      <4>4. i \in With("running")
        BY <4>3 DEF With
      <4> QED
        BY <2>2, <3>2, <4>1, <4>4
    <3> HIDE DEF s, B
    <3>3. /\ <<"Document", target>> \notin NewNodes(s, B)
          /\ \A c \in Chunk : VersionOf[c] = target =>
                 <<"DocumentChunk", c>> \notin NewNodes(s, B) /\ <<"TextSummary", c>> \notin NewNodes(s, B)
      BY <3>2, NewFileNodes
    <3>4. Clean(nodes', Len(cleanup'), target')
      BY <2>1, <2>2, <3>1, <3>3
    <3> QED
      BY <2>1, <2>4, <3>4 DEF Swept
  <2> QED
    BY <2>5, <2>6
<1>6. CASE UNCHANGED vars
  BY <1>6 DEF vars, graph, Swept, With
<1> QED
  BY <1>2, <1>3, <1>4, <1>5, <1>6 DEF Next, ConsumeStep, Rests

\* A quiet delete that ends without a failure has removed everything.
LEMMA SweptComplete ==
  ASSUME Control, Swept, [Next]_vars, cleanup # <<>>, cleanup' = <<>>, settled, faults' = faults
  PROVE  FileNodes(target) \cap nodes' = {}
<1>1. DeleteStep
  <2>1. ASSUME NEW w \in Workers, WorkerStep(w) PROVE FALSE
    BY <2>1, AskedWorker
  <2>2. ~ DeleteFails
    <3>1. faults \in Int
      BY ConstantsAssumption DEF Control, TypeOK
    <3>2. faults + 1 # faults
      BY <3>1
    <3> QED
      BY <3>2 DEF DeleteFails
  <2> QED
    BY <2>1, <2>2 DEF Next, ConsumeStep, Enqueue, BeginDelete, Reading, Rests, vars
<1>2. cleanup' = Tail(cleanup) /\ nodes' \subseteq nodes
  BY <1>1, DeleteGraph DEF DeleteStep
<1>3. Len(cleanup) = 1
  BY <1>2, CleanupIs
<1>4. /\ <<"Document", target>> \notin nodes
      /\ \A c \in Chunk : VersionOf[c] = target =>
             <<"DocumentChunk", c>> \notin nodes /\ <<"TextSummary", c>> \notin nodes
  BY <1>3 DEF Swept
<1>5. ASSUME NEW n \in FileNodes(target) PROVE n \notin nodes'
  <2>1. \/ n = <<"Document", target>>
        \/ \E c \in Chunk : /\ VersionOf[c] = target
                            /\ n = <<"DocumentChunk", c>> \/ n = <<"TextSummary", c>>
    BY <1>5 DEF FileNodes
  <2> QED
    BY <1>2, <1>4, <2>1
<1> QED
  BY <1>5

-----------------------------------------------------------------------------
(* The links between summaries and chunks.                                 *)

\* The statement that comes next, where the invariants need it.
LEMMA Places ==
  ASSUME NEW B, NEW t, EndOf(t, B), t # <<>>
  PROVE  /\ Head(t) = "TextSummary" => Len(t) = EntityWidth(B) + 4
         /\ Len(t) = EntityWidth(B) + 3 => Head(t) = "summarizes"
         /\ Len(t) = EntityWidth(B) + 2 => Head(t) = "summary_made_from"
         /\ Head(t) = "DocumentChunk" => Len(t) = 13 /\ EntityWidth(B) = 15
         /\ EntityWidth(B) = 15 =>
                /\ Len(t) = 14 => Head(t) = "Entity"
                /\ Len(t) = 13 => Head(t) = "DocumentChunk"
                /\ Len(t) = 12 => Head(t) = "backfill_summarizes"
                /\ Len(t) = 11 => Head(t) = "backfill_made_from"
                /\ Len(t) = 9 => Head(t) = "Document"
                /\ Len(t) = 8 => Head(t) = "chunk_document"
                /\ Len(t) = 5 => Head(t) = "contains"
                /\ Len(t) = 4 => Head(t) = "made_from"
                /\ Len(t) = 2 => Head(t) = "entity_document"
<1> DEFINE L == Len(t)
           width == EntityWidth(B)
           h == Head(t)
<1>1. L \in Nat /\ L # 0 /\ width \in {0, 15}
  BY Widths DEF EndOf
<1>2. \/ width = 15 /\ L <= 15 /\ h = EntitySteps[16 - L]
      \/ L > width /\ L <= width + 4 /\ h = SummarySteps[5 - (L - width)]
  BY HeadIs
<1> HIDE DEF L, width, h
<1>3. CASE width = 15 /\ L <= 15 /\ h = EntitySteps[16 - L]
  <2>1. L \in {1, 2, 3, 4, 5, 6, 7, 8, 9, 10, 11, 12, 13, 14, 15}
    BY <1>1, <1>3
  <2>2. /\ h = "TextSummary" => FALSE
        /\ h = "DocumentChunk" => L = 13
        /\ L = 14 => h = "Entity"
        /\ L = 13 => h = "DocumentChunk"
        /\ L = 12 => h = "backfill_summarizes"
        /\ L = 11 => h = "backfill_made_from"
        /\ L = 9 => h = "Document"
        /\ L = 8 => h = "chunk_document"
        /\ L = 5 => h = "contains"
        /\ L = 4 => h = "made_from"
        /\ L = 2 => h = "entity_document"
    BY <1>3, <2>1, EntityStepsAre
  <2>3. L # width + 3 /\ L # width + 2
    BY <1>1, <1>3
  <2> QED
    BY <1>3, <2>2, <2>3 DEF L, width, h
<1>4. CASE L > width /\ L <= width + 4 /\ h = SummarySteps[5 - (L - width)]
  <2>1. L - width \in {1, 2, 3, 4} /\ L = width + (L - width)
    BY <1>1, <1>4
  <2>2. /\ h \in {"TextSummary", "summarizes", "summary_made_from", "summary_document"}
        /\ h = "TextSummary" => L - width = 4
        /\ L - width = 3 => h = "summarizes"
        /\ L - width = 2 => h = "summary_made_from"
    BY <1>4, <2>1, SummaryStepsAre
  <2>3. h # "DocumentChunk"
    BY <2>2
  <2>4. /\ h = "TextSummary" => L = width + 4
        /\ L = width + 3 => h = "summarizes"
        /\ L = width + 2 => h = "summary_made_from"
    BY <1>1, <2>1, <2>2
  <2>5. width = 15 => L > 15
    BY <1>1, <1>4
  <2>6. width = 15 => L \notin {14, 13, 12, 11, 9, 8, 5, 4, 2}
    BY <1>1, <2>5
  <2> QED
    BY <2>3, <2>4, <2>6 DEF L, width, h
<1> QED
  BY <1>2, <1>3, <1>4

\* When one of several is done, something is left.
LEMMA NotLast ==
  ASSUME NEW S, NEW t \in Seq(S), NEW n \in Nat, Len(t) = n - 1, n > 1
  PROVE  t # <<>>
  OBVIOUS

\* A failure that is recorded stays.
LEMMA StaysSpoilt ==
  ASSUME Moves, NEW c, Spoilt(c)
  PROVE  Spoilt(c)'
<1>1. PICK i \in DOMAIN Log : /\ Log[i].kind \in {"entities", "summary"} /\ Log[i].chunk = c
                              /\ outcome[i] = "failed"
  BY DEF Spoilt
<1>2. outcome'[i] = "failed"
  BY <1>1 DEF Moves
<1> QED
  BY <1>1, <1>2 DEF Spoilt

\* The relationships of SummariesLinked, with their places in the two parts.
LinkPlace == {<<"summarizes", 2, 11>>, <<"made_from", 1, 10>>}

\* The worker that is to link runs the statement next, or is nearer to it.
LEMMA WriteLinks ==
  ASSUME Control, NEW w \in Workers, Write(w), NEW p \in LinkPlace, NEW c \in Chunk,
         \/ c \in ChunksIn(batch[w], "summary") /\ Left(w) > EntityWidth(batch[w]) + p[2]
         \/ c \in ChunksIn(batch[w], "entities") /\ Left(w) > p[3],
         <<"TextSummary", c>> \in nodes, <<"DocumentChunk", c>> \in nodes
  PROVE  Linked(p[1], c)' \/ ToLink(c, p[2], p[3])'
<1> DEFINE B == batch[w]
           width == EntityWidth(B)
           L == Left(w)
           h == Head(todo[w])
<1>1. p = <<"summarizes", 2, 11>> \/ p = <<"made_from", 1, 10>>
  BY DEF LinkPlace
<1>2. /\ todo[w] # <<>> /\ Advance(w, Tail(todo[w]))
      /\ edges' = edges \cup NewEdges(h, B)
  BY DEF Write
<1>3. Goes(w, Tail(todo[w])) /\ Len(Tail(todo[w])) = L - 1
  BY <1>2, AdvanceGoes
<1>4. /\ EndOf(todo[w], B) /\ L \in Nat /\ width \in {0, 15}
      /\ (width = 0 <=> ChunksIn(B, "entities") = {})
  BY BatchParts, Widths
<1>5. /\ L = width + 3 => h = "summarizes"
      /\ L = width + 2 => h = "summary_made_from"
      /\ width = 15 => (L = 12 => h = "backfill_summarizes") /\ (L = 11 => h = "backfill_made_from")
  BY <1>2, <1>4, Places DEF Left
<1>6. L > 1 => B = batch'[w] /\ Left(w)' = L - 1
  <2>1. batch \in [Workers -> SUBSET DOMAIN Log] /\ todo \in [Workers -> Seq(Statement)]
    BY DEF Control, InBatch
  <2>2. L > 1 => Tail(todo[w]) # <<>>
    <3>1. Tail(todo[w]) \in Seq(Statement)
      BY <1>2, <1>4, TailEnd DEF EndOf
    <3> QED
      BY <1>3, <1>4, <3>1, NotLast
  <2>3. todo' = [todo EXCEPT ![w] = Tail(todo[w])]
        /\ (Tail(todo[w]) # <<>> => batch' = [batch EXCEPT ![w] = batch[w]])
    BY <1>3 DEF Goes
  <2> QED
    BY <1>3, <2>1, <2>2, <2>3 DEF Left
<1> HIDE DEF L, width, h, B
<1>7. ASSUME c \in ChunksIn(B, "summary"), L > width + p[2]
      PROVE  Linked(p[1], c)' \/ ToLink(c, p[2], p[3])'
  <2>1. L > 1 /\ (L - 1 > width + p[2] \/ L = width + p[2] + 1)
    BY <1>1, <1>4, <1>7
  <2>2. CASE L - 1 > width + p[2]
    BY <1>6, <1>7, <2>1, <2>2 DEF ToLink, width, B
  <2>3. CASE L = width + p[2] + 1
    <3>1. \/ p[1] = "summarizes" /\ h = "summarizes"
          \/ p[1] = "made_from" /\ h = "summary_made_from"
      BY <1>1, <1>4, <1>5, <2>3
    <3>2. <<p[1], <<"TextSummary", c>>, <<"DocumentChunk", c>>>> \in Wanted(h, B)
      BY <1>7, <3>1 DEF Wanted, SummaryEdges
    <3> QED
      BY <1>2, <3>2 DEF NewEdges, Linked
  <2> QED
    BY <2>1, <2>2, <2>3
<1>8. ASSUME c \in ChunksIn(B, "entities"), L > p[3]
      PROVE  Linked(p[1], c)' \/ ToLink(c, p[2], p[3])'
  <2>1. L > 1 /\ (L - 1 > p[3] \/ L = p[3] + 1) /\ width = 15
    BY <1>1, <1>4, <1>8
  <2>2. CASE L - 1 > p[3]
    BY <1>6, <1>8, <2>1, <2>2 DEF ToLink, B
  <2>3. CASE L = p[3] + 1
    <3>1. \/ p[1] = "summarizes" /\ h = "backfill_summarizes"
          \/ p[1] = "made_from" /\ h = "backfill_made_from"
      BY <1>1, <1>5, <2>1, <2>3
    <3>2. <<p[1], <<"TextSummary", c>>, <<"DocumentChunk", c>>>> \in Wanted(h, B)
      BY <1>8, <3>1 DEF Wanted, BackfillEdges, SummaryEdges
    <3> QED
      BY <1>2, <3>2 DEF NewEdges, Linked
  <2> QED
    BY <2>1, <2>2, <2>3
<1> QED
  BY <1>7, <1>8 DEF L, width, B

\* A worker's failure is recorded of the message.
LEMMA FailLinks ==
  ASSUME Control, NEW w \in Workers, SummaryFails(w) \/ BatchFails(w) \/ EntitiesFail(w),
         NEW p \in LinkPlace, NEW c \in Chunk,
         \/ c \in ChunksIn(batch[w], "summary") /\ Left(w) > EntityWidth(batch[w]) + p[2]
         \/ c \in ChunksIn(batch[w], "entities") /\ Left(w) > p[3]
  PROVE  Spoilt(c)' \/ ToLink(c, p[2], p[3])'
<1>1. p = <<"summarizes", 2, 11>> \/ p = <<"made_from", 1, 10>>
  BY DEF LinkPlace
<1>2. /\ Left(w) \in Nat /\ EntityWidth(batch[w]) \in {0, 15}
      /\ EntityWidth(batch[w]) = 0 <=> ChunksIn(batch[w], "entities") = {}
  BY BatchParts, Widths
<1>3. CASE SummaryFails(w)
  <2>1. CASE c \in ChunksIn(batch[w], "summary")
    <3>1. PICK i \in batch[w] : Log[i].kind = "summary" /\ Log[i].chunk = c
      BY <2>1, ChunkMessage
    <3>2. i \in DOMAIN Log
      BY DEF Control, InBatch
    <3>3. outcome' = Mark({k \in batch[w] : Log[k].kind = "summary"}, "failed")
      BY <1>3 DEF SummaryFails
    <3>4. outcome'[i] = "failed"
      BY <3>1, <3>2, <3>3, Marked DEF Control, Outcomes
    <3> QED
      BY <3>1, <3>2, <3>4 DEF Spoilt
  <2>2. CASE c \in ChunksIn(batch[w], "entities")
    <3>1. EntityWidth(batch[w]) = 15
      BY <1>2, <2>2
    <3>2. Len(EntityPart(batch[w])) = 15 /\ EntityPart(batch[w]) # <<>>
      <4>1. Len(EntityPart(batch[w])) = 15 /\ EntityPart(batch[w]) \in Seq(Statement)
        BY <3>1, WholeEnd DEF EndOf
      <4>2. 16 \in Nat /\ 15 = 16 - 1 /\ 16 > 1
        OBVIOUS
      <4>3. Len(EntityPart(batch[w])) = 16 - 1
        BY <4>1, <4>2
      <4> QED
        BY <4>1, <4>2, <4>3, NotLast
    <3>3. batch \in [Workers -> SUBSET DOMAIN Log] /\ todo \in [Workers -> Seq(Statement)]
      BY DEF Control, InBatch
    <3>4. batch'[w] = batch[w] /\ todo'[w] = EntityPart(batch[w])
      BY <1>3, <3>2, <3>3 DEF SummaryFails
    <3>5. p[3] \in {10, 11}
      BY <1>1
    <3>6. Left(w)' = 15 /\ Left(w)' > p[3]
      <4>1. Left(w)' = Len(todo'[w])
        BY DEF Left
      <4> QED
        BY <3>2, <3>4, <3>5, <4>1
    <3> QED
      BY <2>2, <3>4, <3>6 DEF ToLink
  <2> QED
    BY <2>1, <2>2
<1>4. CASE EntitiesFail(w)
  <2>1. Left(w) <= EntityWidth(batch[w])
    BY <1>4, EntitiesFailGoes
  <2>2. c \in ChunksIn(batch[w], "entities")
    BY <1>1, <1>2, <2>1
  <2>3. PICK i \in batch[w] : Log[i].kind = "entities" /\ Log[i].chunk = c
    BY <2>2, ChunkMessage
  <2>4. i \in DOMAIN Log /\ outcome[i] = "running"
    BY <2>3 DEF Control, InBatch
  <2>5. outcome'[i] = "failed"
    BY <1>4, <2>3, <2>4 DEF EntitiesFail, With
  <2> QED
    BY <2>3, <2>4, <2>5 DEF Spoilt
<1>5. CASE BatchFails(w)
  <2>1. PICK i \in batch[w] : Log[i].kind \in {"entities", "summary"} /\ Log[i].chunk = c
    BY ChunkMessage
  <2>2. i \in DOMAIN Log /\ outcome' = Mark(batch[w], "failed")
    BY <1>5 DEF Control, InBatch, BatchFails
  <2>3. outcome'[i] = "failed"
    BY <2>1, <2>2, Marked DEF Control, Outcomes
  <2> QED
    BY <2>1, <2>2, <2>3 DEF Spoilt
<1> QED
  BY <1>3, <1>4, <1>5

\* A link that is owed is made, spoilt, or still owed after a worker's step.
LEMMA OwedStep ==
  ASSUME Control, NEW w \in Workers, WorkerStep(w), NEW p \in LinkPlace, NEW c \in Chunk,
         ToLink(c, p[2], p[3]), <<"TextSummary", c>> \in nodes, <<"DocumentChunk", c>> \in nodes
  PROVE  Linked(p[1], c)' \/ Spoilt(c)' \/ ToLink(c, p[2], p[3])'
<1>1. PICK x \in Workers :
         \/ c \in ChunksIn(batch[x], "summary") /\ Left(x) > EntityWidth(batch[x]) + p[2]
         \/ c \in ChunksIn(batch[x], "entities") /\ Left(x) > p[3]
  BY DEF ToLink
<1>2. batch \in [Workers -> SUBSET DOMAIN Log] /\ todo \in [Workers -> Seq(Statement)]
  BY DEF Control, InBatch
<1>3. CASE x # w
  <2>1. batch'[x] = batch[x] /\ todo'[x] = todo[x]
    BY <1>2, <1>3 DEF WorkerStep, TakeBatch, Write, Count, Advance, SummaryFails, BatchFails, EntitiesFail
  <2> QED
    BY <1>1, <2>1 DEF ToLink, Left
<1>4. CASE x = w
  <2>1. CASE TakeBatch(w)
    <3>1. batch[w] = {}
      BY <2>1 DEF TakeBatch
    <3> QED
      BY <1>1, <1>4, <3>1 DEF ChunksIn
  <2>2. CASE Write(w)
    BY <1>1, <1>4, <2>2, WriteLinks
  <2>3. CASE Count(w)
    <3>1. Left(w) = 1 /\ EntityWidth(batch[w]) = 15
      BY <2>3, BatchParts, HeadAt DEF Count, Left
    <3>2. p[3] \in {10, 11} /\ p[2] \in {1, 2}
      BY DEF LinkPlace
    <3> QED
      BY <1>1, <1>4, <3>1, <3>2
  <2>4. CASE SummaryFails(w) \/ BatchFails(w) \/ EntitiesFail(w)
    BY <1>1, <1>4, <2>4, FailLinks
  <2> QED
    BY <2>1, <2>2, <2>3, <2>4 DEF WorkerStep
<1> QED
  BY <1>3, <1>4

\* Whoever writes a node still has the links to make.
LEMMA FreshOwes ==
  ASSUME Control, NEW w \in Workers, Write(w), NEW p \in LinkPlace, NEW c \in Chunk,
         <<"TextSummary", c>> \in nodes' \ nodes \/ <<"DocumentChunk", c>> \in nodes' \ nodes
  PROVE  ToLink(c, p[2], p[3])'
<1>1. p[2] \in {1, 2} /\ p[3] \in {10, 11}
  BY DEF LinkPlace
<1>2. /\ todo[w] # <<>> /\ Advance(w, Tail(todo[w]))
      /\ nodes' = nodes \cup NewNodes(Head(todo[w]), batch[w])
  BY DEF Write
<1>3. Len(Tail(todo[w])) = Left(w) - 1
  BY <1>2, AdvanceGoes
<1>4. EndOf(todo[w], batch[w]) /\ Left(w) \in Nat /\ EntityWidth(batch[w]) \in {0, 15}
  BY BatchParts, Widths
<1>5. batch \in [Workers -> SUBSET DOMAIN Log] /\ todo \in [Workers -> Seq(Statement)]
  BY DEF Control, InBatch
<1>6. Left(w) > 1 => batch'[w] = batch[w] /\ Left(w)' = Left(w) - 1
  <2>1. Left(w) > 1 => Tail(todo[w]) # <<>>
    <3>1. Tail(todo[w]) \in Seq(Statement)
      BY <1>2, <1>4, TailEnd DEF EndOf
    <3> QED
      BY <1>3, <1>4, <3>1, NotLast
  <2> QED
    BY <1>2, <1>3, <1>5, <2>1 DEF Advance, Left
<1>7. CASE <<"TextSummary", c>> \in nodes' \ nodes
  <2>1. Head(todo[w]) = "TextSummary" /\ c \in ChunksIn(batch[w], "summary")
    BY <1>2, <1>7, NewFileNodes
  <2>2. Left(w) = EntityWidth(batch[w]) + 4
    BY <1>2, <1>4, <2>1, Places DEF Left
  <2>3. Left(w) > 1 /\ Left(w) - 1 > EntityWidth(batch[w]) + p[2]
    BY <1>1, <1>4, <2>2
  <2> QED
    BY <1>6, <2>1, <2>3 DEF ToLink
<1>8. CASE <<"DocumentChunk", c>> \in nodes' \ nodes
  <2>1. Head(todo[w]) = "DocumentChunk" /\ c \in ChunksIn(batch[w], "entities")
    BY <1>2, <1>8, NewFileNodes
  <2>2. Left(w) = 13
    BY <1>2, <1>4, <2>1, Places DEF Left
  <2>3. Left(w) > 1 /\ Left(w) - 1 > p[3]
    BY <1>1, <2>2
  <2> QED
    BY <1>6, <2>1, <2>3 DEF ToLink
<1> QED
  BY <1>7, <1>8

\* The two conjuncts of Links, for one place.
LinkKept(p) ==
    \A c \in Chunk :
        <<"TextSummary", c>> \in nodes /\ <<"DocumentChunk", c>> \in nodes =>
            Linked(p[1], c) \/ Spoilt(c) \/ ToLink(c, p[2], p[3])

\* Links, for both relationships at once.
LEMMA LinksByPlace == Links <=> \A p \in LinkPlace : LinkKept(p)
<1> DEFINE one == <<"summarizes", 2, 11>>
           two == <<"made_from", 1, 10>>
<1>1. (\A p \in LinkPlace : LinkKept(p)) <=> LinkKept(one) /\ LinkKept(two)
  BY DEF LinkPlace
<1>2. one[1] = "summarizes" /\ one[2] = 2 /\ one[3] = 11
  OBVIOUS
<1>3. two[1] = "made_from" /\ two[2] = 1 /\ two[3] = 10
  OBVIOUS
<1> HIDE DEF one, two
<1>4. Links <=> LinkKept(one) /\ LinkKept(two)
  BY <1>2, <1>3 DEF Links, LinkKept
<1> QED
  BY <1>1, <1>4

\* Every step keeps a link made, spoilt or owed.
LEMMA LinkKeptStep ==
  ASSUME Control, [Next]_vars, NEW p \in LinkPlace, LinkKept(p)
  PROVE  LinkKept(p)'
<1> SUFFICES ASSUME NEW c \in Chunk,
                    <<"TextSummary", c>> \in nodes', <<"DocumentChunk", c>> \in nodes'
             PROVE  Linked(p[1], c)' \/ Spoilt(c)' \/ ToLink(c, p[2], p[3])'
  BY DEF LinkKept
<1>1. CASE ConsumeStep
  <2>1. UNCHANGED <<batch, todo>> /\ Moves
    BY <1>1, ConsumeMoves DEF ConsumeStep, Enqueue, BeginDelete, DeleteStep, DeleteFails
  <2>2. /\ nodes' \subseteq nodes
        /\ \A x \in edges : x[2] \in nodes' /\ x[3] \in nodes' => x \in edges'
    <3>1. CASE DeleteStep
      BY <3>1, DeleteGraph
    <3>2. CASE ~ DeleteStep
      BY <1>1, <3>2, SameGraph DEF ConsumeStep, Enqueue, BeginDelete, DeleteFails
    <3> QED
      BY <3>1, <3>2
  <2>3. Linked(p[1], c) \/ Spoilt(c) \/ ToLink(c, p[2], p[3])
    BY <2>2 DEF LinkKept
  <2>4. CASE Linked(p[1], c)
    BY <2>2, <2>4 DEF Linked
  <2>5. CASE Spoilt(c)
    BY <2>1, <2>5, StaysSpoilt
  <2>6. CASE ToLink(c, p[2], p[3])
    BY <2>1, <2>6 DEF ToLink, Left
  <2> QED
    BY <2>3, <2>4, <2>5, <2>6
<1>2. ASSUME NEW w \in Workers, WorkerStep(w)
      PROVE  Linked(p[1], c)' \/ Spoilt(c)' \/ ToLink(c, p[2], p[3])'
  <2>1. Moves /\ nodes \subseteq nodes' /\ edges \subseteq edges'
    BY <1>2, WorkerMoves, SameGraph, WriteGraph DEF WorkerStep, TakeBatch, Count, SummaryFails, BatchFails, EntitiesFail
  <2>2. CASE <<"TextSummary", c>> \in nodes /\ <<"DocumentChunk", c>> \in nodes
    <3>1. Linked(p[1], c) \/ Spoilt(c) \/ ToLink(c, p[2], p[3])
      BY <2>2 DEF LinkKept
    <3>2. CASE Linked(p[1], c)
      BY <2>1, <3>2 DEF Linked
    <3>3. CASE Spoilt(c)
      BY <2>1, <3>3, StaysSpoilt
    <3>4. CASE ToLink(c, p[2], p[3])
      BY <1>2, <2>2, <3>4, OwedStep
    <3> QED
      BY <3>1, <3>2, <3>3, <3>4
  <2>3. CASE ~ (<<"TextSummary", c>> \in nodes /\ <<"DocumentChunk", c>> \in nodes)
    <3>1. nodes' # nodes
      BY <2>3
    <3>2. Write(w)
      BY <1>2, <3>1, SameGraph DEF WorkerStep, TakeBatch, Count, SummaryFails, BatchFails, EntitiesFail
    <3> QED
      BY <2>3, <3>2, FreshOwes
  <2> QED
    BY <2>2, <2>3
<1>3. CASE UNCHANGED vars
  BY <1>3 DEF vars, graph, LinkKept, Linked, Spoilt, ToLink, Left
<1> QED
  BY <1>1, <1>2, <1>3 DEF Next, Rests

\* When both messages were handled nothing is owed any more.
LEMMA LinksMeanLinked ==
  ASSUME Control, Links
  PROVE  SummariesLinked
<1> SUFFICES ASSUME NEW c \in Chunk, Handled("summary", c), Handled("entities", c),
                    <<"TextSummary", c>> \in nodes, <<"DocumentChunk", c>> \in nodes,
                    NEW r \in {"summarizes", "made_from"}
             PROVE  Linked(r, c)
  BY DEF SummariesLinked, Linked
<1>1. ~ Spoilt(c)
  BY DEF Spoilt, Handled
<1>2. ASSUME NEW s \in {1, 2}, NEW e \in {10, 11}, ToLink(c, s, e) PROVE FALSE
  <2>1. PICK w \in Workers :
           \/ c \in ChunksIn(batch[w], "summary") /\ Left(w) > EntityWidth(batch[w]) + s
           \/ c \in ChunksIn(batch[w], "entities") /\ Left(w) > e
    BY <1>2 DEF ToLink
  <2>2. Left(w) \in Nat /\ EntityWidth(batch[w]) \in {0, 15}
    BY BatchParts, Widths
  <2>3. PICK i \in batch[w] : /\ Log[i].chunk = c
                              /\ \/ Log[i].kind = "entities"
                                 \/ /\ Log[i].kind = "summary"
                                    /\ Left(w) > EntityWidth(batch[w])
    <3>1. CASE c \in ChunksIn(batch[w], "entities")
      BY <3>1, ChunkMessage
    <3>2. CASE c \in ChunksIn(batch[w], "summary") /\ Left(w) > EntityWidth(batch[w]) + s
      <4>1. Left(w) > EntityWidth(batch[w])
        BY <2>2, <3>2
      <4> QED
        BY <3>2, <4>1, ChunkMessage
    <3> QED
      BY <2>1, <3>1, <3>2
  <2>4. i \in DOMAIN Log /\ outcome[i] = "running"
    BY <2>3 DEF Control, InBatch
  <2> QED
    BY <2>3, <2>4 DEF Handled
<1> QED
  BY <1>1, <1>2 DEF Links

-----------------------------------------------------------------------------
(* What is written, and what only a delete takes away.                     *)

\* Every step moves messages forward.
LEMMA StepMoves ==
  ASSUME Control, [Next]_vars
  PROVE  Moves
<1>1. CASE UNCHANGED vars
  BY <1>1 DEF vars, Moves, Control, TypeOK, Outcomes
<1> QED
  BY <1>1, ConsumeMoves, WorkerMoves DEF Next, Rests

\* A delete that has begun has begun for good.
LEMMA StaysBegun ==
  ASSUME Control, [Next]_vars, NEW v \in Version, DeleteBegun(v)
  PROVE  DeleteBegun(v)'
<1>1. PICK i \in DOMAIN Log : /\ Log[i].kind = "delete" /\ outcome[i] # "unread"
                              /\ Log[i].version \in {v, NoVersion}
  BY DEF DeleteBegun, Control, Asked
<1>2. outcome'[i] # "unread"
  BY <1>1, StepMoves, StaysRead
<1> QED
  BY <1>1, <1>2 DEF DeleteBegun

\* So what may be missing may be missing for good.
LEMMA StaysGone ==
  ASSUME Control, [Next]_vars
  PROVE  /\ \A c \in Chunk : Gone(c) => Gone(c)'
         /\ \A e : Lost(e) => Lost(e)'
<1>1. \A c \in Chunk : VersionOf[c] \in Version
  BY ConstantsAssumption DEF Control
<1>2. \A c \in Chunk : Gone(c) => Gone(c)'
  BY <1>1, StaysBegun DEF Gone
<1> QED
  BY <1>2 DEF Lost

\* A node of a file stays, or the file's delete has begun; an entity, or the
\* delete of a file with it; and an edge stays with its ends.
LEMMA NodesStay ==
  ASSUME Control, [Next]_vars
  PROVE  /\ \A c \in Chunk : <<"DocumentChunk", c>> \in nodes =>
                <<"DocumentChunk", c>> \in nodes' \/ Gone(c)'
         /\ \A c \in Chunk : <<"Document", VersionOf[c]>> \in nodes =>
                <<"Document", VersionOf[c]>> \in nodes' \/ Gone(c)'
         /\ \A e \in Entity : <<"Entity", e>> \in nodes => <<"Entity", e>> \in nodes' \/ Lost(e)'
         /\ \A x \in edges : x[2] \in nodes' /\ x[3] \in nodes' => x \in edges'
<1>1. CASE ~ DeleteStep
  BY <1>1, OnlyDeletesShrink
<1>2. CASE DeleteStep
  <2> DEFINE gone == Doomed(Head(cleanup), target)
  <2>1. nodes' = nodes \ gone /\ edges' = {x \in edges : x[2] \in nodes' /\ x[3] \in nodes'}
    BY <1>2, DeleteGraph
  <2>2. \A c \in Chunk : VersionOf[c] = target => Gone(c)'
    BY StaysGone DEF Gone, DeleteBegun
  <2>3. /\ \A n \in gone : \E k : n = <<Head(cleanup), k>>
        /\ \A u : <<"Document", u>> \in gone => u = target
        /\ \A c \in Chunk : <<"DocumentChunk", c>> \in gone => VersionOf[c] = target
        /\ \A e : <<"Entity", e>> \in gone => (Head(cleanup) = "Entity" => owner[e] = target)
    BY DoomedAre
  <2> HIDE DEF gone
  <2>4. ASSUME NEW e \in Entity, <<"Entity", e>> \in nodes, <<"Entity", e>> \in gone
        PROVE  Lost(e)'
    <3>1. Head(cleanup) = "Entity"
      BY <2>3, <2>4
    <3>2. owner[e] = target
      BY <2>3, <2>4, <3>1
    <3>3. PICK c \in Chunk : e \in Extracted[c] /\ owner[e] = VersionOf[c]
      BY <2>4 DEF Control, OwnersFit
    <3> QED
      BY <2>2, <3>2, <3>3 DEF Lost
  <2>5. ASSUME NEW c \in Chunk
        PROVE  /\ <<"DocumentChunk", c>> \in gone => Gone(c)'
               /\ <<"Document", VersionOf[c]>> \in gone => Gone(c)'
    BY <2>2, <2>3
  <2> QED
    BY <2>1, <2>4, <2>5
<1> QED
  BY <1>1, <1>2

\* The edges of a chunk, with the same promise.
LEMMA EdgesStay ==
  ASSUME Control, [Next]_vars, NEW c \in Chunk
  PROVE  LET chunk == <<"DocumentChunk", c>>
             doc == <<"Document", VersionOf[c]>>
         IN /\ <<"is_part_of", chunk, doc>> \in edges =>
                   <<"is_part_of", chunk, doc>> \in edges' \/ Gone(c)'
            /\ \A e \in Lasting(c) :
                   LET entity == <<"Entity", e>> IN
                   /\ <<"contains", chunk, entity>> \in edges =>
                          <<"contains", chunk, entity>> \in edges' \/ Lost(e)'
                   /\ <<"made_from", entity, chunk>> \in edges =>
                          <<"made_from", entity, chunk>> \in edges' \/ Lost(e)'
                   /\ <<"is_part_of", entity, doc>> \in edges =>
                          <<"is_part_of", entity, doc>> \in edges' \/ Lost(e)'
<1> DEFINE chunk == <<"DocumentChunk", c>>
           doc == <<"Document", VersionOf[c]>>
           entity(e) == <<"Entity", e>>
<1>1. \A r, a, b : <<r, a, b>> \in edges => a \in nodes /\ b \in nodes
  <2>1. ASSUME NEW r, NEW a, NEW b, <<r, a, b>> \in edges PROVE a \in nodes /\ b \in nodes
    <3>1. <<r, a, b>>[2] = a /\ <<r, a, b>>[3] = b
      OBVIOUS
    <3> QED
      BY <2>1, <3>1 DEF Control, TypeOK
  <2> QED
    BY <2>1
<1>2. \A r, a, b : <<r, a, b>> \in edges /\ a \in nodes' /\ b \in nodes' => <<r, a, b>> \in edges'
  <2>1. ASSUME NEW r, NEW a, NEW b, <<r, a, b>> \in edges, a \in nodes', b \in nodes'
        PROVE  <<r, a, b>> \in edges'
    <3>1. <<r, a, b>>[2] = a /\ <<r, a, b>>[3] = b
      OBVIOUS
    <3> QED
      BY <2>1, <3>1, NodesStay
  <2> QED
    BY <2>1
<1>3. \A e \in Lasting(c) : e \in Entity /\ (Gone(c)' => Lost(e)')
  BY ConstantsAssumption DEF Control, Lost, Lasting
<1>4. /\ chunk \in nodes => chunk \in nodes' \/ Gone(c)'
      /\ doc \in nodes => doc \in nodes' \/ Gone(c)'
      /\ \A e \in Lasting(c) : entity(e) \in nodes => entity(e) \in nodes' \/ Lost(e)'
  BY <1>3, NodesStay
<1> HIDE DEF chunk, doc, entity
<1>5. <<"is_part_of", chunk, doc>> \in edges => <<"is_part_of", chunk, doc>> \in edges' \/ Gone(c)'
  BY <1>1, <1>2, <1>4
<1>6. ASSUME NEW e \in Lasting(c)
      PROVE  /\ <<"contains", chunk, entity(e)>> \in edges =>
                    <<"contains", chunk, entity(e)>> \in edges' \/ Lost(e)'
             /\ <<"made_from", entity(e), chunk>> \in edges =>
                    <<"made_from", entity(e), chunk>> \in edges' \/ Lost(e)'
             /\ <<"is_part_of", entity(e), doc>> \in edges =>
                    <<"is_part_of", entity(e), doc>> \in edges' \/ Lost(e)'
  BY <1>1, <1>2, <1>3, <1>4
<1> QED
  BY <1>5, <1>6 DEF chunk, doc, entity

\* What a worker has written is there after every step, or was deleted.
LEMMA WrittenStays ==
  ASSUME Control, [Next]_vars, NEW c \in Chunk, NEW n \in Nat, Written(c, n)
  PROVE  Written(c, n)'
<1> DEFINE chunk == <<"DocumentChunk", c>>
           doc == <<"Document", VersionOf[c]>>
           entity(e) == <<"Entity", e>>
<1>1. \A e \in Lasting(c) : e \in Entity
  BY ConstantsAssumption DEF Control, Lasting
<1>2. /\ n <= 12 => chunk \in nodes' \/ Gone(c)'
      /\ n <= 8 => doc \in nodes' \/ Gone(c)'
  BY StaysGone, NodesStay DEF Written
<1>3. n <= 7 => <<"is_part_of", chunk, doc>> \in edges' \/ Gone(c)'
  BY StaysGone, EdgesStay DEF Written
<1>4. ASSUME NEW e \in Lasting(c)
      PROVE  /\ n <= 13 => entity(e) \in nodes' \/ Lost(e)'
             /\ n <= 4 => <<"contains", chunk, entity(e)>> \in edges' \/ Lost(e)'
             /\ n <= 3 => <<"made_from", entity(e), chunk>> \in edges' \/ Lost(e)'
             /\ n <= 1 => <<"is_part_of", entity(e), doc>> \in edges' \/ Lost(e)'
  <2>1. n <= 13 => entity(e) \in nodes' \/ Lost(e)'
    BY <1>1, StaysGone, NodesStay DEF Written
  <2>2. n <= 4 => <<"contains", chunk, entity(e)>> \in edges' \/ Lost(e)'
    BY StaysGone, EdgesStay DEF Written
  <2>3. n <= 3 => <<"made_from", entity(e), chunk>> \in edges' \/ Lost(e)'
    BY StaysGone, EdgesStay DEF Written
  <2>4. n <= 1 => <<"is_part_of", entity(e), doc>> \in edges' \/ Lost(e)'
    BY StaysGone, EdgesStay DEF Written
  <2> QED
    BY <2>1, <2>2, <2>3, <2>4
<1> QED
  BY <1>2, <1>3, <1>4 DEF Written

\* Nothing is promised before the second statement of the entity part.
LEMMA NothingYet == ASSUME NEW c, NEW n \in Nat, n > 13 PROVE Written(c, n) /\ Written(c, n)'
<1>1. /\ ~ (n <= 13) /\ ~ (n <= 12) /\ ~ (n <= 8) /\ ~ (n <= 7) /\ ~ (n <= 4)
      /\ ~ (n <= 3) /\ ~ (n <= 1)
  OBVIOUS
<1> QED
  BY <1>1 DEF Written

\* One statement more.
LEMMA WritesOn ==
  ASSUME Control, [Next]_vars, NEW w \in Workers, Write(w),
         NEW c \in ChunksIn(batch[w], "entities"), NEW n \in Nat, n > 1, Left(w) = n, Written(c, n)
  PROVE  Written(c, n - 1)'
<1> DEFINE chunk == <<"DocumentChunk", c>>
           doc == <<"Document", VersionOf[c]>>
           entity(e) == <<"Entity", e>>
           h == Head(todo[w])
           B == batch[w]
<1>1. c \in Chunk /\ VersionOf[c] \in Version /\ PathOf[VersionOf[c]] \in Path
  BY BatchParts, ConstantsAssumption DEF Control
<1>2. \A e \in Lasting(c) : /\ e \in EntitiesIn(B) /\ e \in Mapped(c, B)
                            /\ Gone(c)' => Lost(e)'
  <2> SUFFICES ASSUME NEW e \in Lasting(c)
               PROVE  /\ e \in EntitiesIn(B) /\ e \in Mapped(c, B)
                      /\ Gone(c)' => Lost(e)'
    OBVIOUS
  <2>1. e \in OfferedIn(B) /\ e \in Extracted[c]
    BY DEF OfferedIn, Lasting
  <2>2. LastWriter(B, e) \in Chunk /\ e \in Extracted[LastWriter(B, e)]
    BY <2>1, BatchParts, LastWriterHas
  <2>3. Verdict[LastWriter(B, e), e] = "kept"
    BY <2>2 DEF Lasting
  <2> HIDE DEF B
  <2> QED
    BY <1>1, <2>1, <2>3 DEF EntitiesIn, Judged, Mapped, Lost
<1>3. nodes' = nodes \cup NewNodes(h, B) /\ edges' = edges \cup NewEdges(h, B) /\ todo[w] # <<>>
  BY DEF Write
<1>4. /\ n = 14 => h = "Entity"
      /\ n = 13 => h = "DocumentChunk"
      /\ n = 9 => h = "Document"
      /\ n = 8 => h = "chunk_document"
      /\ n = 5 => h = "contains"
      /\ n = 4 => h = "made_from"
      /\ n = 2 => h = "entity_document"
  <2>1. EndOf(todo[w], B) /\ EntityWidth(B) = 15
    BY BatchParts, Widths
  <2> QED
    BY <1>3, <2>1, Places DEF Left
<1>5. Written(c, n)'
  BY <1>1, WrittenStays
<1>6. /\ n <= 12 => chunk \in nodes \/ Gone(c)'
      /\ n <= 8 => doc \in nodes \/ Gone(c)'
      /\ \A e \in Lasting(c) : n <= 13 => entity(e) \in nodes \/ Lost(e)'
  BY <1>1, StaysGone DEF Written
<1>7. \A r, a, b : <<r, a, b>> \in Wanted(h, B) /\ a \in nodes /\ b \in nodes => <<r, a, b>> \in edges'
  <2>1. ASSUME NEW r, NEW a, NEW b, <<r, a, b>> \in Wanted(h, B), a \in nodes, b \in nodes
        PROVE  <<r, a, b>> \in edges'
    <3>1. <<r, a, b>>[2] = a /\ <<r, a, b>>[3] = b
      OBVIOUS
    <3>2. <<r, a, b>> \in NewEdges(h, B)
      BY <2>1, <3>1 DEF NewEdges
    <3> QED
      BY <1>3, <3>2
  <2> QED
    BY <2>1
<1> HIDE DEF h, B
<1>8. /\ h = "Entity" => \A e \in EntitiesIn(B) : entity(e) \in nodes'
      /\ h = "DocumentChunk" => chunk \in nodes'
      /\ h = "Document" => doc \in nodes'
  BY <1>3 DEF NewNodes, EntityNodes, ChunkNodes, DocumentNodes, B
<1>9. /\ h = "chunk_document" => <<"is_part_of", chunk, doc>> \in Wanted(h, B)
      /\ \A e \in Lasting(c) :
             /\ h = "contains" => <<"contains", chunk, entity(e)>> \in Wanted(h, B)
             /\ h = "made_from" => <<"made_from", entity(e), chunk>> \in Wanted(h, B)
             /\ h = "entity_document" => <<"is_part_of", entity(e), doc>> \in Wanted(h, B)
  <2>1. c \in ChunksIn(B, "entities")
    BY DEF B
  <2>2. SamePath(c, VersionOf[c])
    BY DEF SamePath
  <2>3. h = "chunk_document" => <<"is_part_of", chunk, doc>> \in Wanted(h, B)
    BY <1>1, <2>1, <2>2 DEF Wanted, ChunkDocumentEdges
  <2>4. ASSUME NEW e \in Lasting(c)
        PROVE  /\ h = "contains" => <<"contains", chunk, entity(e)>> \in Wanted(h, B)
               /\ h = "made_from" => <<"made_from", entity(e), chunk>> \in Wanted(h, B)
               /\ h = "entity_document" => <<"is_part_of", entity(e), doc>> \in Wanted(h, B)
    <3>1. h = "contains" => <<"contains", chunk, entity(e)>> \in Wanted(h, B)
      BY <1>2, <2>1 DEF Wanted, ContainsEdges
    <3>2. h = "made_from" => <<"made_from", entity(e), chunk>> \in Wanted(h, B)
      BY <1>2, <2>1 DEF Wanted, MadeFromEdges
    <3>3. <<"is_part_of", entity(e), doc>> \in PartOfDocument(entity(e), c)
      BY <1>1, <2>2 DEF PartOfDocument
    <3>4. h = "entity_document" => <<"is_part_of", entity(e), doc>> \in Wanted(h, B)
      BY <1>2, <2>1, <3>3 DEF Wanted, EntityDocumentEdges
    <3> QED
      BY <3>1, <3>2, <3>4
  <2> QED
    BY <2>3, <2>4
<1> HIDE DEF chunk, doc, entity
<1>10. /\ n - 1 <= 13 => n = 14 \/ n <= 13
       /\ n - 1 <= 12 => n = 13 \/ n <= 12
       /\ n - 1 <= 8 => n = 9 \/ n <= 8
       /\ n - 1 <= 7 => n = 8 \/ n <= 7
       /\ n - 1 <= 4 => n = 5 \/ n <= 4
       /\ n - 1 <= 3 => n = 4 \/ n <= 3
       /\ n - 1 <= 1 => n = 2
       /\ n = 8 => n <= 12 /\ n <= 8
       /\ n = 5 => n <= 13 /\ n <= 12
       /\ n = 4 => n <= 13 /\ n <= 12
       /\ n = 2 => n <= 13 /\ n <= 8
  OBVIOUS
<1>11. /\ n <= 12 => chunk \in nodes' \/ Gone(c)'
       /\ n <= 8 => doc \in nodes' \/ Gone(c)'
       /\ n <= 7 => <<"is_part_of", chunk, doc>> \in edges' \/ Gone(c)'
       /\ \A e \in Lasting(c) :
              /\ n <= 13 => entity(e) \in nodes' \/ Lost(e)'
              /\ n <= 4 => <<"contains", chunk, entity(e)>> \in edges' \/ Lost(e)'
              /\ n <= 3 => <<"made_from", entity(e), chunk>> \in edges' \/ Lost(e)'
  BY <1>5 DEF Written, chunk, doc, entity
<1>12. /\ n - 1 <= 12 => chunk \in nodes' \/ Gone(c)'
       /\ n - 1 <= 8 => doc \in nodes' \/ Gone(c)'
  BY <1>4, <1>8, <1>10, <1>11
<1>13. n - 1 <= 7 => <<"is_part_of", chunk, doc>> \in edges' \/ Gone(c)'
  BY <1>4, <1>6, <1>7, <1>9, <1>10, <1>11
<1>14. ASSUME NEW e \in Lasting(c)
       PROVE  /\ n - 1 <= 13 => entity(e) \in nodes' \/ Lost(e)'
              /\ n - 1 <= 4 => <<"contains", chunk, entity(e)>> \in edges' \/ Lost(e)'
              /\ n - 1 <= 3 => <<"made_from", entity(e), chunk>> \in edges' \/ Lost(e)'
              /\ n - 1 <= 1 => <<"is_part_of", entity(e), doc>> \in edges' \/ Lost(e)'
  <2>1. n - 1 <= 13 => entity(e) \in nodes' \/ Lost(e)'
    BY <1>2, <1>4, <1>8, <1>10, <1>11
  <2>2. n - 1 <= 4 => <<"contains", chunk, entity(e)>> \in edges' \/ Lost(e)'
    BY <1>2, <1>4, <1>6, <1>7, <1>9, <1>10, <1>11
  <2>3. n - 1 <= 3 => <<"made_from", entity(e), chunk>> \in edges' \/ Lost(e)'
    BY <1>2, <1>4, <1>6, <1>7, <1>9, <1>10, <1>11
  <2>4. n - 1 <= 1 => <<"is_part_of", entity(e), doc>> \in edges' \/ Lost(e)'
    BY <1>2, <1>4, <1>6, <1>7, <1>9, <1>10
  <2> QED
    BY <2>1, <2>2, <2>3, <2>4
<1> QED
  BY <1>12, <1>13, <1>14 DEF Written, chunk, doc, entity

\* Every worker has written what is due by now.
LEMMA ProgressStep ==
  ASSUME Control, Progress, [Next]_vars
  PROVE  Progress'
<1> SUFFICES ASSUME NEW x \in Workers, NEW n \in Nat, Left(x)' = n,
                    NEW c \in ChunksIn(batch'[x], "entities")
             PROVE  Written(c, n)'
  BY DEF Progress, ChunksIn
<1>1. batch \in [Workers -> SUBSET DOMAIN Log] /\ todo \in [Workers -> Seq(Statement)]
  BY DEF Control, InBatch
<1>2. Left(x) \in Nat
  BY BatchParts
<1>3. ASSUME batch'[x] = batch[x], todo'[x] = todo[x] PROVE Written(c, n)'
  <2>1. Left(x) = n
    BY <1>3 DEF Left
  <2>2. c \in Chunk /\ Written(c, n)
    BY <1>3, <2>1, BatchParts DEF Progress
  <2> QED
    BY <2>2, WrittenStays
<1>4. CASE ConsumeStep \/ UNCHANGED vars
  BY <1>3, <1>4 DEF ConsumeStep, Enqueue, BeginDelete, DeleteStep, DeleteFails, vars
<1>5. ASSUME NEW w \in Workers, WorkerStep(w) PROVE Written(c, n)'
  <2>1. CASE x # w
    <3>1. batch'[x] = batch[x] /\ todo'[x] = todo[x]
      BY <1>1, <1>5, <2>1 DEF WorkerStep, TakeBatch, Write, Count, Advance, SummaryFails, BatchFails, EntitiesFail
    <3> QED
      BY <1>3, <3>1
  <2>2. CASE x = w
    <3>1. batch'[w] # {}
      BY <2>2 DEF ChunksIn
    <3>2. CASE TakeBatch(w)
      <4>1. PICK B \in ReadyBatches :
                /\ batch' = [batch EXCEPT ![w] = B] /\ todo' = [todo EXCEPT ![w] = StepsFor(B)]
                /\ Len(StepsFor(B)) = EntityWidth(B) + SummaryWidth(B)
        BY <3>2, TakeStarts
      <4>2. batch'[w] = B /\ todo'[w] = StepsFor(B)
        BY <1>1, <4>1
      <4>3. EntityWidth(B) = 15 /\ SummaryWidth(B) \in {0, 4}
        BY <2>2, <4>2, Widths
      <4>4. n = Len(todo'[w])
        BY <2>2 DEF Left
      <4>5. n > 13
        BY <4>1, <4>2, <4>3, <4>4
      <4> QED
        BY <4>5, NothingYet
    <3>3. CASE Write(w)
      <4>1. Advance(w, Tail(todo[w])) /\ todo[w] # <<>>
        BY <3>3 DEF Write
      <4>2. Len(Tail(todo[w])) = Left(w) - 1 /\ Goes(w, Tail(todo[w]))
        BY <4>1, AdvanceGoes
      <4>3. todo'[w] = Tail(todo[w]) /\ Tail(todo[w]) # <<>> /\ batch'[w] = batch[w]
        BY <1>1, <3>1, <4>1 DEF Advance
      <4>4. n = Len(todo'[w])
        BY <2>2 DEF Left
      <4>5. n = Left(w) - 1 /\ n # 0
        <5>1. Tail(todo[w]) \in Seq(Statement)
          BY <4>2 DEF Goes, EndOf
        <5>2. Len(Tail(todo[w])) # 0
          BY <4>3, <5>1, EmptySeq
        <5> QED
          BY <4>2, <4>3, <4>4, <5>2
      <4> DEFINE m == Left(w)
      <4>6. m \in Nat /\ m > 1 /\ m - 1 = n
        BY <1>2, <2>2, <4>5
      <4>7. c \in ChunksIn(batch[w], "entities")
        BY <2>2, <4>3
      <4>8. PICK k \in Nat : k = Left(w) /\ k > 1 /\ k - 1 = n
        BY <4>6
      <4>9. Written(c, k)
        BY <4>7, <4>8 DEF Progress
      <4>10. Written(c, k - 1)'
        BY <3>3, <4>7, <4>8, <4>9, WritesOn
      <4> QED
        BY <4>8, <4>10
    <3>4. CASE Count(w) \/ BatchFails(w) \/ EntitiesFail(w)
      <4>1. CASE Count(w)
        <5>1. Advance(w, Tail(todo[w])) /\ todo[w] # <<>> /\ Left(w) = 1
          BY <4>1, BatchParts, HeadAt DEF Count, Left
        <5>2. Tail(todo[w]) \in Seq(Statement) /\ Len(Tail(todo[w])) = Left(w) - 1
          BY <5>1, AdvanceGoes DEF Goes, EndOf
        <5>3. Len(Tail(todo[w])) = 0
          BY <5>1, <5>2
        <5>4. Tail(todo[w]) = <<>>
          BY <5>2, <5>3, EmptySeq
        <5> QED
          BY <1>1, <3>1, <5>1, <5>4 DEF Advance
      <4>2. CASE BatchFails(w) \/ EntitiesFail(w)
        BY <1>1, <3>1, <4>2 DEF BatchFails, EntitiesFail
      <4> QED
        BY <3>4, <4>1, <4>2
    <3>5. CASE SummaryFails(w)
      <4>1. batch'[w] = batch[w] /\ todo'[w] = EntityPart(batch[w])
        BY <1>1, <3>1, <3>5 DEF SummaryFails
      <4>2. Len(EntityPart(batch[w])) = 15
        BY <2>2, <4>1, Widths, WholeEnd
      <4>3. n = Len(EntityPart(batch[w]))
        BY <2>2, <4>1 DEF Left
      <4>4. n > 13
        BY <4>2, <4>3
      <4> QED
        BY <4>4, NothingYet
    <3> QED
      BY <1>5, <3>2, <3>3, <3>4, <3>5 DEF WorkerStep
  <2> QED
    BY <2>1, <2>2
<1> QED
  BY <1>4, <1>5 DEF Next, Rests

\* What CountedMeansStored says of a counted chunk.
Stored(c) ==
    LET doc == <<"Document", VersionOf[c]>>
        chunk == <<"DocumentChunk", c>>
    IN \/ Gone(c)
       \/ /\ <<"is_part_of", chunk, doc>> \in edges
          /\ \A e \in Lasting(c) :
                \/ /\ <<"contains", chunk, <<"Entity", e>>>> \in edges
                   /\ <<"made_from", <<"Entity", e>>, chunk>> \in edges
                   /\ <<"is_part_of", <<"Entity", e>>, doc>> \in edges
                \/ Lost(e)

\* CountedMeansStored, chunk by chunk.
LEMMA CountedAre == CountedMeansStored <=> \A c \in counted : Stored(c)
  BY DEF CountedMeansStored, Stored, Gone, Lost

\* What is stored stays stored, or is deleted.
LEMMA StoredStays ==
  ASSUME Control, [Next]_vars, NEW c \in Chunk, Stored(c)
  PROVE  Stored(c)'
<1> DEFINE doc == <<"Document", VersionOf[c]>>
           chunk == <<"DocumentChunk", c>>
<1>1. CASE Gone(c)
  BY <1>1, StaysGone DEF Stored
<1>2. CASE ~ Gone(c)
  <2>1. <<"is_part_of", chunk, doc>> \in edges' \/ Gone(c)'
    BY <1>2, EdgesStay DEF Stored
  <2>2. ASSUME NEW e \in Lasting(c)
        PROVE  \/ /\ <<"contains", chunk, <<"Entity", e>>>> \in edges'
                  /\ <<"made_from", <<"Entity", e>>, chunk>> \in edges'
                  /\ <<"is_part_of", <<"Entity", e>>, doc>> \in edges'
               \/ Lost(e)'
    <3>1. CASE Lost(e)
      BY <3>1, StaysGone
    <3>2. CASE ~ Lost(e)
      BY <1>2, <3>2, EdgesStay DEF Stored
    <3> QED
      BY <3>1, <3>2
  <2> QED
    BY <2>1, <2>2 DEF Stored
<1> QED
  BY <1>1, <1>2

\* With one statement left everything of a chunk is stored.
LEMMA WrittenStored ==
  ASSUME NEW c, Written(c, 1)
  PROVE  Stored(c)
<1>1. 1 <= 7 /\ 1 <= 4 /\ 1 <= 3 /\ 1 <= 1
  OBVIOUS
<1> QED
  BY <1>1 DEF Written, Stored

\* A worker counts chunks that are stored.
LEMMA CountedStep ==
  ASSUME Control, Progress, CountedMeansStored, [Next]_vars
  PROVE  CountedMeansStored'
<1>1. counted \subseteq Chunk
  BY DEF Control, TypeOK
<1>2. \A c \in counted : Stored(c)
  BY CountedAre
<1>3. ASSUME NEW w \in Workers, WorkerStep(w), NEW c \in counted' \ counted
      PROVE  c \in Chunk /\ Stored(c)
  <2>1. /\ c \in ChunksIn(batch[w], "entities") /\ todo[w] # <<>>
        /\ Head(todo[w]) = "count"
    BY <1>3 DEF WorkerStep, TakeBatch, Write, Count, SummaryFails, BatchFails, EntitiesFail
  <2>2. Left(w) = 1
    BY <2>1, BatchParts, HeadAt DEF Left
  <2>3. c \in Chunk /\ Written(c, 1)
    BY <2>1, <2>2, BatchParts DEF Progress
  <2> QED
    BY <2>3, WrittenStored
<1>4. ConsumeStep \/ UNCHANGED vars => counted' = counted
  BY DEF ConsumeStep, Enqueue, BeginDelete, DeleteStep, DeleteFails, vars
<1>5. \A c \in counted' : c \in Chunk /\ Stored(c)
  <2> SUFFICES ASSUME NEW c \in counted' PROVE c \in Chunk /\ Stored(c)
    OBVIOUS
  <2>1. CASE c \in counted
    BY <1>1, <1>2, <2>1
  <2>2. CASE c \notin counted
    BY <1>3, <1>4, <2>2 DEF Next, Rests
  <2> QED
    BY <2>1, <2>2
<1>6. \A c \in counted' : Stored(c)'
  BY <1>5, StoredStays
<1>7. (\A c \in counted : Stored(c))'
  BY <1>6
<1> QED
  BY <1>7, CountedAre, PTL

-----------------------------------------------------------------------------
(* The theorems.                                                           *)

Inv == Control /\ Swept /\ Links /\ Progress /\ CountedMeansStored

\* The inductive invariant.
LEMMA InvHolds == Spec => []Inv
<1>1. Init => Inv
  <2> SUFFICES ASSUME Init PROVE Inv
    OBVIOUS
  <2>1. Control
    BY ControlInit
  <2>2. nodes = {} /\ cleanup = <<>> /\ counted = {} /\ \A w \in Workers : batch[w] = {}
    BY DEF Init
  <2>3. Swept /\ Links /\ CountedMeansStored
    BY <2>2 DEF Swept, Links, CountedMeansStored
  <2>4. Progress
    BY <2>2 DEF Progress, ChunksIn
  <2> QED
    BY <2>1, <2>3, <2>4 DEF Inv
<1>2. Inv /\ [Next]_vars => Inv'
  <2> SUFFICES ASSUME Inv, [Next]_vars PROVE Inv'
    OBVIOUS
  <2>1. Control' /\ Swept' /\ Progress' /\ CountedMeansStored'
    BY ControlStep, SweptStep, ProgressStep, CountedStep DEF Inv
  <2>2. \A p \in LinkPlace : LinkKept(p)'
    BY LinksByPlace, LinkKeptStep DEF Inv
  <2>3. (\A p \in LinkPlace : LinkKept(p))'
    BY <2>2 DEF LinkPlace
  <2>4. Links'
    BY <2>3, LinksByPlace, PTL
  <2> QED
    BY <2>1, <2>4 DEF Inv
<1> QED
  BY <1>1, <1>2, PTL DEF Spec

\* The graph is well formed, whatever the consumer and the workers interleave: no
\* relationship dangles, and an entity node has a version exactly while it exists
\* (writer.py's MERGE, MATCH and DETACH DELETE statements).
THEOREM TypeCorrect == Spec => []TypeOK
<1>1. Inv => TypeOK
  BY DEF Inv, Control
<1> QED
  BY <1>1, InvHolds, PTL

\* When both sides of a chunk were handled without a failure and both nodes are
\* there, both relationships between them are (the edges of _process_summary_batch
\* and the backfill of _process_batch).
THEOREM SummariesLinkedHolds == Spec => []SummariesLinked
<1>1. Inv => SummariesLinked
  BY LinksMeanLinked DEF Inv
<1> QED
  BY <1>1, InvHolds, PTL

\* A chunk counted in chunks_processed is in the graph with its document, its
\* entities but those that some event keeps out, and all their edges, unless a
\* delete took them (the order of
\* _process_batch: writes first, counters last).
THEOREM CountedMeansStoredHolds == Spec => []CountedMeansStored
<1>1. Inv => CountedMeansStored
  BY DEF Inv
<1> QED
  BY <1>1, InvHolds, PTL

\* A delete that begins with nothing of its version in flight and does not fail
\* leaves no node of the version (delete_by_file_version_id).
THEOREM DeleteIsCompleteHolds == Spec => DeleteIsComplete
<1>1. Inv /\ [Next]_vars => [cleanup # <<>> /\ cleanup' = <<>> /\ settled /\ faults' = faults
                                    => FileNodes(target) \cap nodes' = {}]_vars
  BY SweptComplete DEF Inv
<1> QED
  BY <1>1, InvHolds, PTL DEF Spec, DeleteIsComplete

\* A delete removes file nodes only of a version that some running delete event
\* names, or may stand for by its path (resolve_file_version_id).
THEOREM DeletesOnlyItsFileHolds == Spec => DeletesOnlyItsFile
<1>1. Inv /\ [Next]_vars =>
        [\A v \in Version :
            FileNodes(v) \cap (nodes \ nodes') # {} =>
                \E i \in With("running") :
                    /\ Log[i].kind = "delete"
                    /\ \/ Log[i].version = v
                       \/ /\ Log[i].version = NoVersion
                          /\ PathOf[v] = Log[i].path \/ Shares(v, Log[i].path)]_vars
  BY OwnFileOnly DEF Inv, Named
<1> QED
  BY <1>1, InvHolds, PTL DEF Spec, DeletesOnlyItsFile
=============================================================================
