---------------------------- MODULE DocumentIndex ----------------------------
(***************************************************************************)
(* Brain content from the gRPC call to the chunk topic.  The servicer      *)
(* (cognee_service/brain_content) changes a row in Postgres and then       *)
(* publishes a BrainEvent, fire and forget; the document preprocessor      *)
(* consumes brain_events one message at a time and turns a change into     *)
(* chunk and delete messages on enriched-code-chunks.                      *)
(*                                                                         *)
(* That topic is modelled by what the stores hold once they have read it:  *)
(* a delete removes what was published for the document before.  Both      *)
(* topics are taken in order, as they are for one key, or with the single  *)
(* partition the compose file's broker creates; QdrantStorage and          *)
(* GraphStorage say what reordering in the stores does.  Nothing but its   *)
(* content hash is read back from a stored version: document_chunks is     *)
(* left out.                                                               *)
(***************************************************************************)
EXTENDS Integers, Sequences, FiniteSets, SequencesExt

CONSTANTS
    Doc,        \* ids of knowledge, expertise and lesson rows
    Text,       \* contents, told apart by their hash
    Blank,      \* those that chunk_document finds empty
    Rpc,        \* gRPC calls in flight
    Chunks,     \* chunks of a document
    CacheSize,  \* idempotency_cache_size
    MaxCalls,   \* bound on calls that change a row
    MaxFaults   \* bound on failures, crashes and repeated sends

ASSUME ConstantsAssumption ==
    /\ Blank \subseteq Text /\ Text # {}
    /\ Text \cap {"absent", "gone", "kept"} = {}   \* not contents
    /\ {Chunks, CacheSize} \subseteq Nat \ {0}
    /\ {MaxCalls, MaxFaults} \subseteq Nat

VARIABLES
    rows,      \* content of each brain_* row, "absent" before and "gone" after
    call,      \* each call in flight
    calls,     \* calls so far
    overlaps,  \* documents that two calls were changing at once
    events,    \* brain_events
    pos,       \* next event the consumer takes
    committed, \* committed offset
    work,      \* the event in hand and how far it got
    recent,    \* _processed_ids
    versions,  \* content hashes in document_versions, latest last
    stored,    \* contents of the chunks published since the last delete
    faults     \* failures so far, by kind

brain == <<rows, call, calls, overlaps>>
consumer == <<pos, committed, work, recent>>
vars == <<brain, events, consumer, versions, stored, faults>>

Action == {"create", "update", "delete"}
Idle == [phase |-> "idle"]
Kept == "kept"   \* an update that leaves the content alone
\* loud: an error is returned or raised; swallowed: logged and passed over;
\* cut: a crash with an event in hand; replay: a crash between two events, or
\* an event sent twice
Kind == {"loud", "swallowed", "cut", "replay"}
Failures == faults["loud"] + faults["swallowed"] + faults["cut"]

Init ==
    /\ rows = [d \in Doc |-> "absent"] /\ call = [r \in Rpc |-> Idle]
    /\ calls = 0 /\ overlaps = {}
    /\ events = <<>> /\ pos = 1 /\ committed = 1
    /\ work = Idle /\ recent = <<>>
    /\ versions = [d \in Doc |-> <<>>] /\ stored = [d \in Doc |-> <<>>]
    /\ faults = [k \in Kind |-> 0]

Fault(k) ==
    /\ Failures + faults["replay"] < MaxFaults
    /\ faults' = [faults EXCEPT ![k] = @ + 1]

-----------------------------------------------------------------------------
(* BrainContentServicer: read, write, publish.                             *)

Busy(d) == \E r \in Rpc : call[r] # Idle /\ call[r].doc = d

Begin(r, c) ==
    /\ call[r] = Idle /\ calls < MaxCalls
    /\ calls' = calls + 1
    /\ call' = [call EXCEPT ![r] = c]
    /\ overlaps' = IF Busy(c.doc) THEN overlaps \cup {c.doc} ELSE overlaps

\* AddToBrain: the insert chooses the id
Add(r, d, t) ==
    /\ rows[d] = "absent"
    /\ Begin(r, [phase |-> "publish", action |-> "create", doc |-> d, text |-> t])
    /\ rows' = [rows EXCEPT ![d] = t]
    /\ UNCHANGED <<events, consumer, versions, stored, faults>>

\* UpdateBrain and DeleteFromBrain read the row, and answer NOT_FOUND without it
Request(r, a, d, t) ==
    /\ rows[d] \in Text
    /\ Begin(r, [phase |-> "write", action |-> a, doc |-> d, text |-> t])
    /\ UNCHANGED <<rows, events, consumer, versions, stored, faults>>

Update(r, d, t) == Request(r, "update", d, t)
Delete(r, d) == Request(r, "delete", d, Kept)

\* an update that names no field writes nothing, and publishes the row it read
Repeat(r, d) ==
    /\ rows[d] \in Text
    /\ Begin(r, [phase |-> "publish", action |-> "update", doc |-> d, text |-> rows[d]])
    /\ UNCHANGED <<rows, events, consumer, versions, stored, faults>>

\* update_item and delete_item return the row as they leave or found it, or
\* nothing when another call deleted it
Write(r) ==
    LET c == call[r]
        d == c.doc
        t == IF c.text = Kept THEN rows[d] ELSE c.text
    IN  /\ c.phase = "write"
        /\ IF rows[d] = "gone"
           THEN call' = [call EXCEPT ![r] = Idle] /\ UNCHANGED rows
           ELSE /\ rows' = [rows EXCEPT ![d] = IF c.action = "delete" THEN "gone" ELSE t]
                /\ call' = [call EXCEPT ![r] = [c EXCEPT !.phase = "publish", !.text = t]]
        /\ UNCHANGED <<calls, overlaps, events, consumer, versions, stored, faults>>

Event(c) == [id |-> Len(events) + 1, action |-> c.action, doc |-> c.doc, text |-> c.text]

Publish(r) ==
    /\ call[r].phase = "publish"
    /\ events' = Append(events, Event(call[r]))
    /\ call' = [call EXCEPT ![r] = Idle]
    /\ UNCHANGED <<rows, calls, overlaps, consumer, versions, stored, faults>>

\* a send retried by the producer after its acknowledgement was lost
PublishTwice(r) ==
    /\ call[r].phase = "publish" /\ Fault("replay")
    /\ events' = events \o <<Event(call[r]), Event(call[r])>>
    /\ call' = [call EXCEPT ![r] = Idle]
    /\ UNCHANGED <<rows, calls, overlaps, consumer, versions, stored>>

\* publish_brain_event never raises; a crash of the server looks the same
PublishLost(r) ==
    /\ call[r].phase = "publish" /\ Fault("swallowed")
    /\ call' = [call EXCEPT ![r] = Idle]
    /\ UNCHANGED <<rows, calls, overlaps, events, consumer, versions, stored>>

-----------------------------------------------------------------------------
(* DocumentPreprocessorConsumer and DocumentProcessor.                     *)

Hand(p) == work' = [work EXCEPT !.phase = p]

Seen(e) == e.id \in ToSet(recent)

\* the idempotency guard and the routing by action have no await in them
Take ==
    LET e == events[pos] IN
    /\ work = Idle /\ pos <= Len(events)
    /\ pos' = pos + 1
    /\ work' = IF Seen(e) THEN Idle
               ELSE [event |-> e, phase |-> IF e.action = "delete" THEN "delete" ELSE "hash"]
    /\ UNCHANGED <<brain, events, committed, recent, versions, stored, faults>>

\* the periodic commit takes the consumed position, the event in hand included
Commit ==
    /\ committed < pos /\ committed' = pos
    /\ UNCHANGED <<brain, events, pos, work, recent, versions, stored, faults>>

\* _processed_ids.add, on success only
Finish ==
    LET kept == Append(recent, work.event.id)
    IN  /\ work' = Idle
        /\ recent' = IF Len(kept) > CacheSize THEN Tail(kept) ELSE kept

\* no prompt, or its query fails: an error result
PromptFails ==
    /\ work.phase = "hash" /\ Fault("loud")
    /\ work' = Idle
    /\ UNCHANGED <<brain, events, pos, committed, recent, versions, stored>>

\* faulty variant: compares with any version of the document
UnchangedEver(d, t) == t \in ToSet(versions[d])
Unchanged(d, t) == versions[d] # <<>> /\ Last(versions[d]) = t

SkipUnchanged ==
    /\ work.phase = "hash" /\ Unchanged(work.event.doc, work.event.text)
    /\ Finish
    /\ UNCHANGED <<brain, events, pos, committed, versions, stored, faults>>

\* faulty variant: an update does not delete first
ReplaceAppends == Hand("store")
Replace == Hand(IF work.event.action = "update" THEN "delete" ELSE "store")

Changed ==
    /\ work.phase = "hash" /\ ~Unchanged(work.event.doc, work.event.text)
    /\ Replace
    /\ UNCHANGED <<brain, events, pos, committed, recent, versions, stored, faults>>

\* a failing hash query counts as changed content
HashFails ==
    /\ work.phase = "hash" /\ Fault("swallowed")
    /\ Replace
    /\ UNCHANGED <<brain, events, pos, committed, recent, versions, stored>>

EmitDelete ==
    /\ work.phase = "delete"
    /\ stored' = [stored EXCEPT ![work.event.doc] = <<>>]
    /\ Hand("erase")
    /\ UNCHANGED <<brain, events, pos, committed, recent, versions, faults>>

DeleteUnsent ==
    /\ work.phase = "delete" /\ Fault("swallowed")
    /\ Hand("erase")
    /\ UNCHANGED <<brain, events, pos, committed, recent, versions, stored>>

\* _hard_delete_versions_and_chunks, one transaction
\* faulty variant: a delete event leaves the version rows
EraseUpdated(d) ==
    IF work.event.action = "update" THEN [versions EXCEPT ![d] = <<>>] ELSE versions
Erased(d) == [versions EXCEPT ![d] = <<>>]

Erase ==
    /\ work.phase = "erase"
    /\ versions' = Erased(work.event.doc)
    /\ IF work.event.action = "delete" THEN Finish ELSE Hand("store") /\ UNCHANGED recent
    /\ UNCHANGED <<brain, events, pos, committed, stored, faults>>

EraseFails ==
    /\ work.phase = "erase" /\ Fault("swallowed")
    /\ IF work.event.action = "delete" THEN Finish ELSE Hand("store") /\ UNCHANGED recent
    /\ UNCHANGED <<brain, events, pos, committed, versions, stored>>

NoChunks ==
    /\ work.phase = "store" /\ work.event.text \in Blank
    /\ Finish
    /\ UNCHANGED <<brain, events, pos, committed, versions, stored, faults>>

Store ==
    /\ work.phase = "store" /\ work.event.text \notin Blank
    /\ versions' = [versions EXCEPT ![work.event.doc] = Append(@, work.event.text)]
    /\ Hand("emit")
    /\ UNCHANGED <<brain, events, pos, committed, recent, stored, faults>>

StoreFails ==
    /\ work.phase = "store" /\ work.event.text \notin Blank /\ Fault("swallowed")
    /\ Hand("emit")
    /\ UNCHANGED <<brain, events, pos, committed, recent, versions, stored>>

Sent(n) == [stored EXCEPT ![work.event.doc] = @ \o [i \in 1..n |-> work.event.text]]

\* emit_process_chunks_batch and flush
Emit ==
    /\ work.phase = "emit"
    /\ stored' = Sent(Chunks)
    /\ Finish
    /\ UNCHANGED <<brain, events, pos, committed, versions, faults>>

\* The embedding fails before the first message, a send after some of them: the
\* exception ends in run, which logs it and goes on with the next event.  A
\* message that is buffered and never delivered goes unnoticed, for produce
\* only buffers and flush swallows what fails.
EmitFails(n) ==
    /\ work.phase = "emit" /\ stored' = Sent(n)
    /\ \/ Fault("loud") /\ work' = Idle /\ UNCHANGED recent
       \/ Fault("swallowed") /\ Finish
    /\ UNCHANGED <<brain, events, pos, committed, versions>>

\* an event in hand is lost if committed, and else handled again on top of what
\* its first handling left behind
Crash ==
    /\ Fault(IF work = Idle THEN "replay" ELSE "cut")
    /\ pos' = committed /\ work' = Idle /\ recent' = <<>>
    /\ UNCHANGED <<brain, events, committed, versions, stored>>

-----------------------------------------------------------------------------
\* every call answered, every event handled
Settled == (\A r \in Rpc : call[r] = Idle) /\ work = Idle /\ pos > Len(events)

Rests == Settled /\ UNCHANGED vars

BrainStep(r) ==
    \/ \E d \in Doc, t \in Text : Add(r, d, t)
    \/ \E d \in Doc, t \in Text \cup {Kept} : Update(r, d, t)
    \/ \E d \in Doc : Delete(r, d) \/ Repeat(r, d)
    \/ Write(r) \/ Publish(r) \/ PublishTwice(r) \/ PublishLost(r)

ConsumerStep ==
    \/ Take \/ PromptFails \/ SkipUnchanged \/ Changed \/ HashFails
    \/ EmitDelete \/ DeleteUnsent \/ Erase \/ EraseFails
    \/ NoChunks \/ Store \/ StoreFails
    \/ Emit \/ \E n \in 0..(Chunks - 1) : EmitFails(n)

Next == (\E r \in Rpc : BrainStep(r)) \/ ConsumerStep \/ Commit \/ Crash \/ Rests

Spec == Init /\ [][Next]_vars
\* a started call is answered, and the consume loop keeps running
FairSpec ==
    /\ Spec /\ WF_vars(ConsumerStep)
    /\ \A r \in Rpc : WF_vars(Write(r) \/ Publish(r))

-----------------------------------------------------------------------------
(* Properties.                                                             *)

Whole(t) == [i \in 1..(IF t \in Blank THEN 0 ELSE Chunks) |-> t]

TypeOK ==
    /\ rows \in [Doc -> Text \cup {"absent", "gone"}]
    /\ calls \in 0..MaxCalls /\ overlaps \subseteq Doc
    /\ \A i \in DOMAIN events : events[i].action \in Action /\ events[i].text \in Text
    /\ committed \in 1..pos /\ pos \in 1..(Len(events) + 1)
    /\ versions \in [Doc -> Seq(Text \ Blank)]
    /\ Len(recent) <= CacheSize

\* After any history of changes to a document, with events sent twice and the
\* consumer restarted between events, the stores hold exactly the chunks of the
\* row's content, once, and document_versions one row for it; nothing of a
\* deleted document.  Calls on one document must not overlap: the order of two
\* row updates is not the order of their events.
IndexFollowsRow ==
    Settled /\ Failures = 0 =>
        \A d \in Doc \ overlaps :
            IF rows[d] \in Text
            THEN /\ stored[d] = Whole(rows[d])
                 /\ versions[d] = IF rows[d] \in Blank THEN <<>> ELSE <<rows[d]>>
            ELSE stored[d] = <<>> /\ versions[d] = <<>>

\* Failing prompts, embeddings and sends leave a document half published or not
\* at all, but its stored chunks are never a mixture of two contents, not even
\* in between (processor.py:266 deletes before it publishes).
OneTextAtATime ==
    faults["swallowed"] + faults["cut"] + faults["replay"] = 0 =>
        \A d \in Doc \ overlaps : Cardinality(ToSet(stored[d])) <= 1

\* An event is dismissed as unchanged (processor.py:148, 251) only when the
\* stores hold its content, as long as nothing failed; calls may overlap and
\* events be handled again.
UnchangedMeansStored ==
    [][SkipUnchanged /\ Failures = 0 =>
         LET t == work.event.text IN
         Cardinality({i \in DOMAIN stored[work.event.doc] :
                         stored[work.event.doc][i] = t}) >= Len(Whole(t))]_vars

\* A content given to a document reaches the stores whole, unless it is changed
\* again, a failure intervenes or calls overlap.
ChangeReachesStores ==
    \A d \in Doc, t \in Text :
        (rows[d] = t) ~> \/ stored[d] = Whole(t) \/ rows[d] # t
                         \/ d \in overlaps \/ Failures > 0
=============================================================================
