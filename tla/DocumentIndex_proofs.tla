------------------------- MODULE DocumentIndex_proofs -------------------------
(***************************************************************************)
(* Proofs about DocumentIndex, for any documents and contents, any number  *)
(* of calls in flight, of chunks and of remembered ids, and any bound on   *)
(* calls and faults.                                                       *)
(*                                                                         *)
(* Told is what calls, rows and the log of events say of each other and of *)
(* the event in hand.  Followed says that what the stores hold of a        *)
(* document is what some prefix of the log leaves, one that ends no        *)
(* earlier than the consumer stands, or else a creation handled again on   *)
(* top of a later content, whose event is still to come again.  Versioned  *)
(* and OneText do the same for the latest version and for runs without a   *)
(* repetition.                                                             *)
(*                                                                         *)
(* The last section is about CodeChanges, the other consumer of a topic.   *)
(***************************************************************************)
EXTENDS DocumentIndex, CodeChanges, FiniteSetTheorems, TLAPS

\* A call before its row is written, and before its event is published; an
\* event; the event in hand.
Writing == [phase : {"write"}, action : {"update", "delete"}, doc : Doc, text : Text \cup {Kept}]
Publishing == [phase : {"publish"}, action : Action, doc : Doc, text : Text]
Message == [id : Nat, action : Action, doc : Doc, text : Text]
Handling == [event : Message, phase : {"hash", "delete", "erase", "store", "emit"}]

Typed ==
    /\ rows \in [Doc -> Text \cup {"absent", "gone"}]
    /\ call \in [Rpc -> {Idle} \cup Writing \cup Publishing]
    /\ calls \in 0..MaxCalls /\ overlaps \subseteq Doc
    /\ events \in Seq(Message)
    /\ pos \in 1..(Len(events) + 1) /\ committed \in 1..pos
    /\ work \in {Idle} \cup Handling
    /\ recent \in Seq(Nat) /\ Len(recent) <= CacheSize
    /\ versions \in [Doc -> Seq(Text \ Blank)]
    /\ stored \in [Doc -> Seq(Text)]
    /\ faults \in [Kind -> Nat]

-----------------------------------------------------------------------------
(* Calls and events. *)

\* A call is about a row that was inserted.
Present == \A r \in Rpc : call[r] # Idle => rows[call[r].doc] # "absent"

On(r, d) == call[r] # Idle /\ call[r].doc = d

\* Two calls on a document overlap.
OneCall == \A q, r \in Rpc : \A d \in Doc : q # r /\ On(q, d) /\ On(r, d) => d \in overlaps

\* No event before k is about d; event i is the last one before k that is.
Silent(es, d, k) == \A i \in 1..(k - 1) : es[i].doc # d
LastBefore(es, d, k, i) ==
    /\ i \in 1..(k - 1) /\ es[i].doc = d
    /\ \A j \in (i + 1)..(k - 1) : es[j].doc # d

\* What the row says while a call is under way.
CallsFit ==
    \A d \in Doc \ overlaps :
        /\ rows[d] = "absent" => Silent(events, d, Len(events) + 1) /\ \A r \in Rpc : ~On(r, d)
        /\ \A r \in Rpc : On(r, d) =>
               /\ call[r].phase = "write" => rows[d] \in Text
               /\ call[r].phase = "publish" =>
                      rows[d] = IF call[r].action = "delete" THEN "gone" ELSE call[r].text
               /\ call[r].action = "create" => Silent(events, d, Len(events) + 1)

\* The first event of a document creates it.
CreatesFirst ==
    \A d \in Doc \ overlaps : \A i, j \in 1..Len(events) :
        j < i /\ events[i].doc = d /\ events[j].doc = d /\ events[i].action = "create"
            => events[j] = events[i]

\* The last event says what the row says, once it is published.
Says(e, x) == x = IF e.action = "delete" THEN "gone" ELSE e.text
LastSays ==
    Failures = 0 => \A d \in Doc \ overlaps :
        \/ rows[d] = "absent"
        \/ \E r \in Rpc : On(r, d) /\ call[r].phase = "publish"
        \/ \E i \in 1..Len(events) :
               LastBefore(events, d, Len(events) + 1, i) /\ Says(events[i], rows[d])

\* An event has its place as id, or repeats the one before it.
Repeats(i) == i > 1 /\ events[i] = events[i - 1] /\ events[i].id = i - 1 /\ faults["replay"] > 0
Ids == \A i \in 1..Len(events) : events[i].id = i \/ Repeats(i)

\* The event in hand, and those remembered, were taken.
Taken ==
    /\ \A i \in DOMAIN recent : recent[i] < pos
    /\ work # Idle =>
           /\ pos > 1 /\ work.event = events[pos - 1]
           /\ work.phase \in {"hash", "store", "emit"} => work.event.action \in {"create", "update"}
           /\ work.phase \in {"delete", "erase"} => work.event.action \in {"delete", "update"}
           /\ work.phase = "emit" => work.event.text \notin Blank

Told == Typed /\ Present /\ OneCall /\ CallsFit /\ CreatesFirst /\ LastSays /\ Ids /\ Taken

-----------------------------------------------------------------------------
(* What the stores hold of a document. *)

InHand(d) == work # Idle /\ work.event.doc = d

Empty(d) == stored[d] = <<>> /\ versions[d] = <<>>
Holds(d, e) ==
    IF e.action = "delete" \/ e.text \in Blank
    THEN Empty(d) ELSE stored[d] = Whole(e.text) /\ versions[d] = <<e.text>>

\* The stores hold what the events before k leave.
Agree(d, k) ==
    \/ Silent(events, d, k) /\ Empty(d)
    \/ \E i \in 1..(k - 1) : LastBefore(events, d, k, i) /\ Holds(d, events[i])
\* A creation was handled again on top of a later content, whose event is still
\* to be handled again, too.
Mixed(d, k) ==
    /\ versions[d] # <<>>
    /\ \A i \in 1..Len(events) : events[i].doc = d /\ events[i].action = "create"
           => events[i].text = Last(versions[d])
    /\ \E j \in 1..Len(events) :
           /\ events[j].doc = d /\ events[j].action = "update" /\ events[j].id >= k
           /\ events[j].text # Last(versions[d])
Explained(d, k) == Mixed(d, k) \/ \E m \in k..(Len(events) + 1) : Agree(d, m)

\* How far the event in hand has brought the stores.
Brought(d) ==
    LET e == work.event IN
    /\ work.phase = "hash" => Explained(d, pos - 1)
    /\ work.phase = "erase" => stored[d] = <<>>
    /\ work.phase = "store" => IF e.action = "update" THEN Empty(d)
                               ELSE Explained(d, pos - 1) /\ ~Unchanged(d, e.text)
    /\ work.phase = "emit" => \/ stored[d] = <<>> /\ versions[d] = <<e.text>>
                              \/ Mixed(d, pos)
Followed ==
    Failures = 0 =>
        \A d \in Doc \ overlaps : IF InHand(d) THEN Brought(d) ELSE Explained(d, pos)

\* The last version of a document is the content published last.
Ends(s, t) == Len(s) >= Chunks /\ \A i \in (Len(s) - Chunks + 1)..Len(s) : s[i] = t
Versioned ==
    Failures = 0 =>
        \A d \in Doc :
            /\ ~(InHand(d) /\ work.phase \in {"erase", "emit"}) =>
                   versions[d] = <<>> \/ Ends(stored[d], Last(versions[d]))
            /\ InHand(d) /\ work.phase = "emit" =>
                   versions[d] # <<>> /\ Last(versions[d]) = work.event.text

\* Without repetitions, what is about to be published finds nothing.
Uniform(s) == \A i, j \in DOMAIN s : s[i] = s[j]
OneText ==
    faults["swallowed"] + faults["cut"] + faults["replay"] = 0 =>
        \A d \in Doc \ overlaps :
            /\ Uniform(stored[d])
            /\ Silent(events, d, pos) => stored[d] = <<>>
            /\ InHand(d) /\ (work.event.action = "create" \/ work.phase \in {"erase", "store", "emit"})
                   => stored[d] = <<>>

-----------------------------------------------------------------------------
(* Types. *)

USE ConstantsAssumption DEF brain, consumer, vars

\* What is in hand is an event, unless nothing is.
LEMMA WorkType ==
  ASSUME Typed
  PROVE  /\ work.phase = "idle" <=> work = Idle
         /\ work # Idle => /\ work \in Handling /\ work.event \in Message
                           /\ work.event.id \in Nat /\ work.event.action \in Action
                           /\ work.event.doc \in Doc /\ work.event.text \in Text
<1>1. CASE work = Idle
  BY <1>1 DEF Idle
<1>2. CASE work \in Handling
  BY <1>2 DEF Handling, Message, Idle
<1> QED
  BY <1>1, <1>2 DEF Typed

\* Moving the work on keeps the event.
LEMMA HandType ==
  ASSUME Typed, work # Idle, NEW p \in {"hash", "delete", "erase", "store", "emit"}, Hand(p)
  PROVE  /\ work' \in Handling /\ work'.event = work.event /\ work'.phase = p /\ work' # Idle
<1>1. work \in Handling
  BY WorkType
<1>2. work' = [work EXCEPT !.phase = p]
  BY DEF Hand
<1>3. work' \in Handling /\ work'.event = work.event /\ work'.phase = p
  BY <1>1, <1>2 DEF Handling
<1> QED
  BY <1>3 DEF Idle

\* A call is idle, or about to write or to publish.
LEMMA CallType ==
  ASSUME Typed, NEW r \in Rpc
  PROVE  /\ call[r].phase = "idle" <=> call[r] = Idle
         /\ call[r].phase = "write" =>
              /\ call[r] \in Writing /\ call[r] # Idle /\ call[r].doc \in Doc
              /\ call[r].action \in {"update", "delete"} /\ call[r].text \in Text \cup {Kept}
         /\ call[r].phase = "publish" =>
              /\ call[r] \in Publishing /\ call[r] # Idle /\ call[r].doc \in Doc
              /\ call[r].action \in Action /\ call[r].text \in Text
         /\ call[r] # Idle => call[r].phase \in {"write", "publish"}
<1>1. call[r] \in {Idle} \cup Writing \cup Publishing
  BY DEF Typed
<1>2. CASE call[r] = Idle
  BY <1>2 DEF Idle
<1>3. CASE call[r] \in Writing
  BY <1>3 DEF Idle, Writing
<1>4. CASE call[r] \in Publishing
  BY <1>4 DEF Idle, Publishing
<1> QED
  BY <1>1, <1>2, <1>3, <1>4

\* A finished event is remembered among those remembered before.
LEMMA FinishType ==
  ASSUME Typed, work # Idle, Finish
  PROVE  /\ work' = Idle /\ recent' \in Seq(Nat) /\ Len(recent') <= CacheSize
         /\ \A i \in DOMAIN recent' :
              recent'[i] = work.event.id \/ \E j \in DOMAIN recent : recent'[i] = recent[j]
<1> DEFINE kept == Append(recent, work.event.id)
<1>1. work.event.id \in Nat /\ recent \in Seq(Nat) /\ Len(recent) <= CacheSize
  BY WorkType DEF Typed
<1>2. /\ kept \in Seq(Nat) /\ Len(kept) = Len(recent) + 1
      /\ \A i \in 1 .. Len(recent) : kept[i] = recent[i]
      /\ kept[Len(recent) + 1] = work.event.id
  BY <1>1
<1>3. \A i \in 1 .. Len(kept) :
        kept[i] = work.event.id \/ \E j \in DOMAIN recent : kept[i] = recent[j]
  BY <1>1, <1>2
<1>4. work' = Idle /\ recent' = IF Len(kept) > CacheSize THEN Tail(kept) ELSE kept
  BY DEF Finish
<1> HIDE DEF kept
<1>5. CASE Len(kept) > CacheSize
  <2>1. recent' = Tail(kept)
    BY <1>4, <1>5
  <2>2. /\ recent' \in Seq(Nat) /\ Len(recent') = Len(kept) - 1
        /\ \A i \in 1 .. Len(kept) - 1 : recent'[i] = kept[i + 1]
    BY <1>1, <1>2, <2>1
  <2>3. Len(recent') <= CacheSize /\ DOMAIN recent' = 1 .. Len(kept) - 1
    BY <1>1, <1>2, <2>2
  <2>4. ASSUME NEW i \in DOMAIN recent'
        PROVE  recent'[i] = work.event.id \/ \E j \in DOMAIN recent : recent'[i] = recent[j]
    <3>1. i \in 1 .. Len(kept) - 1 /\ i + 1 \in 1 .. Len(kept) /\ recent'[i] = kept[i + 1]
      <4>1. Len(kept) \in Nat /\ i \in 1 .. Len(kept) - 1
        BY <1>1, <1>2, <2>3
      <4> QED
        BY <2>2, <4>1
    <3> QED
      BY <1>3, <3>1
  <2> QED
    BY <1>4, <2>2, <2>3, <2>4
<1>6. CASE ~(Len(kept) > CacheSize)
  BY <1>1, <1>2, <1>3, <1>4, <1>6
<1> QED
  BY <1>5, <1>6

\* A fault is counted.
LEMMA FaultCounts ==
  ASSUME Typed, NEW k \in Kind, Fault(k)
  PROVE  /\ faults' \in [Kind -> Nat] /\ faults'[k] = faults[k] + 1
         /\ \A j \in Kind : j # k => faults'[j] = faults[j]
<1>1. faults \in [Kind -> Nat] /\ faults' = [faults EXCEPT ![k] = @ + 1]
  BY DEF Typed, Fault
<1> QED
  BY <1>1

\* The event of a call.
LEMMA EventType ==
  ASSUME Typed, NEW r \in Rpc, call[r].phase = "publish"
  PROVE  /\ Event(call[r]) \in Message /\ Event(call[r]).id = Len(events) + 1
         /\ Event(call[r]).action = call[r].action /\ Event(call[r]).doc = call[r].doc
         /\ Event(call[r]).text = call[r].text
<1>1. /\ call[r].doc \in Doc /\ call[r].action \in Action /\ call[r].text \in Text
      /\ Len(events) \in Nat
  BY CallType DEF Typed
<1> QED
  BY <1>1 DEF Event, Message

\* The first state is well formed.
LEMMA TypedInit == Init => Typed
<1> SUFFICES ASSUME Init PROVE Typed
  OBVIOUS
<1>1. /\ rows \in [Doc -> Text \cup {"absent", "gone"}]
      /\ call \in [Rpc -> {Idle} \cup Writing \cup Publishing]
      /\ versions \in [Doc -> Seq(Text \ Blank)] /\ stored \in [Doc -> Seq(Text)]
      /\ faults \in [Kind -> Nat]
  BY DEF Init
<1>2. events \in Seq(Message) /\ Len(events) = 0 /\ recent \in Seq(Nat) /\ Len(recent) = 0
  BY DEF Init
<1>3. calls \in 0 .. MaxCalls /\ overlaps \subseteq Doc /\ work = Idle /\ pos = 1 /\ committed = 1
  BY DEF Init
<1> QED
  BY <1>1, <1>2, <1>3 DEF Typed

\* A call that begins.
LEMMA BeginType ==
  ASSUME Typed, NEW r \in Rpc, NEW c \in Writing \cup Publishing, Begin(r, c)
  PROVE  /\ call[r] = Idle
         /\ calls' \in 0 .. MaxCalls /\ overlaps' \subseteq Doc
         /\ call' \in [Rpc -> {Idle} \cup Writing \cup Publishing]
         /\ call'[r] = c /\ c # Idle /\ \A q \in Rpc : q # r => call'[q] = call[q]
<1>1. c.doc \in Doc /\ c # Idle
  BY DEF Writing, Publishing, Idle
<1> QED
  BY <1>1 DEF Begin, Typed

\* The call that publishes the row as it is.
LEMMA RepeatCall ==
  ASSUME NEW r \in Rpc, NEW d \in Doc, Repeat(r, d)
  PROVE  \E c \in Publishing :
           /\ Begin(r, c) /\ rows[d] \in Text
           /\ c.doc = d /\ c.phase = "publish" /\ c.action = "update" /\ c.text = rows[d]
           /\ UNCHANGED <<rows, events, consumer, versions, stored, faults>>
<1> DEFINE c == [phase |-> "publish", action |-> "update", doc |-> d, text |-> rows[d]]
<1>1. rows[d] \in Text /\ Begin(r, c)
      /\ UNCHANGED <<rows, events, consumer, versions, stored, faults>>
  BY DEF Repeat
<1>2. c \in Publishing /\ c.doc = d /\ c.phase = "publish" /\ c.action = "update"
      /\ c.text = rows[d]
  BY <1>1 DEF Publishing, Action
<1> QED
  BY <1>1, <1>2

\* A row read by a call was inserted, and stays so.
LEMMA PresentStep ==
  ASSUME Typed, Present, NEW r \in Rpc, BrainStep(r)
  PROVE  Present'
<1>1. ASSUME NEW d \in Doc, NEW t \in Text, Add(r, d, t) PROVE Present'
  <2> DEFINE c == [phase |-> "publish", action |-> "create", doc |-> d, text |-> t]
  <2>1. c \in Publishing /\ c.doc = d
    BY DEF Publishing, Action
  <2>2. Begin(r, c) /\ rows' = [rows EXCEPT ![d] = t]
    BY <1>1 DEF Add
  <2> HIDE DEF c
  <2>3. call'[r] = c /\ \A q \in Rpc : q # r => call'[q] = call[q]
    BY <2>1, <2>2, BeginType
  <2>4. rows'[d] = t /\ t # "absent" /\ \A x \in Doc : x # d => rows'[x] = rows[x]
    BY <2>2 DEF Typed
  <2>5. \A q \in Rpc : call[q] # Idle => call[q].doc \in Doc
    BY CallType
  <2>6. \A x \in Doc : rows[x] # "absent" => rows'[x] # "absent"
    BY <2>4
  <2> QED
    BY <2>1, <2>3, <2>4, <2>5, <2>6 DEF Present
<1>2. ASSUME NEW d \in Doc, NEW t \in Text \cup {Kept}, NEW a \in {"update", "delete"},
             Request(r, a, d, t)
      PROVE  Present'
  <2> DEFINE c == [phase |-> "write", action |-> a, doc |-> d, text |-> t]
  <2>1. c \in Writing /\ c.doc = d
    BY DEF Writing
  <2>2. Begin(r, c) /\ rows' = rows /\ rows[d] \in Text
    BY <1>2 DEF Request
  <2> HIDE DEF c
  <2>3. call'[r] = c /\ \A q \in Rpc : q # r => call'[q] = call[q]
    BY <2>1, <2>2, BeginType
  <2> QED
    BY <2>1, <2>2, <2>3 DEF Present
<1>3. CASE Write(r)
  <2> DEFINE c == call[r]
             d == c.doc
             t == IF c.text = Kept THEN rows[d] ELSE c.text
             w == [c EXCEPT !.phase = "publish", !.text = t]
  <2>1. /\ c.phase = "write"
        /\ IF rows[d] = "gone"
           THEN call' = [call EXCEPT ![r] = Idle] /\ UNCHANGED rows
           ELSE /\ rows' = [rows EXCEPT ![d] = IF c.action = "delete" THEN "gone" ELSE t]
                /\ call' = [call EXCEPT ![r] = w]
    BY <1>3 DEF Write
  <2>2. c \in Writing /\ c # Idle /\ d \in Doc /\ c.text \in Text \cup {Kept}
    BY <2>1, CallType
  <2>3. w.doc = d
    BY <2>2 DEF Writing
  <2>4. rows[d] # "absent" /\ t # "absent"
    BY <2>2 DEF Present, Kept
  <2> HIDE DEF w, t
  <2>5. \A x \in Doc : rows[x] # "absent" => rows'[x] # "absent"
    BY <2>1, <2>2, <2>4 DEF Typed
  <2>6. \A q \in Rpc : call'[q] # Idle => call[q] # Idle /\ call'[q].doc = call[q].doc
    BY <2>1, <2>2, <2>3 DEF Typed
  <2>7. \A q \in Rpc : call[q] # Idle => call[q].doc \in Doc
    BY CallType
  <2> QED
    BY <2>5, <2>6, <2>7 DEF Present
<1>4. CASE Publish(r) \/ PublishTwice(r) \/ PublishLost(r)
  <2>1. rows' = rows /\ call' = [call EXCEPT ![r] = Idle]
    BY <1>4 DEF Publish, PublishTwice, PublishLost
  <2> QED
    BY <2>1 DEF Present, Typed
<1>5. ASSUME NEW d \in Doc, NEW t \in Text \cup {Kept}, Update(r, d, t) PROVE Present'
  BY <1>2, <1>5 DEF Update
<1>6. ASSUME NEW d \in Doc, Delete(r, d) PROVE Present'
  BY <1>2, <1>6 DEF Delete
<1>7. ASSUME NEW d \in Doc, Repeat(r, d) PROVE Present'
  <2>1. PICK c \in Publishing :
          Begin(r, c) /\ c.doc = d /\ rows' = rows /\ rows[d] \in Text
    BY <1>7, RepeatCall
  <2>2. call'[r] = c /\ \A q \in Rpc : q # r => call'[q] = call[q]
    BY <2>1, BeginType
  <2> QED
    BY <2>1, <2>2 DEF Present
<1> QED
  BY <1>1, <1>3, <1>4, <1>5, <1>6, <1>7 DEF BrainStep

\* A step of a call keeps every variable in its type.
LEMMA BrainTyped ==
  ASSUME Typed, Present, NEW r \in Rpc, BrainStep(r)
  PROVE  Typed'
<1> USE DEF Typed
<1>1. ASSUME NEW d \in Doc, NEW t \in Text, Add(r, d, t) PROVE Typed'
  <2> DEFINE c == [phase |-> "publish", action |-> "create", doc |-> d, text |-> t]
  <2>1. c \in Publishing
    BY DEF Publishing, Action
  <2>2. Begin(r, c) /\ rows' = [rows EXCEPT ![d] = t]
        /\ UNCHANGED <<events, consumer, versions, stored, faults>>
    BY <1>1 DEF Add
  <2> HIDE DEF c
  <2>3. calls' \in 0 .. MaxCalls /\ overlaps' \subseteq Doc
        /\ call' \in [Rpc -> {Idle} \cup Writing \cup Publishing]
    BY <2>1, <2>2, BeginType
  <2>4. rows' \in [Doc -> Text \cup {"absent", "gone"}]
    BY <2>2
  <2> QED
    BY <2>2, <2>3, <2>4
<1>2. ASSUME NEW d \in Doc, NEW t \in Text \cup {Kept}, NEW a \in {"update", "delete"},
             Request(r, a, d, t)
      PROVE  Typed'
  <2> DEFINE c == [phase |-> "write", action |-> a, doc |-> d, text |-> t]
  <2>1. c \in Writing
    BY DEF Writing
  <2>2. Begin(r, c) /\ UNCHANGED <<rows, events, consumer, versions, stored, faults>>
    BY <1>2 DEF Request
  <2> HIDE DEF c
  <2>3. calls' \in 0 .. MaxCalls /\ overlaps' \subseteq Doc
        /\ call' \in [Rpc -> {Idle} \cup Writing \cup Publishing]
    BY <2>1, <2>2, BeginType
  <2> QED
    BY <2>2, <2>3
<1>3. CASE Write(r)
  <2> DEFINE c == call[r]
             d == c.doc
             t == IF c.text = Kept THEN rows[d] ELSE c.text
             w == [c EXCEPT !.phase = "publish", !.text = t]
  <2>1. /\ c.phase = "write"
        /\ IF rows[d] = "gone"
           THEN call' = [call EXCEPT ![r] = Idle] /\ UNCHANGED rows
           ELSE /\ rows' = [rows EXCEPT ![d] = IF c.action = "delete" THEN "gone" ELSE t]
                /\ call' = [call EXCEPT ![r] = w]
        /\ UNCHANGED <<calls, overlaps, events, consumer, versions, stored, faults>>
    BY <1>3 DEF Write
  <2>2. c \in Writing /\ d \in Doc /\ c.text \in Text \cup {Kept}
    BY <2>1, CallType
  <2>3. rows[d] # "gone" => t \in Text
    BY <2>1, <2>2, CallType DEF Present
  <2>4. rows[d] # "gone" => w \in Publishing
    BY <2>2, <2>3 DEF Writing, Publishing, Action
  <2> HIDE DEF w, t
  <2>5. call' \in [Rpc -> {Idle} \cup Writing \cup Publishing]
    BY <2>1, <2>4
  <2>6. rows' \in [Doc -> Text \cup {"absent", "gone"}]
    BY <2>1, <2>3
  <2> QED
    BY <2>1, <2>5, <2>6
<1>4. CASE Publish(r)
  <2>1. Event(call[r]) \in Message /\ events' = Append(events, Event(call[r]))
    BY <1>4, EventType DEF Publish
  <2>2. events' \in Seq(Message) /\ Len(events') = Len(events) + 1
    BY <2>1
  <2>3. call' \in [Rpc -> {Idle} \cup Writing \cup Publishing]
    BY <1>4 DEF Publish
  <2> QED
    BY <1>4, <2>2, <2>3 DEF Publish
<1>5. CASE PublishTwice(r)
  <2> DEFINE e == Event(call[r])
  <2>1. e \in Message /\ events' = events \o <<e, e>>
    BY <1>5, EventType DEF PublishTwice
  <2> HIDE DEF e
  <2>2. events' \in Seq(Message) /\ Len(events') = Len(events) + 2
    BY <2>1
  <2>3. call' \in [Rpc -> {Idle} \cup Writing \cup Publishing]
    BY <1>5 DEF PublishTwice
  <2>4. faults' \in [Kind -> Nat]
    BY <1>5, FaultCounts DEF PublishTwice, Kind
  <2> QED
    BY <1>5, <2>2, <2>3, <2>4 DEF PublishTwice
<1>6. CASE PublishLost(r)
  <2>1. call' \in [Rpc -> {Idle} \cup Writing \cup Publishing]
    BY <1>6 DEF PublishLost
  <2>2. faults' \in [Kind -> Nat]
    BY <1>6, FaultCounts DEF PublishLost, Kind
  <2> QED
    BY <1>6, <2>1, <2>2 DEF PublishLost
<1>7. ASSUME NEW d \in Doc, NEW t \in Text \cup {Kept}, Update(r, d, t) PROVE Typed'
  BY <1>2, <1>7 DEF Update
<1>8. ASSUME NEW d \in Doc, Delete(r, d) PROVE Typed'
  BY <1>2, <1>8 DEF Delete
<1>9. ASSUME NEW d \in Doc, Repeat(r, d) PROVE Typed'
  <2>1. PICK c \in Publishing :
          Begin(r, c) /\ UNCHANGED <<rows, events, consumer, versions, stored, faults>>
    BY <1>9, RepeatCall
  <2>2. calls' \in 0 .. MaxCalls /\ overlaps' \subseteq Doc
        /\ call' \in [Rpc -> {Idle} \cup Writing \cup Publishing]
    BY <2>1, BeginType
  <2> QED
    BY <2>1, <2>2
<1> QED
  BY <1>1, <1>7, <1>8, <1>9, <1>3, <1>4, <1>5, <1>6 DEF BrainStep

-----------------------------------------------------------------------------
(* The consumer's steps. *)

\* The consumer writes no row and no event.
LEMMA ConsumerFrame ==
  ASSUME ConsumerStep \/ Commit \/ Crash \/ Rests \/ UNCHANGED vars
  PROVE  brain' = brain /\ events' = events
<1> USE DEF ConsumerStep, Commit, Crash, Rests, Take, PromptFails, SkipUnchanged, Changed,
        HashFails, EmitDelete, DeleteUnsent, Erase, EraseFails, NoChunks, Store, StoreFails,
        Emit, EmitFails
<1> QED
  OBVIOUS

\* A change in hand is deleted first, or stored.
LEMMA ReplaceHands ==
  ASSUME Typed, work # Idle, Replace
  PROVE  /\ work' \in Handling /\ work'.event = work.event /\ work' # Idle
         /\ work'.phase = IF work.event.action = "update" THEN "delete" ELSE "store"
  BY HandType DEF Replace

\* So does a step of the consumer.
LEMMA ConsumerTyped ==
  ASSUME Typed, ConsumerStep
  PROVE  Typed'
<1>0. UNCHANGED <<brain, events>>
  BY ConsumerFrame
<1>w. work # Idle => /\ work \in Handling /\ work.event \in Message /\ work.phase # "idle"
                     /\ work.event.doc \in Doc /\ work.event.text \in Text
  BY WorkType
<1>i. work = Idle => work.phase = "idle"
  BY WorkType
<1> USE DEF Kind
<1>1. CASE Take
  <2>1. events[pos] \in Message /\ pos' \in 1 .. Len(events) + 1 /\ committed \in 1 .. pos'
    BY <1>1 DEF Take, Typed
  <2>2. work' \in {Idle} \cup Handling
    BY <1>1, <2>1 DEF Take, Handling
  <2> QED
    BY <1>0, <1>1, <2>1, <2>2 DEF Take, Typed
<1>2. CASE PromptFails
  BY <1>0, <1>2, FaultCounts DEF PromptFails, Typed
<1>3. CASE SkipUnchanged
  BY <1>0, <1>3, <1>i, FinishType DEF SkipUnchanged, Typed
<1>4. CASE Changed
  BY <1>0, <1>4, <1>i, ReplaceHands DEF Changed, Typed
<1>5. CASE HashFails
  BY <1>0, <1>5, <1>i, ReplaceHands, FaultCounts DEF HashFails, Typed
<1>6. CASE EmitDelete
  <2>1. stored' = [stored EXCEPT ![work.event.doc] = <<>>] /\ <<>> \in Seq(Text)
    BY <1>6 DEF EmitDelete
  <2>2. stored' \in [Doc -> Seq(Text)]
    BY <2>1 DEF Typed
  <2> QED
    BY <1>0, <1>6, <1>i, <2>2, HandType DEF EmitDelete, Typed
<1>7. CASE DeleteUnsent
  BY <1>0, <1>7, <1>i, HandType, FaultCounts DEF DeleteUnsent, Typed
<1>8. CASE Erase
  <2>1. versions' \in [Doc -> Seq(Text \ Blank)]
    <3>1. versions' = [versions EXCEPT ![work.event.doc] = <<>>] /\ <<>> \in Seq(Text \ Blank)
      BY <1>8 DEF Erase, Erased
    <3> QED
      BY <3>1 DEF Typed
  <2>2. work' \in {Idle} \cup Handling /\ recent' \in Seq(Nat) /\ Len(recent') <= CacheSize
    BY <1>8, <1>i, FinishType, HandType DEF Erase, Typed
  <2> QED
    BY <1>0, <1>8, <2>1, <2>2 DEF Erase, Typed
<1>9. CASE EraseFails
  <2>1. work' \in {Idle} \cup Handling /\ recent' \in Seq(Nat) /\ Len(recent') <= CacheSize
    BY <1>9, <1>i, FinishType, HandType DEF EraseFails, Typed
  <2> QED
    BY <1>0, <1>9, <2>1, FaultCounts DEF EraseFails, Typed
<1>10. CASE NoChunks
  BY <1>0, <1>10, <1>i, FinishType DEF NoChunks, Typed
<1>11. CASE Store
  <2>1. work # Idle /\ work.event.text \in Text \ Blank /\ work.event.doc \in Doc
    BY <1>11, <1>i, <1>w DEF Store
  <2>2. versions' \in [Doc -> Seq(Text \ Blank)]
    <3>1. /\ versions \in [Doc -> Seq(Text \ Blank)]
          /\ versions' = [versions EXCEPT ![work.event.doc] = Append(@, work.event.text)]
      BY <1>11 DEF Store, Typed
    <3>2. Append(versions[work.event.doc], work.event.text) \in Seq(Text \ Blank)
      BY <2>1, <3>1
    <3> QED
      BY <3>1, <3>2
  <2> QED
    BY <1>0, <1>11, <2>1, <2>2, HandType DEF Store, Typed
<1>12. CASE StoreFails
  BY <1>0, <1>12, <1>i, HandType, FaultCounts DEF StoreFails, Typed
<1>13. ASSUME NEW n \in Nat, work # Idle PROVE Sent(n) \in [Doc -> Seq(Text)]
  <2> DEFINE s == stored[work.event.doc]
             new == [i \in 1 .. n |-> work.event.text]
  <2>1. s \in Seq(Text) /\ new \in Seq(Text)
    BY <1>13, <1>w DEF Typed
  <2> HIDE DEF s, new
  <2>2. s \o new \in Seq(Text)
    BY <2>1
  <2>3. Sent(n) = [stored EXCEPT ![work.event.doc] = s \o new]
    BY DEF Sent, s, new
  <2> QED
    BY <2>2, <2>3 DEF Typed
<1>14. CASE Emit
  BY <1>0, <1>14, <1>i, <1>13, FinishType DEF Emit, Typed
<1>15. ASSUME NEW n \in 0 .. Chunks - 1, EmitFails(n) PROVE Typed'
  <2>1. n \in Nat /\ work # Idle
    BY <1>15, <1>i DEF EmitFails
  <2>2. stored' \in [Doc -> Seq(Text)]
    BY <1>13, <1>15, <2>1 DEF EmitFails
  <2>3. faults' \in [Kind -> Nat]
    BY <1>15, FaultCounts DEF EmitFails
  <2> QED
    <3>1. work' = Idle /\ recent' \in Seq(Nat) /\ Len(recent') <= CacheSize
      BY <1>15, <2>1, FinishType DEF EmitFails, Typed
    <3> QED
      BY <1>0, <1>15, <2>2, <2>3, <3>1 DEF EmitFails, Typed
<1> QED
  BY <1>1, <1>2, <1>3, <1>4, <1>5, <1>6, <1>7, <1>8, <1>9, <1>10, <1>11, <1>12, <1>14, <1>15
     DEF ConsumerStep

\* And so does every step.
LEMMA TypedStep == Typed /\ Present /\ [Next]_vars => Typed' /\ Present'
<1> SUFFICES ASSUME Typed, Present, [Next]_vars PROVE Typed' /\ Present'
  OBVIOUS
<1>1. CASE \E r \in Rpc : BrainStep(r)
  BY <1>1, BrainTyped, PresentStep
<1>2. CASE ConsumerStep
  BY <1>2, ConsumerTyped, ConsumerFrame DEF Present
<1>3. CASE Commit
  BY <1>3 DEF Commit, Typed, Present
<1>4. CASE Crash
  <2>1. faults' \in [Kind -> Nat]
    BY <1>4, FaultCounts DEF Crash, Kind
  <2>2. pos' \in 1 .. Len(events) + 1 /\ committed \in 1 .. pos' /\ recent' \in Seq(Nat)
        /\ Len(recent') <= CacheSize /\ work' = Idle
    BY <1>4 DEF Crash, Typed
  <2> QED
    BY <1>4, <2>1, <2>2 DEF Crash, Typed, Present
<1>5. CASE Rests \/ UNCHANGED vars
  BY <1>5 DEF Rests, Typed, Present
<1> QED
  BY <1>1, <1>2, <1>3, <1>4, <1>5 DEF Next

\* Faults are counted, and never forgotten.
LEMMA FaultsStep ==
  ASSUME Typed, [Next]_vars
  PROVE  faults' \in [Kind -> Nat] /\ \A k \in Kind : faults'[k] >= faults[k]
<1>1. CASE UNCHANGED faults
  BY <1>1 DEF Typed
<1>2. ASSUME NEW k \in Kind, Fault(k)
      PROVE  faults' \in [Kind -> Nat] /\ \A j \in Kind : faults'[j] >= faults[j]
  <2>1. /\ faults \in [Kind -> Nat] /\ faults' \in [Kind -> Nat] /\ faults'[k] = faults[k] + 1
        /\ \A j \in Kind : j # k => faults'[j] = faults[j]
    BY <1>2, FaultCounts DEF Typed
  <2>2. ASSUME NEW j \in Kind PROVE faults'[j] >= faults[j]
    <3>1. faults[j] \in Nat
      BY <2>1
    <3> QED
      BY <2>1, <3>1
  <2> QED
    BY <2>1, <2>2
<1>3. UNCHANGED faults \/ \E k \in Kind : Fault(k)
  BY DEF Next, BrainStep, ConsumerStep, Commit, Crash, Rests, Take, PromptFails, SkipUnchanged,
         Changed, HashFails, EmitDelete, DeleteUnsent, Erase, EraseFails, NoChunks, Store,
         StoreFails, Emit, EmitFails, Add, Update, Delete, Repeat, Request, Write, Publish,
         PublishTwice, PublishLost, Kind
<1> QED
  BY <1>1, <1>2, <1>3

\* A failure is never forgotten either.
LEMMA FailuresStep ==
  ASSUME Typed, [Next]_vars, Failures' = 0
  PROVE  Failures = 0
<1>1. /\ faults \in [Kind -> Nat] /\ faults' \in [Kind -> Nat]
      /\ \A k \in Kind : faults'[k] >= faults[k]
  BY FaultsStep DEF Typed
<1> QED
  BY <1>1 DEF Failures, Kind

-----------------------------------------------------------------------------
(* The log. *)

Publishes(r) == Publish(r) \/ PublishTwice(r) \/ PublishLost(r)

\* What a call can do.
LEMMA BrainSplit ==
  ASSUME NEW r \in Rpc, BrainStep(r)
  PROVE  \/ \E d \in Doc, t \in Text : Add(r, d, t)
         \/ \E d \in Doc, t \in Text \cup {Kept}, a \in {"update", "delete"} : Request(r, a, d, t)
         \/ \E d \in Doc : Repeat(r, d)
         \/ Write(r) \/ Publishes(r)
  BY DEF BrainStep, Publishes, Update, Delete

\* The event of a call is appended, or appended twice, or lost.
LEMMA PublishesLog ==
  ASSUME Typed, NEW r \in Rpc, Publishes(r)
  PROVE  /\ call[r].phase = "publish" /\ call' = [call EXCEPT ![r] = Idle]
         /\ rows' = rows /\ overlaps' = overlaps /\ UNCHANGED <<consumer, versions, stored>>
         /\ Len(events') \in Len(events) .. Len(events) + 2
         /\ \A i \in 1 .. Len(events) : events'[i] = events[i]
         /\ \A i \in Len(events) + 1 .. Len(events') : events'[i] = Event(call[r])
         /\ Len(events') = Len(events) => faults'["swallowed"] > 0
         /\ Len(events') = Len(events) + 2 => faults'["replay"] > 0
<1> DEFINE e == Event(call[r])
<1>0. events \in Seq(Message) /\ Len(events) \in Nat /\ faults \in [Kind -> Nat]
  BY DEF Typed
<1>1. /\ call[r].phase = "publish" /\ call' = [call EXCEPT ![r] = Idle]
      /\ rows' = rows /\ overlaps' = overlaps /\ UNCHANGED <<consumer, versions, stored>>
  BY DEF Publishes, Publish, PublishTwice, PublishLost
<1>2. e \in Message
  BY <1>1, EventType
<1>3. \/ events' = Append(events, e)
      \/ events' = events \o <<e, e>> /\ Fault("replay")
      \/ events' = events /\ Fault("swallowed")
  BY DEF Publishes, Publish, PublishTwice, PublishLost
<1> HIDE DEF e
<1>4. CASE events' = Append(events, e)
  <2>1. /\ Len(events') = Len(events) + 1 /\ \A i \in 1 .. Len(events) : events'[i] = events[i]
        /\ events'[Len(events) + 1] = e
    BY <1>0, <1>2, <1>4
  <2>2. \A i \in Len(events) + 1 .. Len(events') : events'[i] = e
    BY <1>0, <2>1
  <2> QED
    BY <1>0, <1>1, <2>1, <2>2 DEF e
<1>5. CASE events' = events \o <<e, e>> /\ Fault("replay")
  <2>1. faults'["replay"] > 0
    BY <1>0, <1>5, FaultCounts DEF Kind
  <2>2. Len(<<e, e>>) = 2 /\ <<e, e>> \in Seq(Message) /\ <<e, e>>[1] = e /\ <<e, e>>[2] = e
    BY <1>2
  <2>3. /\ Len(events') = Len(events) + 2 /\ \A i \in 1 .. Len(events) : events'[i] = events[i]
        /\ events'[Len(events) + 1] = e /\ events'[Len(events) + 2] = e
    BY <1>0, <1>5, <2>2
  <2>4. \A i \in Len(events) + 1 .. Len(events') : events'[i] = e
    <3>1. ASSUME NEW i \in Len(events) + 1 .. Len(events')
          PROVE  i = Len(events) + 1 \/ i = Len(events) + 2
      BY <1>0, <2>3
    <3> QED
      BY <2>3, <3>1
  <2> QED
    BY <1>0, <1>1, <2>1, <2>3, <2>4 DEF e
<1>6. CASE events' = events /\ Fault("swallowed")
  <2>1. faults'["swallowed"] > 0
    BY <1>0, <1>6, FaultCounts DEF Kind
  <2>2. Len(events') = Len(events) /\ \A i \in Len(events) + 1 .. Len(events') : FALSE
    BY <1>0, <1>6
  <2> QED
    BY <1>0, <1>1, <1>6, <2>1, <2>2
<1> QED
  BY <1>3, <1>4, <1>5, <1>6

\* A change to the rows writes no event.
LEMMA WritesNoEvent ==
  ASSUME Typed, NEW r \in Rpc, BrainStep(r), ~Publishes(r)
  PROVE  UNCHANGED <<events, consumer, versions, stored, faults>>
  BY BrainSplit DEF Add, Repeat, Request, Write, Begin

\* The log only grows, and overlaps are not forgotten.
LEMMA LogGrows ==
  ASSUME Typed, NEW r \in Rpc, BrainStep(r)
  PROVE  /\ UNCHANGED <<consumer, versions, stored>> /\ overlaps \subseteq overlaps'
         /\ Len(events) \in Nat /\ Len(events') \in Nat /\ Len(events') >= Len(events)
         /\ \A i \in 1 .. Len(events) : events'[i] = events[i]
<1>0. Len(events) \in Nat
  BY DEF Typed
<1>1. CASE Publishes(r)
  <2>1. Len(events') \in Len(events) .. Len(events) + 2
    BY <1>1, PublishesLog
  <2>2. Len(events') \in Nat /\ Len(events') >= Len(events)
    BY <1>0, <2>1
  <2>3. /\ UNCHANGED <<consumer, versions, stored>> /\ overlaps' = overlaps
        /\ \A i \in 1 .. Len(events) : events'[i] = events[i]
    BY <1>1, PublishesLog
  <2> QED
    BY <1>0, <2>2, <2>3
<1>2. CASE ~Publishes(r)
  <2>1. UNCHANGED <<events, consumer, versions, stored>>
    BY <1>2, WritesNoEvent
  <2>2. overlaps \subseteq overlaps'
    BY <1>2, BrainSplit DEF Add, Repeat, Request, Write, Begin
  <2> QED
    BY <1>0, <2>1, <2>2
<1> QED
  BY <1>1, <1>2

\* Calls that began on a document before another one ended overlap.
LEMMA OneCallBegin ==
  ASSUME Typed, OneCall, NEW r \in Rpc, NEW c \in Writing \cup Publishing, Begin(r, c)
  PROVE  /\ OneCall'
         /\ c.doc \notin overlaps' => \A q \in Rpc : ~On(q, c.doc)
         /\ \A q \in Rpc, d \in Doc : On(q, d)' <=> On(q, d) \/ (q = r /\ d = c.doc)
<1>1. /\ call[r] = Idle /\ call'[r] = c /\ c # Idle
      /\ \A q \in Rpc : q # r => call'[q] = call[q]
  BY BeginType
<1>2. overlaps' = IF Busy(c.doc) THEN overlaps \cup {c.doc} ELSE overlaps
  BY DEF Begin
<1>3. \A q \in Rpc, d \in Doc : On(q, d)' <=> On(q, d) \/ (q = r /\ d = c.doc)
  BY <1>1 DEF On
<1>4. c.doc \notin overlaps' => \A q \in Rpc : ~On(q, c.doc)
  BY <1>2 DEF Busy, On
<1>5. OneCall'
  <2> SUFFICES ASSUME NEW q \in Rpc, NEW s \in Rpc, NEW d \in Doc, q # s, On(q, d)', On(s, d)'
               PROVE  d \in overlaps'
    BY DEF OneCall
  <2>1. CASE On(q, d) /\ On(s, d)
    BY <1>2, <2>1 DEF OneCall
  <2>2. CASE ~(On(q, d) /\ On(s, d))
    BY <1>3, <1>4, <2>2
  <2> QED
    BY <2>1, <2>2
<1> QED
  BY <1>3, <1>4, <1>5

\* A call that goes on or ends is about the document it was about.
LEMMA OneCallStep ==
  ASSUME Typed, OneCall, NEW r \in Rpc, BrainStep(r)
  PROVE  OneCall'
<1>1. ASSUME NEW d \in Doc, NEW t \in Text, Add(r, d, t) PROVE OneCall'
  <2> DEFINE c == [phase |-> "publish", action |-> "create", doc |-> d, text |-> t]
  <2>1. c \in Publishing
    BY DEF Publishing, Action
  <2>2. Begin(r, c)
    BY <1>1 DEF Add
  <2> HIDE DEF c
  <2> QED
    BY <2>1, <2>2, OneCallBegin
<1>2. ASSUME NEW d \in Doc, NEW t \in Text \cup {Kept}, NEW a \in {"update", "delete"},
             Request(r, a, d, t)
      PROVE  OneCall'
  <2> DEFINE c == [phase |-> "write", action |-> a, doc |-> d, text |-> t]
  <2>1. c \in Writing
    BY DEF Writing
  <2>2. Begin(r, c)
    BY <1>2 DEF Request
  <2> HIDE DEF c
  <2> QED
    BY <2>1, <2>2, OneCallBegin
<1>3. CASE Write(r)
  <2>1. PICK t : /\ call[r].phase = "write" /\ overlaps' = overlaps
                 /\ \/ call' = [call EXCEPT ![r] = Idle]
                    \/ call' = [call EXCEPT ![r] = [call[r] EXCEPT !.phase = "publish", !.text = t]]
    BY <1>3 DEF Write
  <2>2. call[r] \in Writing /\ call[r] # Idle
    BY <2>1, CallType
  <2>3. [call[r] EXCEPT !.phase = "publish", !.text = t].doc = call[r].doc
    BY <2>2 DEF Writing
  <2>4. \A q \in Rpc, d \in Doc : On(q, d)' => On(q, d)
    BY <2>1, <2>2, <2>3 DEF On, Typed
  <2> QED
    BY <2>1, <2>4 DEF OneCall
<1>4. CASE Publishes(r)
  <2>1. \A q \in Rpc, d \in Doc : On(q, d)' => On(q, d)
    BY <1>4, PublishesLog DEF On, Typed
  <2>2. overlaps' = overlaps
    BY <1>4, PublishesLog
  <2> QED
    BY <2>1, <2>2 DEF OneCall
<1>5. ASSUME NEW d \in Doc, Repeat(r, d) PROVE OneCall'
  BY <1>5, RepeatCall, OneCallBegin
<1> QED
  BY <1>1, <1>2, <1>3, <1>4, <1>5, BrainSplit

-----------------------------------------------------------------------------
(* Rows, calls and events of a document whose calls do not overlap. *)

RowFits(d) ==
    /\ rows[d] = "absent" => Silent(events, d, Len(events) + 1) /\ \A r \in Rpc : ~On(r, d)
    /\ \A r \in Rpc : On(r, d) =>
           /\ call[r].phase = "write" => rows[d] \in Text
           /\ call[r].phase = "publish" =>
                  rows[d] = IF call[r].action = "delete" THEN "gone" ELSE call[r].text
           /\ call[r].action = "create" => Silent(events, d, Len(events) + 1)

\* What is so of a document stays so while neither its row, its calls nor its
\* events change.
LEMMA RowFitsSame ==
  ASSUME NEW d, RowFits(d), rows'[d] = rows[d],
         \A q \in Rpc : On(q, d)' => On(q, d) /\ call'[q] = call[q],
         Silent(events, d, Len(events) + 1) => Silent(events, d, Len(events) + 1)'
  PROVE  RowFits(d)'
  BY DEF RowFits

\* A call that begins finds its row as it expects it.
LEMMA CallsFitBegin ==
  ASSUME Typed, OneCall, CallsFit, NEW r \in Rpc, NEW c \in Writing \cup Publishing, Begin(r, c),
         events' = events, \A x \in Doc : x # c.doc => rows'[x] = rows[x],
         c.phase = "write" => /\ rows'[c.doc] = rows[c.doc] /\ rows[c.doc] \in Text
                              /\ c.action # "create",
         c.phase = "publish" =>
             /\ rows'[c.doc] = c.text
             /\ \/ rows[c.doc] = "absent" /\ c.action = "create"
                \/ c.action = "update"
  PROVE  CallsFit'
<1>1. /\ call[r] = Idle /\ call'[r] = c /\ c # Idle
      /\ \A q \in Rpc : q # r => call'[q] = call[q]
  BY BeginType
<1>2. /\ c.doc \notin overlaps' => \A q \in Rpc : ~On(q, c.doc)
      /\ \A q \in Rpc, d \in Doc : On(q, d)' <=> On(q, d) \/ (q = r /\ d = c.doc)
  BY OneCallBegin
<1>3. /\ c.phase \in {"write", "publish"} /\ c.doc \in Doc
      /\ c.phase = "publish" => c.text \in Text
  BY DEF Writing, Publishing
<1>4. overlaps \subseteq overlaps'
  BY DEF Begin
<1>5. ASSUME NEW d \in Doc \ overlaps', d # c.doc PROVE RowFits(d)'
  <2>1. RowFits(d)
    BY <1>4, <1>5 DEF CallsFit, RowFits
  <2>2. \A q \in Rpc : On(q, d)' => On(q, d) /\ call'[q] = call[q]
    BY <1>1, <1>2, <1>5 DEF On
  <2> QED
    BY <1>5, <2>1, <2>2, RowFitsSame
<1>6. ASSUME c.doc \notin overlaps' PROVE RowFits(c.doc)'
  <2>1. rows'[c.doc] # "absent"
    BY <1>3
  <2>2. ASSUME NEW q \in Rpc, On(q, c.doc)' PROVE q = r /\ call'[q] = c
    BY <1>1, <1>2, <1>3, <1>6, <2>2
  <2>3. rows[c.doc] = "absent" => Silent(events, c.doc, Len(events) + 1)
    BY <1>3, <1>4, <1>6 DEF CallsFit
  <2>4. Silent(events, c.doc, Len(events) + 1)' <=> Silent(events, c.doc, Len(events) + 1)
    BY DEF Silent
  <2> QED
    BY <1>3, <2>1, <2>2, <2>3, <2>4 DEF RowFits
<1> QED
  BY <1>3, <1>5, <1>6 DEF CallsFit, RowFits

\* Rows and calls fit each other after every step of a call.
LEMMA CallsFitStep ==
  ASSUME Typed, OneCall, CallsFit, NEW r \in Rpc, BrainStep(r)
  PROVE  CallsFit'
<1>1. ASSUME NEW d \in Doc, NEW t \in Text, Add(r, d, t) PROVE CallsFit'
  <2> DEFINE c == [phase |-> "publish", action |-> "create", doc |-> d, text |-> t]
  <2>1. /\ c \in Publishing /\ c.doc = d /\ c.phase = "publish" /\ c.action = "create"
        /\ c.text = t
    BY DEF Publishing, Action
  <2>2. Begin(r, c) /\ rows' = [rows EXCEPT ![d] = t] /\ rows[d] = "absent" /\ events' = events
    BY <1>1 DEF Add
  <2> HIDE DEF c
  <2>3. rows'[d] = t /\ \A x \in Doc : x # d => rows'[x] = rows[x]
    BY <2>2 DEF Typed
  <2> QED
    BY <2>1, <2>2, <2>3, CallsFitBegin
<1>2. ASSUME NEW d \in Doc, NEW t \in Text \cup {Kept}, NEW a \in {"update", "delete"},
             Request(r, a, d, t)
      PROVE  CallsFit'
  <2> DEFINE c == [phase |-> "write", action |-> a, doc |-> d, text |-> t]
  <2>1. c \in Writing /\ c.doc = d /\ c.phase = "write" /\ c.action # "create"
    BY DEF Writing
  <2>2. Begin(r, c) /\ rows' = rows /\ rows[d] \in Text /\ events' = events
    BY <1>2 DEF Request
  <2> HIDE DEF c
  <2> QED
    BY <2>1, <2>2, CallsFitBegin
<1>3. CASE Write(r)
  <2> DEFINE c == call[r]
             x == c.doc
             t == IF c.text = Kept THEN rows[x] ELSE c.text
             w == [c EXCEPT !.phase = "publish", !.text = t]
  <2>1. /\ c.phase = "write" /\ overlaps' = overlaps /\ events' = events
        /\ IF rows[x] = "gone"
           THEN call' = [call EXCEPT ![r] = Idle] /\ UNCHANGED rows
           ELSE /\ rows' = [rows EXCEPT ![x] = IF c.action = "delete" THEN "gone" ELSE t]
                /\ call' = [call EXCEPT ![r] = w]
    BY <1>3 DEF Write
  <2>2. c \in Writing /\ c # Idle /\ x \in Doc /\ c.action \in {"update", "delete"}
    BY <2>1, CallType
  <2>3. w.doc = x /\ w.action = c.action /\ w.text = t /\ w.phase = "publish" /\ w # Idle
    BY <2>2 DEF Writing, Idle
  <2> HIDE DEF w
  <2>4. \A q \in Rpc : q # r => call'[q] = call[q]
    BY <2>1 DEF Typed
  <2>5. ASSUME NEW d \in Doc \ overlaps', d # x PROVE RowFits(d)'
    <3>1. RowFits(d) /\ rows'[d] = rows[d]
      BY <2>1, <2>5 DEF CallsFit, RowFits, Typed
    <3>2. \A q \in Rpc : On(q, d)' => On(q, d) /\ call'[q] = call[q]
      BY <2>1, <2>3, <2>4, <2>5 DEF On, Typed
    <3> QED
      BY <2>1, <3>1, <3>2, RowFitsSame
  <2>6. ASSUME NEW d \in Doc \ overlaps', d = x PROVE RowFits(d)'
    <3>1. On(r, d) /\ rows[d] \in Text
      BY <2>1, <2>2, <2>6 DEF CallsFit, On
    <3>2. /\ rows'[d] = IF c.action = "delete" THEN "gone" ELSE t
          /\ call'[r] = w /\ t # "absent"
      <4>1. rows[x] # "gone" /\ c.text \in Text \cup {Kept}
        BY <2>1, <2>6, <3>1, CallType
      <4>2. t \in Text
        BY <2>6, <3>1, <4>1
      <4> QED
        BY <2>1, <2>2, <2>6, <4>1, <4>2 DEF Typed
    <3>3. ASSUME NEW q \in Rpc, On(q, d)' PROVE q = r
      BY <2>1, <2>2, <2>4, <2>6, <3>1, <3>3 DEF OneCall, On
    <3> QED
      BY <2>2, <2>3, <3>2, <3>3 DEF RowFits
  <2> QED
    BY <2>2, <2>5, <2>6 DEF CallsFit, RowFits
<1>4. CASE Publishes(r)
  <2> DEFINE e == Event(call[r])
  <2>1. /\ call[r].phase = "publish" /\ call' = [call EXCEPT ![r] = Idle]
        /\ rows' = rows /\ overlaps' = overlaps
        /\ \A i \in 1 .. Len(events) : events'[i] = events[i]
        /\ \A i \in Len(events) + 1 .. Len(events') : events'[i] = e
        /\ Len(events) \in Nat /\ Len(events') \in Nat
    BY <1>4, PublishesLog DEF Typed
  <2>2. e.doc = call[r].doc /\ call[r] # Idle /\ call[r].doc \in Doc
    BY <2>1, EventType, CallType
  <2> HIDE DEF e
  <2>3. ASSUME NEW d \in Doc, d # e.doc, Silent(events, d, Len(events) + 1)
        PROVE  Silent(events, d, Len(events) + 1)'
    BY <2>1, <2>3 DEF Silent
  <2>4. ASSUME NEW d \in Doc \ overlaps' PROVE RowFits(d)'
    <3>1. RowFits(d) /\ \A q \in Rpc : On(q, d)' => On(q, d) /\ call'[q] = call[q] /\ q # r
      BY <2>1, <2>4 DEF CallsFit, RowFits, On, Typed
    <3>2. CASE d # e.doc
      BY <2>1, <2>3, <3>1, <3>2, RowFitsSame
    <3>3. CASE d = e.doc
      <4>1. On(r, d)
        BY <2>2, <3>3 DEF On
      <4>2. rows[d] # "absent" /\ \A q \in Rpc : q # r => ~On(q, d)
        BY <2>1, <2>4, <3>1, <4>1 DEF RowFits, OneCall
      <4> QED
        BY <2>1, <3>1, <4>2 DEF RowFits
    <3> QED
      BY <3>2, <3>3
  <2> QED
    BY <2>4 DEF CallsFit, RowFits
<1>5. ASSUME NEW d \in Doc, Repeat(r, d) PROVE CallsFit'
  <2>1. PICK c \in Publishing :
          /\ Begin(r, c) /\ c.doc = d /\ c.phase = "publish" /\ c.action = "update"
          /\ c.text = rows[d] /\ rows' = rows /\ events' = events
    BY <1>5, RepeatCall
  <2> QED
    BY <2>1, CallsFitBegin
<1> QED
  BY <1>1, <1>2, <1>3, <1>4, <1>5, BrainSplit

\* A creation is the first event of its document.
LEMMA CreatesFirstStep ==
  ASSUME Typed, CallsFit, CreatesFirst, NEW r \in Rpc, BrainStep(r)
  PROVE  CreatesFirst'
<1>1. overlaps \subseteq overlaps' /\ Len(events') >= Len(events)
      /\ \A i \in 1 .. Len(events) : events'[i] = events[i]
  BY LogGrows
<1>2. CASE ~Publishes(r)
  BY <1>1, <1>2, WritesNoEvent DEF CreatesFirst
<1>3. CASE Publishes(r)
  <2> DEFINE e == Event(call[r])
  <2>1. /\ call[r].phase = "publish" /\ overlaps' = overlaps
        /\ \A i \in Len(events) + 1 .. Len(events') : events'[i] = e
        /\ Len(events) \in Nat /\ Len(events') \in Nat
    BY <1>3, PublishesLog DEF Typed
  <2>2. e.doc = call[r].doc /\ e.action = call[r].action /\ call[r] # Idle /\ e.doc \in Doc
    BY <2>1, EventType, CallType
  <2>3. e.doc \notin overlaps /\ e.action = "create" => Silent(events, e.doc, Len(events) + 1)
    BY <2>2 DEF CallsFit, On
  <2> HIDE DEF e
  <2>4. ASSUME NEW d \in Doc \ overlaps', NEW i \in 1 .. Len(events'), NEW j \in 1 .. Len(events'),
               j < i, events'[i].doc = d, events'[j].doc = d, events'[i].action = "create"
        PROVE  events'[j] = events'[i]
    <3>1. CASE i \in 1 .. Len(events)
      <4>1. j \in 1 .. Len(events)
        BY <2>1, <2>4, <3>1
      <4> QED
        BY <1>1, <2>1, <2>4, <3>1, <4>1 DEF CreatesFirst
    <3>2. CASE i \notin 1 .. Len(events)
      <4>1. events'[i] = e
        BY <2>1, <2>4, <3>2
      <4>2. CASE j \in 1 .. Len(events)
        <5>1. events[j].doc = d /\ Silent(events, d, Len(events) + 1)
          BY <1>1, <2>1, <2>3, <2>4, <4>1, <4>2
        <5> QED
          BY <2>1, <4>2, <5>1 DEF Silent
      <4>3. CASE j \notin 1 .. Len(events)
        BY <2>1, <2>4, <4>1, <4>3
      <4> QED
        BY <4>2, <4>3
    <3> QED
      BY <3>1, <3>2
  <2> QED
    BY <2>4 DEF CreatesFirst
<1> QED
  BY <1>2, <1>3

\* The place of the last event, and what it says.
LEMMA LastOne ==
  ASSUME NEW es, NEW d, NEW k \in Nat, NEW i, NEW j,
         LastBefore(es, d, k, i), LastBefore(es, d, k, j)
  PROVE  i = j
  BY DEF LastBefore

LastSaid(d) ==
    \E i \in 1..Len(events) : LastBefore(events, d, Len(events) + 1, i) /\ Says(events[i], rows[d])

\* Unless its event is lost, the last event says what the row says.
LEMMA LastSaysStep ==
  ASSUME Typed, OneCall, CallsFit, LastSays, NEW r \in Rpc, BrainStep(r), Failures = 0
  PROVE  faults'["swallowed"] = 0 => LastSays'
<1>0. Len(events) \in Nat /\ faults \in [Kind -> Nat]
  BY DEF Typed
<1>1. overlaps \subseteq overlaps'
  BY LogGrows
<1>2. \A d \in Doc \ overlaps : \/ rows[d] = "absent" \/ LastSaid(d)
                                \/ \E q \in Rpc : On(q, d) /\ call[q].phase = "publish"
  BY DEF LastSays, LastSaid
<1> SUFFICES ASSUME faults'["swallowed"] = 0, NEW d \in Doc \ overlaps'
             PROVE  (\/ rows[d] = "absent" \/ LastSaid(d)
                     \/ \E q \in Rpc : On(q, d) /\ call[q].phase = "publish")'
  BY DEF LastSays, LastSaid
<1>3. CASE ~Publishes(r) /\ rows'[d] = rows[d]
           /\ \A q \in Rpc : call[q] # Idle /\ call[q].phase = "publish" => call'[q] = call[q]
  BY <1>1, <1>2, <1>3, WritesNoEvent DEF LastSaid, On
<1>4. ASSUME NEW x \in Doc, NEW t \in Text, Add(r, x, t)
      PROVE  (\/ rows[d] = "absent" \/ LastSaid(d)
              \/ \E q \in Rpc : On(q, d) /\ call[q].phase = "publish")'
  <2> DEFINE c == [phase |-> "publish", action |-> "create", doc |-> x, text |-> t]
  <2>1. c \in Publishing /\ c.doc = x /\ c.phase = "publish"
    BY DEF Publishing, Action
  <2>2. Begin(r, c) /\ rows' = [rows EXCEPT ![x] = t] /\ events' = events
    BY <1>4 DEF Add
  <2> HIDE DEF c
  <2>3. /\ call[r] = Idle /\ call'[r] = c /\ c # Idle
        /\ \A q \in Rpc : q # r => call'[q] = call[q]
    BY <2>1, <2>2, BeginType
  <2>4. CASE x = d
    BY <2>1, <2>3, <2>4 DEF On
  <2>5. CASE x # d
    <3>1. rows'[d] = rows[d]
      BY <2>2, <2>5 DEF Typed
    <3> QED
      BY <1>1, <1>2, <2>2, <2>3, <3>1 DEF LastSaid, On
  <2> QED
    BY <2>4, <2>5
<1>5. ASSUME NEW x \in Doc, NEW t \in Text \cup {Kept}, NEW a \in {"update", "delete"},
             Request(r, a, x, t)
      PROVE  (\/ rows[d] = "absent" \/ LastSaid(d)
              \/ \E q \in Rpc : On(q, d) /\ call[q].phase = "publish")'
  <2> DEFINE c == [phase |-> "write", action |-> a, doc |-> x, text |-> t]
  <2>1. c \in Writing
    BY DEF Writing
  <2>2. Begin(r, c) /\ rows' = rows /\ events' = events
    BY <1>5 DEF Request
  <2> HIDE DEF c
  <2>3. call[r] = Idle /\ \A q \in Rpc : q # r => call'[q] = call[q]
    BY <2>1, <2>2, BeginType
  <2> QED
    BY <1>1, <1>2, <2>2, <2>3 DEF LastSaid, On
<1>6. CASE Write(r)
  <2> DEFINE c == call[r]
             x == c.doc
             t == IF c.text = Kept THEN rows[x] ELSE c.text
             w == [c EXCEPT !.phase = "publish", !.text = t]
  <2>1. /\ c.phase = "write" /\ overlaps' = overlaps /\ events' = events
        /\ IF rows[x] = "gone"
           THEN call' = [call EXCEPT ![r] = Idle] /\ UNCHANGED rows
           ELSE /\ rows' = [rows EXCEPT ![x] = IF c.action = "delete" THEN "gone" ELSE t]
                /\ call' = [call EXCEPT ![r] = w]
    BY <1>6 DEF Write
  <2>2. c \in Writing /\ c # Idle /\ x \in Doc
    BY <2>1, CallType
  <2>3. w.doc = x /\ w.phase = "publish" /\ w # Idle
    BY <2>2 DEF Writing, Idle
  <2> HIDE DEF w
  <2>4. CASE x = d
    <3>1. rows[x] \in Text
      BY <1>1, <2>1, <2>2, <2>4 DEF CallsFit, On
    <3>2. call'[r] = w
      BY <2>1, <3>1 DEF Typed
    <3> QED
      BY <2>3, <2>4, <3>2 DEF On
  <2>5. CASE x # d
    <3>1. rows'[d] = rows[d] /\ \A q \in Rpc : q # r => call'[q] = call[q]
      BY <2>1, <2>5 DEF Typed
    <3> QED
      BY <1>1, <1>2, <2>1, <2>5, <3>1 DEF LastSaid, On
  <2> QED
    BY <2>4, <2>5
<1>7. CASE Publishes(r)
  <2> DEFINE e == Event(call[r])
             n == Len(events)
             m == Len(events')
  <2>1. /\ call[r].phase = "publish" /\ call' = [call EXCEPT ![r] = Idle]
        /\ rows' = rows /\ overlaps' = overlaps
        /\ m \in Nat /\ m > n /\ \A i \in 1 .. n : events'[i] = events[i]
        /\ \A i \in n + 1 .. m : events'[i] = e
    BY <1>0, <1>7, PublishesLog
  <2>2. /\ e.doc = call[r].doc /\ e.action = call[r].action /\ e.text = call[r].text
        /\ call[r] # Idle /\ e.doc \in Doc
    BY <2>1, EventType, CallType
  <2> HIDE DEF e
  <2>3. CASE e.doc = d
    <3>1. Says(e, rows[d])
      <4>1. On(r, d) /\ d \in Doc \ overlaps
        BY <1>1, <2>2, <2>3 DEF On
      <4>2. rows[d] = IF call[r].action = "delete" THEN "gone" ELSE call[r].text
        BY <2>1, <4>1 DEF CallsFit
      <4> QED
        BY <2>2, <4>2 DEF Says
    <3>2. LastBefore(events', d, m + 1, m)
      <4>1. m \in 1 .. (m + 1) - 1 /\ m \in n + 1 .. m /\ (m + 1) .. ((m + 1) - 1) = {}
        BY <1>0, <2>1
      <4> QED
        BY <2>1, <2>3, <4>1 DEF LastBefore
    <3> QED
      BY <1>0, <2>1, <3>1, <3>2 DEF LastSaid
  <2>4. CASE e.doc # d
    <3>1. CASE rows[d] = "absent"
      BY <2>1, <3>1
    <3>2. CASE \E q \in Rpc : On(q, d) /\ call[q].phase = "publish"
      BY <2>1, <2>2, <2>4, <3>2 DEF On, Typed
    <3>3. ASSUME NEW i \in 1 .. n, LastBefore(events, d, n + 1, i), Says(events[i], rows[d])
          PROVE  LastSaid(d)'
      <4>2. \A j \in (i + 1) .. m : events'[j].doc # d
        <5>1. \A j \in (i + 1) .. n : events[j].doc # d
          BY <1>0, <3>3 DEF LastBefore
        <5>2. ASSUME NEW j \in (i + 1) .. m PROVE events'[j].doc # d
          <6>1. CASE j <= n
            BY <1>0, <2>1, <5>1, <5>2, <6>1
          <6>2. CASE ~(j <= n)
            BY <1>0, <2>1, <2>4, <5>2, <6>2
          <6> QED
            BY <6>1, <6>2
        <5> QED
          BY <5>2
      <4>1. LastBefore(events', d, m + 1, i)
        BY <1>0, <2>1, <3>3, <4>2 DEF LastBefore
      <4> QED
        BY <1>0, <2>1, <3>3, <4>1 DEF LastSaid
    <3> QED
      BY <1>1, <1>2, <3>1, <3>2, <3>3 DEF LastSaid
  <2> QED
    BY <2>3, <2>4
<1>8. ASSUME NEW x \in Doc, Repeat(r, x)
      PROVE  (\/ rows[d] = "absent" \/ LastSaid(d)
              \/ \E q \in Rpc : On(q, d) /\ call[q].phase = "publish")'
  <2>1. PICK c \in Publishing : Begin(r, c) /\ rows' = rows /\ events' = events
    BY <1>8, RepeatCall
  <2>2. call[r] = Idle /\ \A q \in Rpc : q # r => call'[q] = call[q]
    BY <2>1, BeginType
  <2> QED
    BY <1>1, <1>2, <2>1, <2>2 DEF LastSaid, On
<1> QED
  BY <1>4, <1>5, <1>6, <1>7, <1>8, BrainSplit

\* A new event has its place as id, and one sent twice repeats the first.
LEMMA IdsStep ==
  ASSUME Typed, Ids, NEW r \in Rpc, BrainStep(r)
  PROVE  Ids'
<1>0. /\ Len(events) \in Nat /\ faults \in [Kind -> Nat]
      /\ faults'["replay"] \in Nat /\ faults'["replay"] >= faults["replay"]
  <2>1. faults' \in [Kind -> Nat] /\ \A k \in Kind : faults'[k] >= faults[k]
    BY FaultsStep DEF Next
  <2> QED
    BY <2>1 DEF Typed, Kind
<1>1. CASE ~Publishes(r)
  BY <1>1, WritesNoEvent DEF Ids, Repeats
<1>2. CASE Publishes(r)
  <2> DEFINE e == Event(call[r])
             n == Len(events)
             m == Len(events')
  <2>1. /\ m \in n .. n + 2 /\ \A i \in 1 .. n : events'[i] = events[i]
        /\ \A i \in n + 1 .. m : events'[i] = e
        /\ m = n + 2 => faults'["replay"] > 0
        /\ call[r].phase = "publish"
    BY <1>2, PublishesLog
  <2>2. e.id = n + 1
    BY <2>1, EventType
  <2> HIDE DEF e
  <2>3. ASSUME NEW i \in 1 .. n PROVE events'[i].id = i \/ Repeats(i)'
    <3>1. CASE events[i].id = i
      BY <2>1, <3>1
    <3>2. CASE Repeats(i)
      <4>1. i - 1 \in 1 .. n
        BY <1>0, <2>3, <3>2 DEF Repeats
      <4> QED
        <5>1. events'[i] = events[i] /\ events'[i - 1] = events[i - 1]
          BY <2>1, <2>3, <4>1
        <5> QED
          BY <1>0, <3>2, <5>1 DEF Repeats, Kind
    <3> QED
      BY <2>3, <3>1, <3>2 DEF Ids
  <2>4. ASSUME NEW i \in n + 1 .. m PROVE events'[i].id = i \/ Repeats(i)'
    <3>1. CASE i = n + 1
      BY <2>1, <2>2, <2>4, <3>1
    <3>2. CASE i = n + 2
      <4>1. m = n + 2 /\ i - 1 \in n + 1 .. m /\ i > 1
        BY <1>0, <2>1, <2>4, <3>2
      <4> QED
        BY <1>0, <2>1, <2>2, <2>4, <3>2, <4>1 DEF Repeats
    <3> QED
      BY <1>0, <2>1, <2>4, <3>1, <3>2
  <2> QED
    BY <1>0, <2>1, <2>3, <2>4 DEF Ids
<1> QED
  BY <1>1, <1>2

-----------------------------------------------------------------------------
(* The event in hand. *)

\* Ids are places, and two events with one id are the same.
LEMMA IdPlace ==
  ASSUME Typed, Ids, NEW i \in 1 .. Len(events)
  PROVE  /\ events[i] \in Message /\ events[i].id \in {i - 1, i} /\ events[i].doc \in Doc
         /\ events[i].id = i - 1 => i > 1 /\ events[i - 1] = events[i] /\ faults["replay"] > 0
<1>1. events[i] \in Message
  BY DEF Typed
<1> QED
  BY <1>1 DEF Ids, Repeats, Message

LEMMA SameId ==
  ASSUME Typed, Ids, NEW i \in 1 .. Len(events), NEW j \in 1 .. Len(events),
         events[i].id = events[j].id
  PROVE  events[i] = events[j]
<1>0. events[i].id \in {i - 1, i} /\ events[j].id \in {j - 1, j}
  BY IdPlace
<1>1. Len(events) \in Nat /\ events[i].id \in {i - 1, i} /\ events[j].id \in {j - 1, j}
  BY <1>0 DEF Typed
<1>2. CASE i = j
  BY <1>2
<1>3. CASE i = j - 1
  BY <1>1, <1>3, IdPlace
<1>4. CASE j = i - 1
  BY <1>1, <1>4, IdPlace
<1> QED
  BY <1>1, <1>2, <1>3, <1>4

\* The event in hand is the one before pos.
LEMMA InPlace ==
  ASSUME Typed, Ids, Taken, work # Idle
  PROVE  /\ pos - 1 \in 1 .. Len(events) /\ work.event = events[pos - 1]
         /\ work.event.id \in {pos - 2, pos - 1}
<1>1. pos > 1 /\ work.event = events[pos - 1] /\ pos \in 1 .. Len(events) + 1 /\ Len(events) \in Nat
  BY DEF Taken, Typed
<1>2. pos - 1 \in 1 .. Len(events)
  BY <1>1
<1>3. events[pos - 1].id \in {(pos - 1) - 1, pos - 1}
  BY <1>2, IdPlace
<1> QED
  BY <1>1, <1>2, <1>3

\* A step of the work on an event concerns its document alone.
LEMMA WorkStep ==
  ASSUME Typed, ConsumerStep, ~Take
  PROVE  /\ work # Idle /\ pos' = pos
         /\ work' = Idle \/ (work' # Idle /\ work'.event = work.event)
         /\ \A d \in Doc : d # work.event.doc => stored'[d] = stored[d] /\ versions'[d] = versions[d]
<1>1. work = Idle => work.phase = "idle"
  BY WorkType
<1>2. PromptFails \/ SkipUnchanged \/ Changed \/ HashFails \/ EmitDelete \/ DeleteUnsent \/ Erase
        \/ EraseFails \/ NoChunks \/ Store \/ StoreFails \/ Emit
        \/ \E n \in 0 .. Chunks - 1 : EmitFails(n)
  BY DEF ConsumerStep
<1>3. work # Idle
  BY <1>1, <1>2 DEF PromptFails, SkipUnchanged, Changed, HashFails, EmitDelete, DeleteUnsent,
        Erase, EraseFails, NoChunks, Store, StoreFails, Emit, EmitFails
<1>4. pos' = pos
  BY <1>2 DEF PromptFails, SkipUnchanged, Changed, HashFails, EmitDelete, DeleteUnsent,
        Erase, EraseFails, NoChunks, Store, StoreFails, Emit, EmitFails
<1>5. work' = Idle \/ \E p \in {"hash", "delete", "erase", "store", "emit"} : Hand(p)
  BY <1>2 DEF PromptFails, SkipUnchanged, Changed, HashFails, EmitDelete, DeleteUnsent, Finish,
        Erase, EraseFails, NoChunks, Store, StoreFails, Emit, EmitFails, Replace
<1>6. work' = Idle \/ (work' # Idle /\ work'.event = work.event)
  BY <1>3, <1>5, HandType
<1>7. stored' = stored \/ \E s : stored' = [stored EXCEPT ![work.event.doc] = s]
  BY <1>2 DEF PromptFails, SkipUnchanged, Changed, HashFails, EmitDelete, DeleteUnsent,
        Erase, EraseFails, NoChunks, Store, StoreFails, Emit, EmitFails, Sent
<1>8. versions' = versions \/ \E s : versions' = [versions EXCEPT ![work.event.doc] = s]
  BY <1>2 DEF PromptFails, SkipUnchanged, Changed, HashFails, EmitDelete, DeleteUnsent, Erased,
        Erase, EraseFails, NoChunks, Store, StoreFails, Emit, EmitFails
<1> QED
  BY <1>3, <1>4, <1>6, <1>7, <1>8 DEF Typed

\* The phases of an event, by its action.
Fits(w, blank) ==
    /\ w.phase \in {"hash", "store", "emit"} => w.event.action \in {"create", "update"}
    /\ w.phase \in {"delete", "erase"} => w.event.action \in {"delete", "update"}
    /\ w.phase = "emit" => w.event.text \notin blank

\* What is in hand, and what is remembered, was taken.
LEMMA TakenStep ==
  ASSUME Typed, Ids, Taken, ConsumerStep
  PROVE  Taken'
<1>0. /\ events' = events /\ Len(events) \in Nat /\ pos \in 1 .. Len(events) + 1
      /\ recent \in Seq(Nat) /\ \A i \in DOMAIN recent : recent[i] < pos
  BY ConsumerFrame DEF Typed, Taken
<1>1. CASE Take
  <2>1. /\ pos \in 1 .. Len(events) /\ pos' = pos + 1 /\ recent' = recent
        /\ events[pos] \in Message /\ events[pos].action \in Action
    <3>1. pos \in 1 .. Len(events) /\ pos' = pos + 1 /\ recent' = recent
      BY <1>0, <1>1 DEF Take
    <3>2. events[pos] \in Message
      BY <3>1 DEF Typed
    <3> QED
      BY <3>1, <3>2 DEF Message
  <2>2. \A i \in DOMAIN recent' : recent'[i] < pos'
    <3> SUFFICES ASSUME NEW i \in DOMAIN recent PROVE recent[i] < pos + 1
      BY <2>1
    <3>1. recent[i] \in Nat
      BY <1>0
    <3> QED
      BY <1>0, <3>1
  <2>3. work' # Idle =>
          /\ work'.event = events[pos]
          /\ work'.phase = IF events[pos].action = "delete" THEN "delete" ELSE "hash"
    BY <1>1 DEF Take
  <2> QED
    BY <1>0, <2>1, <2>2, <2>3 DEF Taken, Action
<1>2. CASE ~Take
  <2>1. /\ work # Idle /\ pos' = pos /\ Fits(work, Blank)
        /\ work' = Idle \/ work'.event = work.event
    BY <1>2, WorkStep DEF Taken, Fits
  <2>2. \A i \in DOMAIN recent' : recent'[i] < pos'
    <3>1. recent' = recent \/ Finish
      BY <1>2 DEF ConsumerStep, PromptFails, SkipUnchanged, Changed, HashFails, EmitDelete,
            DeleteUnsent, Erase, EraseFails, NoChunks, Store, StoreFails, Emit, EmitFails
    <3>2. work.event.id < pos
      BY <1>0, <2>1, InPlace
    <3> QED
      BY <1>0, <2>1, <3>1, <3>2, FinishType
  <2>3. work' = Idle \/ Fits(work', Blank)
    <3>1. \/ work' = Idle
          \/ work.phase = "hash" /\ Replace
          \/ work.phase = "delete" /\ Hand("erase")
          \/ work.phase = "erase" /\ work.event.action # "delete" /\ Hand("store")
          \/ work.phase = "store" /\ work.event.text \notin Blank /\ Hand("emit")
      BY <1>2 DEF ConsumerStep, PromptFails, SkipUnchanged, Changed, HashFails, EmitDelete, Finish,
            DeleteUnsent, Erase, EraseFails, NoChunks, Store, StoreFails, Emit, EmitFails
    <3>2. CASE work.phase = "hash" /\ Replace
      BY <2>1, <3>2, ReplaceHands DEF Fits
    <3>3. CASE work.phase = "delete" /\ Hand("erase")
      BY <2>1, <3>3, HandType DEF Fits
    <3>4. CASE work.phase = "erase" /\ work.event.action # "delete" /\ Hand("store")
      BY <2>1, <3>4, HandType DEF Fits
    <3>5. CASE work.phase = "store" /\ work.event.text \notin Blank /\ Hand("emit")
      BY <2>1, <3>5, HandType DEF Fits
    <3> QED
      BY <3>1, <3>2, <3>3, <3>4, <3>5
  <2> QED
    BY <1>0, <2>1, <2>2, <2>3 DEF Taken, Fits
<1> QED
  BY <1>1, <1>2

LEMMA ToldInit == Init => Told
<1> SUFFICES ASSUME Init PROVE Told
  OBVIOUS
<1>1. /\ \A r \in Rpc : call[r] = Idle
      /\ events = <<>> /\ Len(events) = 0 /\ recent = <<>> /\ work = Idle
      /\ \A d \in Doc : rows[d] = "absent"
  BY DEF Init
<1>2. Present /\ OneCall
  BY <1>1 DEF Present, OneCall, On
<1>3. CallsFit /\ LastSays
  BY <1>1 DEF CallsFit, LastSays, On, Silent
<1>4. CreatesFirst /\ Ids
  BY <1>1 DEF CreatesFirst, Ids
<1>5. Taken
  BY <1>1 DEF Taken
<1> QED
  BY <1>2, <1>3, <1>4, <1>5, TypedInit DEF Told

\* Calls, rows and events fit each other after every step.
LEMMA ToldStep == Told /\ [Next]_vars => Told'
<1> SUFFICES ASSUME Told, [Next]_vars PROVE Told'
  OBVIOUS
<1>0. Typed' /\ Present' /\ (Failures' = 0 => Failures = 0)
  BY TypedStep, FailuresStep DEF Told
<1> USE DEF Told
<1>1. ASSUME NEW r \in Rpc, BrainStep(r) PROVE Told'
  <2>1. OneCall' /\ CallsFit' /\ CreatesFirst' /\ Ids'
    BY <1>1, OneCallStep, CallsFitStep, CreatesFirstStep, IdsStep
  <2>2. LastSays'
    <3>1. CASE Failures' = 0
      <4>1. faults'["swallowed"] = 0
        <5>1. /\ faults'["loud"] \in Nat /\ faults'["swallowed"] \in Nat /\ faults'["cut"] \in Nat
              /\ faults'["loud"] + faults'["swallowed"] + faults'["cut"] = 0
          BY <1>0, <3>1 DEF Typed, Failures, Kind
        <5> QED
          BY <5>1
      <4> QED
        BY <1>0, <1>1, <3>1, <4>1, LastSaysStep
    <3> QED
      BY <3>1 DEF LastSays
  <2>3. Taken'
    <3>1. /\ UNCHANGED consumer /\ pos \in 1 .. Len(events) + 1 /\ Len(events) \in Nat
          /\ \A i \in 1 .. Len(events) : events'[i] = events[i]
      BY <1>1, LogGrows DEF Typed
    <3>2. pos > 1 => events'[pos - 1] = events[pos - 1]
      BY <3>1
    <3> QED
      BY <3>1, <3>2 DEF Taken
  <2> QED
    BY <1>0, <2>1, <2>2, <2>3
<1>2. CASE ConsumerStep \/ Commit \/ Crash \/ Rests \/ UNCHANGED vars
  <2>1. brain' = brain /\ events' = events
    BY <1>2, ConsumerFrame
  <2>2. OneCall' /\ CallsFit' /\ CreatesFirst'
    BY <2>1 DEF OneCall, CallsFit, CreatesFirst, On, Silent
  <2>3. LastSays'
    BY <1>0, <2>1 DEF LastSays, On, LastBefore
  <2>4. Ids'
    <3>1. faults["replay"] \in Nat /\ faults'["replay"] \in Nat
          /\ faults'["replay"] >= faults["replay"]
      BY FaultsStep DEF Typed, Kind
    <3>2. ASSUME NEW i \in 1 .. Len(events), Repeats(i) PROVE Repeats(i)'
      BY <2>1, <3>1, <3>2 DEF Repeats
    <3> QED
      BY <2>1, <3>2 DEF Ids
  <2>5. Taken'
    <3>1. CASE ConsumerStep
      BY <3>1, TakenStep
    <3>2. CASE Commit
      BY <3>2 DEF Commit, Taken
    <3>3. CASE Crash
      BY <3>3 DEF Crash, Taken
    <3>4. CASE Rests \/ UNCHANGED vars
      BY <3>4 DEF Rests, Taken
    <3> QED
      BY <1>2, <3>1, <3>2, <3>3, <3>4
  <2> QED
    BY <1>0, <2>2, <2>3, <2>4, <2>5
<1> QED
  BY <1>1, <1>2 DEF Next

-----------------------------------------------------------------------------
(* What the stores hold, by the log. *)

\* The stores agree with an event of their document that they hold.
LEMMA AgreeOwn ==
  ASSUME Typed, NEW d, NEW k \in 1 .. Len(events), events[k].doc = d, Holds(d, events[k])
  PROVE  Agree(d, k + 1)
<1>1. LastBefore(events, d, k + 1, k)
  BY DEF LastBefore, Typed
<1> QED
  BY <1>1 DEF Agree

\* An event of another document changes nothing in that.
LEMMA AgreeOther ==
  ASSUME Typed, NEW d, NEW k \in 1 .. Len(events), events[k].doc # d, Agree(d, k)
  PROVE  Agree(d, k + 1)
<1>1. CASE Silent(events, d, k) /\ Empty(d)
  BY <1>1 DEF Agree, Silent
<1>2. ASSUME NEW i \in 1 .. k - 1, LastBefore(events, d, k, i), Holds(d, events[i])
      PROVE  Agree(d, k + 1)
  <2>1. LastBefore(events, d, k + 1, i) /\ i \in 1 .. (k + 1) - 1
    BY <1>2 DEF LastBefore
  <2> QED
    BY <1>2, <2>1 DEF Agree
<1> QED
  BY <1>1, <1>2 DEF Agree

\* What is explained stays so while the stores and the log stay.
LEMMA ExplainedSame ==
  ASSUME NEW d, NEW k, Explained(d, k), events' = events,
         stored'[d] = stored[d], versions'[d] = versions[d]
  PROVE  Explained(d, k)'
<1>1. \A e : Holds(d, e) => Holds(d, e)'
  BY DEF Holds, Empty
<1>2. \A m : Agree(d, m) => Agree(d, m)'
  BY <1>1 DEF Agree, Empty
<1>3. Mixed(d, k) => Mixed(d, k)'
  BY DEF Mixed
<1> QED
  BY <1>2, <1>3 DEF Explained

\* And while the log grows.
LEMMA MixedLog ==
  ASSUME Typed, CallsFit, NEW r \in Rpc, BrainStep(r), NEW d \in Doc \ overlaps', NEW k \in Nat,
         Mixed(d, k)
  PROVE  Mixed(d, k)'
<1>1. /\ overlaps \subseteq overlaps' /\ stored' = stored /\ versions' = versions
      /\ \A i \in 1 .. Len(events) : events'[i] = events[i]
  BY LogGrows
<1>2. Len(events) \in Nat /\ Len(events') \in Nat /\ Len(events') >= Len(events)
  BY LogGrows
<1>3. PICK j \in 1 .. Len(events) :
        /\ events[j].doc = d /\ events[j].action = "update" /\ events[j].id >= k
        /\ events[j].text # Last(versions[d])
  BY DEF Mixed
<1>4. j \in 1 .. Len(events') /\ events'[j] = events[j]
  BY <1>1, <1>2
<1>5. ASSUME NEW i \in 1 .. Len(events'), events'[i].doc = d, events'[i].action = "create"
      PROVE  events'[i].text = Last(versions[d])
  <2>1. CASE i \in 1 .. Len(events)
    BY <1>1, <1>5, <2>1 DEF Mixed
  <2>2. CASE i \notin 1 .. Len(events)
    <3>1. i \in Len(events) + 1 .. Len(events')
      BY <1>2, <1>5, <2>2
    <3>2. Publishes(r)
      BY <1>2, <3>1, WritesNoEvent
    <3>3. events'[i] = Event(call[r]) /\ call[r].phase = "publish"
      BY <3>1, <3>2, PublishesLog
    <3>4. On(r, d) /\ call[r].action = "create"
      BY <1>5, <3>3, EventType, CallType DEF On
    <3>5. Silent(events, d, Len(events) + 1)
      BY <1>1, <3>4 DEF CallsFit
    <3> QED
      BY <1>2, <1>3, <3>5 DEF Silent
  <2> QED
    BY <2>1, <2>2
<1> QED
  BY <1>1, <1>3, <1>4, <1>5 DEF Mixed

\* What is explained stays so while the log grows.
LEMMA ExplainedLog ==
  ASSUME Typed, CallsFit, NEW r \in Rpc, BrainStep(r), NEW d \in Doc \ overlaps', NEW k \in Nat,
         Explained(d, k)
  PROVE  Explained(d, k)'
<1>1. /\ overlaps \subseteq overlaps' /\ stored' = stored /\ versions' = versions
      /\ \A i \in 1 .. Len(events) : events'[i] = events[i]
  BY LogGrows
<1>2. Len(events) \in Nat /\ Len(events') \in Nat /\ Len(events') >= Len(events)
  BY LogGrows
<1>3. \A e : Holds(d, e) => Holds(d, e)'
  BY <1>1 DEF Holds, Empty
<1>4. ASSUME NEW m \in k .. Len(events) + 1, Agree(d, m) PROVE Agree(d, m)'
  <2>1. \A i \in 1 .. m - 1 : i \in 1 .. Len(events) /\ events'[i] = events[i]
    BY <1>1, <1>2, <1>4
  <2>2. CASE Silent(events, d, m) /\ Empty(d)
    BY <1>1, <2>1, <2>2 DEF Agree, Silent, Empty
  <2>3. ASSUME NEW i \in 1 .. m - 1, LastBefore(events, d, m, i), Holds(d, events[i])
        PROVE  Agree(d, m)'
    <3>1. \A j \in (i + 1) .. (m - 1) : j \in 1 .. m - 1
      BY <1>2, <1>4, <2>3
    <3>2. LastBefore(events', d, m, i)
      BY <2>1, <2>3, <3>1 DEF LastBefore
    <3> QED
      BY <1>3, <2>1, <2>3, <3>2 DEF Agree
  <2> QED
    BY <1>4, <2>2, <2>3 DEF Agree
<1>5. Mixed(d, k) => Mixed(d, k)'
  BY MixedLog
<1>6. \A m \in k .. Len(events) + 1 : m \in k .. Len(events') + 1
  BY <1>2
<1>7. CASE Mixed(d, k)
  BY <1>5, <1>7 DEF Explained
<1>8. ASSUME NEW m \in k .. Len(events) + 1, Agree(d, m) PROVE Explained(d, k)'
  <2>1. m \in k .. Len(events') + 1 /\ Agree(d, m)'
    BY <1>4, <1>6, <1>8
  <2> QED
    BY <2>1 DEF Explained
<1> QED
  BY <1>7, <1>8 DEF Explained

\* Going back in the log, what is explained stays explained.
LEMMA ExplainedBack ==
  ASSUME Typed, Ids, NEW d, NEW k \in Nat, NEW l \in Nat, l <= k, Explained(d, k)
  PROVE  Explained(d, l)
<1>0. Len(events) \in Nat
  BY DEF Typed
<1>1. \A j \in 1 .. Len(events) : events[j].id \in Nat
  <2> SUFFICES ASSUME NEW j \in 1 .. Len(events) PROVE events[j].id \in Nat
    OBVIOUS
  <2>1. events[j].id \in {j - 1, j}
    BY IdPlace
  <2> QED
    BY <1>0, <2>1
<1>2. ASSUME Mixed(d, k) PROVE Mixed(d, l)
  <2>1. PICK j \in 1 .. Len(events) :
          /\ events[j].doc = d /\ events[j].action = "update" /\ events[j].id >= k
          /\ events[j].text # Last(versions[d])
    BY <1>2 DEF Mixed
  <2>2. events[j].id >= l
    BY <1>1, <2>1
  <2> QED
    BY <1>2, <2>1, <2>2 DEF Mixed
<1>3. \A m \in k .. Len(events) + 1 : m \in l .. Len(events) + 1
  BY <1>0
<1> QED
  BY <1>2, <1>3 DEF Explained

\* The event of another document explains nothing new.
LEMMA ExplainedOther ==
  ASSUME Typed, Ids, NEW d, NEW k \in 1 .. Len(events), events[k].doc # d, Explained(d, k)
  PROVE  Explained(d, k + 1)
<1>0. Len(events) \in Nat
  BY DEF Typed
<1>1. ASSUME Mixed(d, k) PROVE Mixed(d, k + 1)
  <2>1. PICK j \in 1 .. Len(events) :
          /\ events[j].doc = d /\ events[j].action = "update" /\ events[j].id >= k
          /\ events[j].text # Last(versions[d])
    BY <1>1 DEF Mixed
  <2>2. events[j].id # k
    <3>1. ASSUME events[j].id = k PROVE FALSE
      <4>1. j # k /\ events[j].id \in {j - 1, j}
        BY <2>1, IdPlace
      <4>2. events[j].id = j - 1
        BY <1>0, <3>1, <4>1
      <4>3. events[j - 1] = events[j] /\ j - 1 = k
        BY <1>0, <3>1, <4>2, IdPlace
      <4> QED
        BY <2>1, <4>3
    <3> QED
      BY <3>1
  <2>3. events[j].id >= k + 1
    BY <1>0, <2>1, <2>2, IdPlace
  <2> QED
    BY <1>1, <2>1, <2>3 DEF Mixed
<1>2. ASSUME NEW m \in k .. Len(events) + 1, Agree(d, m) PROVE Explained(d, k + 1)
  <2>1. CASE m = k
    <3>1. k + 1 \in k + 1 .. Len(events) + 1
      BY <1>0
    <3> QED
      BY <1>2, <2>1, <3>1, AgreeOther DEF Explained
  <2>2. CASE m # k
    BY <1>0, <1>2, <2>2 DEF Explained
  <2> QED
    BY <2>1, <2>2
<1> QED
  BY <1>1, <1>2 DEF Explained

\* An event seen before repeats the one before it, and is explained with it.
LEMMA ExplainedSeen ==
  ASSUME Typed, Ids, NEW d, NEW k \in 1 .. Len(events), events[k].id < k, events[k].doc = d,
         Explained(d, k)
  PROVE  Explained(d, k + 1)
<1>0. Len(events) \in Nat
  BY DEF Typed
<1>1. k > 1 /\ events[k - 1] = events[k] /\ events[k].id = k - 1
  BY IdPlace
<1>2. ASSUME Mixed(d, k) PROVE Mixed(d, k + 1)
  <2>1. PICK j \in 1 .. Len(events) :
          /\ events[j].doc = d /\ events[j].action = "update" /\ events[j].id >= k
          /\ events[j].text # Last(versions[d])
    BY <1>2 DEF Mixed
  <2>2. events[j].id # k
    <3>1. ASSUME events[j].id = k PROVE FALSE
      <4>1. j # k /\ events[j].id \in {j - 1, j}
        BY <1>1, <3>1, IdPlace
      <4>2. events[j].id = j - 1
        BY <1>0, <3>1, <4>1
      <4>3. events[j - 1] = events[j] /\ j - 1 = k
        BY <1>0, <3>1, <4>2, IdPlace
      <4> QED
        BY <1>1, <3>1, <4>3
    <3> QED
      BY <3>1
  <2>3. events[j].id >= k + 1
    BY <1>0, <2>1, <2>2, IdPlace
  <2> QED
    BY <1>2, <2>1, <2>3 DEF Mixed
<1>3. ASSUME NEW m \in k .. Len(events) + 1, Agree(d, m) PROVE Explained(d, k + 1)
  <2>1. CASE m = k
    <3>1. LastBefore(events, d, k, k - 1) /\ ~Silent(events, d, k)
      BY <1>0, <1>1 DEF LastBefore, Silent
    <3>2. Holds(d, events[k - 1])
      BY <1>3, <2>1, <3>1, LastOne DEF Agree
    <3>3. Agree(d, k + 1)
      BY <1>1, <3>2, AgreeOwn
    <3>4. k + 1 \in k + 1 .. Len(events) + 1
      BY <1>0
    <3> QED
      BY <3>3, <3>4 DEF Explained
  <2>2. CASE m # k
    BY <1>0, <1>3, <2>2 DEF Explained
  <2> QED
    BY <2>1, <2>2
<1> QED
  BY <1>2, <1>3 DEF Explained

-----------------------------------------------------------------------------
(* The work on one event, as long as nothing fails. *)

\* A new version is the last.
LEMMA AppendLast ==
  ASSUME NEW s \in Seq(Text), NEW t \in Text
  PROVE  Append(s, t) # <<>> /\ Last(Append(s, t)) = t
  BY DEF Last

\* A failure is counted.
LEMMA NoFailure ==
  ASSUME Typed, NEW k \in {"loud", "swallowed", "cut"}, Fault(k)
  PROVE  Failures' # 0
<1>1. /\ faults'["loud"] \in Nat /\ faults'["swallowed"] \in Nat /\ faults'["cut"] \in Nat
      /\ faults'[k] = faults[k] + 1 /\ faults[k] \in Nat
  BY FaultCounts DEF Typed, Kind
<1>2. faults'[k] > 0
  BY <1>1
<1> QED
  BY <1>1, <1>2 DEF Failures

\* The steps that do not fail.
LEMMA Succeeds ==
  ASSUME Typed, ConsumerStep, Failures' = 0
  PROVE  Take \/ SkipUnchanged \/ Changed \/ EmitDelete \/ Erase \/ NoChunks \/ Store \/ Emit
  BY NoFailure DEF ConsumerStep, PromptFails, HashFails, DeleteUnsent, EraseFails, StoreFails,
     EmitFails

\* An event whose content is the latest version is explained as it is.
LEMMA UnchangedExplained ==
  ASSUME Typed, Ids, Taken, work.phase = "hash", Unchanged(work.event.doc, work.event.text),
         Explained(work.event.doc, pos - 1)
  PROVE  Explained(work.event.doc, pos)
<1> DEFINE d == work.event.doc
           e == work.event
           k == pos - 1
<1>0. work # Idle /\ Len(events) \in Nat
  BY WorkType DEF Typed
<1>1. /\ k \in 1 .. Len(events) /\ e = events[k] /\ pos = k + 1
      /\ e.action \in {"create", "update"} /\ d \in Doc /\ events[k].doc = d
  <2>1. k \in 1 .. Len(events) /\ e = events[k] /\ e.doc = d /\ d \in Doc
    BY <1>0, InPlace, WorkType
  <2>2. pos = k + 1
    BY <1>0 DEF Typed
  <2>3. e.action \in {"create", "update"}
    BY <1>0 DEF Taken
  <2> QED
    BY <2>1, <2>2, <2>3
<1>2. versions[d] # <<>> /\ Last(versions[d]) = e.text
  BY DEF Unchanged
<1> HIDE DEF d, e, k
<1>3. ASSUME Mixed(d, k) PROVE Mixed(d, k + 1)
  <2>1. PICK j \in 1 .. Len(events) :
          /\ events[j].doc = d /\ events[j].action = "update" /\ events[j].id >= k
          /\ events[j].text # Last(versions[d])
    BY <1>3 DEF Mixed
  <2>2. events[j].id # k
    <3>1. ASSUME events[j].id = k PROVE FALSE
      <4>1. j # k /\ events[j].id \in {j - 1, j}
        BY <1>1, <1>2, <2>1, IdPlace
      <4>2. events[j].id = j - 1
        BY <1>0, <3>1, <4>1
      <4>3. events[j - 1] = events[j] /\ j - 1 = k
        BY <1>0, <3>1, <4>2, IdPlace
      <4> QED
        BY <1>1, <1>2, <2>1, <4>3
    <3> QED
      BY <3>1
  <2>3. events[j].id >= k + 1
    <3>1. k \in Nat /\ events[j].id \in Nat
      BY <1>0, <1>1, IdPlace
    <3> QED
      BY <2>1, <2>2, <3>1
  <2> QED
    BY <1>3, <2>1, <2>3 DEF Mixed
<1>4. ASSUME NEW m \in k .. Len(events) + 1, Agree(d, m) PROVE Explained(d, k + 1)
  <2>1. CASE m = k
    <3>1. PICK i \in 1 .. k - 1 : LastBefore(events, d, k, i) /\ Holds(d, events[i])
      BY <1>2, <1>4, <2>1 DEF Agree, Empty
    <3>2. versions[d] = <<events[i].text>> /\ stored[d] = Whole(events[i].text)
          /\ events[i].text \notin Blank
      BY <1>2, <3>1 DEF Holds, Empty
    <3>3. Last(versions[d]) = events[i].text
      BY <3>2 DEF Last
    <3>4. Holds(d, e)
      BY <1>1, <1>2, <3>2, <3>3 DEF Holds
    <3>5. Agree(d, k + 1)
      BY <1>1, <3>4, AgreeOwn
    <3>6. k + 1 \in k + 1 .. Len(events) + 1
      BY <1>0, <1>1
    <3> QED
      BY <3>5, <3>6 DEF Explained
  <2>2. CASE m # k
    BY <1>0, <1>1, <1>4, <2>2 DEF Explained
  <2> QED
    BY <2>1, <2>2
<1>5. Explained(d, k)
  BY DEF d, k
<1>6. Explained(d, k + 1)
  BY <1>3, <1>4, <1>5 DEF Explained
<1> QED
  BY <1>1, <1>6 DEF d

\* A creation that is to be stored and finds other events' content there was
\* handled before them.
LEMMA CreationExplained ==
  ASSUME Typed, Ids, Taken, CreatesFirst, NEW d \in Doc \ overlaps, d = work.event.doc,
         work.phase = "store", work.event.action = "create", Explained(d, pos - 1),
         ~Unchanged(d, work.event.text)
  PROVE  /\ work.event.text \in Blank => Explained(d, pos)
         /\ \/ Empty(d)
            \/ \E j \in 1 .. Len(events) :
                  /\ events[j].doc = d /\ events[j].action = "update" /\ events[j].id >= pos
                  /\ events[j].text # work.event.text
         /\ \A i \in 1 .. Len(events) : events[i].doc = d /\ events[i].action = "create"
               => events[i].text = work.event.text
<1> DEFINE e == work.event
           k == pos - 1
<1>0. work # Idle /\ Len(events) \in Nat
  BY WorkType DEF Typed
<1>1. /\ k \in 1 .. Len(events) /\ e = events[k] /\ pos = k + 1 /\ pos \in Nat
      /\ events[k].doc = d /\ events[k].action = "create"
  <2>1. k \in 1 .. Len(events) /\ e = events[k]
    BY <1>0, InPlace
  <2>2. pos = k + 1 /\ pos \in Nat
    BY <1>0 DEF Typed
  <2> QED
    BY <2>1, <2>2
<1>2. Explained(d, k) /\ ~Unchanged(d, e.text)
  OBVIOUS
<1> HIDE DEF e, k
<1>3. \A i \in 1 .. Len(events) : events[i].doc = d /\ events[i].action = "create" => events[i] = e
  BY <1>0, <1>1 DEF CreatesFirst
<1>4. \A i \in 1 .. k - 1 : events[i].doc = d => events[i] = e
  BY <1>0, <1>1 DEF CreatesFirst
<1>5. ~Mixed(d, k)
  BY <1>1, <1>2 DEF Mixed, Unchanged
<1>6. PICK m \in k .. Len(events) + 1 : Agree(d, m)
  BY <1>2, <1>5 DEF Explained
<1>7. ASSUME NEW i \in 1 .. m - 1, LastBefore(events, d, m, i), Holds(d, events[i]), ~Empty(d)
      PROVE  /\ i \in 1 .. Len(events) /\ events[i].doc = d /\ events[i].action = "update"
             /\ events[i].id >= pos /\ events[i].text # e.text
  <2>1. /\ versions[d] = <<events[i].text>> /\ events[i].text \notin Blank
        /\ events[i].action # "delete" /\ i \in 1 .. Len(events) /\ events[i].doc = d
    BY <1>0, <1>1, <1>6, <1>7 DEF Holds, LastBefore
  <2>2. Last(versions[d]) = events[i].text /\ versions[d] # <<>>
    BY <2>1 DEF Last
  <2>3. events[i].text # e.text
    BY <1>2, <2>2 DEF Unchanged
  <2>4. events[i].action = "update"
    BY <1>3, <2>1, <2>3, IdPlace DEF Message, Action
  <2>5. i > k
    BY <1>0, <1>1, <1>4, <2>1, <2>3
  <2>6. events[i].id # k
    <3>1. ASSUME events[i].id = k PROVE FALSE
      <4>1. events[i].id = i - 1
        BY <1>0, <1>1, <2>1, <2>5, <3>1, IdPlace
      <4>2. events[i - 1] = events[i] /\ i - 1 = k
        BY <1>0, <1>1, <2>1, <3>1, <4>1, IdPlace
      <4> QED
        BY <1>1, <2>3, <4>2
    <3> QED
      BY <3>1
  <2>7. events[i].id \in {i - 1, i}
    BY <2>1, IdPlace
  <2> QED
    BY <1>0, <1>1, <2>1, <2>3, <2>4, <2>5, <2>6, <2>7
<1>8. \/ Empty(d)
      \/ \E j \in 1 .. Len(events) :
            /\ events[j].doc = d /\ events[j].action = "update" /\ events[j].id >= pos
            /\ events[j].text # e.text
  BY <1>6, <1>7 DEF Agree
<1>9. ASSUME e.text \in Blank PROVE Explained(d, pos)
  <2>1. CASE m = k
    <3>1. Empty(d)
      <4>1. ASSUME NEW i \in 1 .. m - 1, LastBefore(events, d, m, i), Holds(d, events[i])
            PROVE  Empty(d)
        <5>1. events[i] = e
          BY <1>4, <2>1, <4>1 DEF LastBefore
        <5> QED
          BY <1>9, <4>1, <5>1 DEF Holds
      <4> QED
        BY <1>6, <4>1 DEF Agree
    <3>2. Holds(d, events[k])
      BY <1>1, <1>9, <3>1 DEF Holds
    <3>4. Agree(d, k + 1)
      BY <1>1, <3>2, AgreeOwn
    <3>3. Agree(d, pos) /\ pos \in pos .. Len(events) + 1
      BY <1>0, <1>1, <3>4
    <3> QED
      BY <3>3 DEF Explained
  <2>2. CASE m # k
    BY <1>0, <1>1, <1>6, <2>2 DEF Explained
  <2> QED
    BY <2>1, <2>2
<1> QED
  BY <1>3, <1>8, <1>9 DEF e

\* One step of the work on the event e of d, which is the one before k.
LEMMA OwnStep ==
  ASSUME Typed, Ids, Taken, CreatesFirst, Followed, ConsumerStep, ~Take, Failures = 0, Failures' = 0,
         NEW e, e = work.event, NEW k \in Nat, k = pos, NEW d \in Doc \ overlaps, d = e.doc
  PROVE  \/ work' = Idle /\ Explained(d, k)'
         \/ work' # Idle /\ Brought(d)'
<1>0. /\ work # Idle /\ pos' = k /\ events' = events
      /\ Len(events) \in Nat
      /\ stored \in [Doc -> Seq(Text)] /\ versions \in [Doc -> Seq(Text \ Blank)]
  BY WorkStep, ConsumerFrame DEF Typed
<1>1. /\ k - 1 \in 1 .. Len(events) /\ e = events[k - 1]
      /\ e.action \in Action /\ e.text \in Text
  BY <1>0, InPlace, WorkType
<1>2. /\ work.phase = "hash" => Explained(d, k - 1)
      /\ work.phase = "erase" => stored[d] = <<>>
      /\ work.phase = "store" => IF e.action = "update" THEN Empty(d)
                                 ELSE Explained(d, k - 1) /\ ~Unchanged(d, e.text)
      /\ work.phase = "emit" => \/ stored[d] = <<>> /\ versions[d] = <<e.text>>
                                \/ Mixed(d, k)
  BY <1>0 DEF Followed, InHand, Brought
<1>3. /\ work.phase \in {"hash", "store", "emit"} => e.action \in {"create", "update"}
      /\ work.phase = "emit" => e.text \notin Blank
  BY <1>0 DEF Taken
<1>4. ASSUME Holds(d, e)' PROVE Explained(d, k)'
  <2>1. LastBefore(events', d, k, k - 1) /\ k - 1 \in 1 .. Len(events')
    BY <1>0, <1>1 DEF LastBefore
  <2>2. events'[k - 1] = e /\ k \in k .. Len(events') + 1
    BY <1>0, <1>1
  <2>3. Agree(d, k)'
    BY <1>4, <2>1, <2>2 DEF Agree
  <2> QED
    BY <2>2, <2>3 DEF Explained
<1>5. CASE SkipUnchanged
  <2>1. Explained(d, pos) /\ work' = Idle /\ stored' = stored /\ versions' = versions
    BY <1>2, <1>5, UnchangedExplained DEF SkipUnchanged, Finish
  <2>2. Explained(d, k)
    BY <2>1
  <2> QED
    BY <1>0, <2>1, <2>2, ExplainedSame
<1>6. CASE Changed
  <2>1. /\ work' # Idle /\ work'.event = e /\ stored' = stored /\ versions' = versions
        /\ work'.phase = IF e.action = "update" THEN "delete" ELSE "store"
        /\ ~Unchanged(d, e.text) /\ Explained(d, k - 1)
    BY <1>0, <1>2, <1>6, ReplaceHands DEF Changed
  <2>2. Explained(d, k - 1)'
    BY <1>0, <2>1, ExplainedSame
  <2>3. ~Unchanged(d, e.text)'
    BY <2>1 DEF Unchanged
  <2> QED
    BY <1>0, <2>1, <2>2, <2>3 DEF Brought
<1>7. CASE EmitDelete
  <2>1. work' # Idle /\ work'.phase = "erase" /\ stored'[d] = <<>>
    BY <1>0, <1>7, HandType DEF EmitDelete
  <2> QED
    BY <2>1 DEF Brought
<1>8. CASE Erase
  <2>1. versions'[d] = <<>> /\ stored'[d] = <<>>
    BY <1>0, <1>2, <1>8 DEF Erase, Erased
  <2>2. CASE e.action = "delete"
    <3>1. work' = Idle /\ Holds(d, e)'
      BY <1>8, <2>1, <2>2 DEF Erase, Finish, Holds, Empty
    <3> QED
      BY <1>4, <3>1
  <2>3. CASE e.action # "delete"
    <3>1. work' # Idle /\ work'.event = e /\ work'.phase = "store"
      BY <1>0, <1>8, <2>3, HandType DEF Erase
    <3>2. e.action = "update"
      BY <1>0, <1>8, <2>3 DEF Taken, Erase
    <3> QED
      BY <2>1, <3>1, <3>2 DEF Brought, Empty
  <2> QED
    BY <2>2, <2>3
<1>9. CASE NoChunks
  <2>1. work' = Idle /\ stored' = stored /\ versions' = versions
    BY <1>9 DEF NoChunks, Finish
  <2>2. CASE e.action = "update"
    <3>1. Holds(d, e)'
      BY <1>2, <1>9, <2>1, <2>2 DEF NoChunks, Holds, Empty
    <3> QED
      BY <1>4, <2>1, <3>1
  <2>3. CASE e.action # "update"
    <3>1. Explained(d, pos)
      BY <1>1, <1>2, <1>3, <1>9, <2>3, CreationExplained DEF NoChunks
    <3>2. Explained(d, k)
      BY <3>1
    <3> QED
      BY <1>0, <2>1, <3>2, ExplainedSame
  <2> QED
    BY <2>2, <2>3
<1>10. CASE Store
  <2>1. /\ work' # Idle /\ work'.event = e /\ work'.phase = "emit" /\ stored' = stored
        /\ versions'[d] = Append(versions[d], e.text) /\ work.phase = "store"
    BY <1>0, <1>10, HandType DEF Store
  <2>2. versions[d] \in Seq(Text)
    BY <1>0
  <2>3. versions'[d] # <<>> /\ Last(versions'[d]) = e.text
    <3>1. Append(versions[d], e.text) # <<>> /\ Last(Append(versions[d], e.text)) = e.text
      BY <1>1, <2>2, AppendLast
    <3> QED
      BY <2>1, <3>1
  <2>4. CASE Empty(d)
    <3>1. stored'[d] = <<>> /\ versions'[d] = <<e.text>>
      BY <2>1, <2>4 DEF Empty
    <3> QED
      BY <2>1, <3>1 DEF Brought
  <2>5. CASE ~Empty(d)
    <3>1. e.action = "create" /\ Explained(d, pos - 1) /\ ~Unchanged(d, e.text)
      BY <1>2, <1>3, <2>1, <2>5
    <3>2. /\ \E j \in 1 .. Len(events) :
                /\ events[j].doc = d /\ events[j].action = "update" /\ events[j].id >= k
                /\ events[j].text # e.text
          /\ \A i \in 1 .. Len(events) : events[i].doc = d /\ events[i].action = "create"
                => events[i].text = e.text
      <4>1. /\ work.phase = "store" /\ work.event.action = "create" /\ d = work.event.doc
            /\ Explained(d, pos - 1) /\ ~Unchanged(d, work.event.text)
        BY <2>1, <3>1
      <4>2. /\ \E j \in 1 .. Len(events) :
                  /\ events[j].doc = d /\ events[j].action = "update" /\ events[j].id >= pos
                  /\ events[j].text # work.event.text
            /\ \A i \in 1 .. Len(events) : events[i].doc = d /\ events[i].action = "create"
                  => events[i].text = work.event.text
        BY <2>5, <4>1, CreationExplained
      <4> QED
        BY <4>2
    <3>3. Mixed(d, k)'
      BY <1>0, <2>3, <3>2 DEF Mixed
    <3> QED
      BY <1>0, <2>1, <3>3 DEF Brought, Mixed
  <2> QED
    BY <2>4, <2>5
<1>11. CASE Emit
  <2>1. /\ work' = Idle /\ versions' = versions /\ work.phase = "emit"
        /\ stored'[d] = stored[d] \o [i \in 1 .. Chunks |-> e.text]
    BY <1>0, <1>11 DEF Emit, Sent, Finish
  <2>2. CASE stored[d] = <<>> /\ versions[d] = <<e.text>>
    <3>1. [i \in 1 .. Chunks |-> e.text] \in Seq(Text)
      BY <1>1
    <3>2. stored'[d] = [i \in 1 .. Chunks |-> e.text]
      BY <2>1, <2>2, <3>1
    <3>3. Holds(d, e)'
      BY <1>3, <2>1, <2>2, <3>2 DEF Holds, Whole
    <3> QED
      BY <1>4, <2>1, <3>3
  <2>3. CASE Mixed(d, k)
    <3>1. Mixed(d, k)'
      BY <1>0, <2>1, <2>3 DEF Mixed
    <3> QED
      BY <2>1, <3>1 DEF Explained
  <2> QED
    BY <1>2, <2>1, <2>2, <2>3
<1> QED
  BY <1>5, <1>6, <1>7, <1>8, <1>9, <1>10, <1>11, Succeeds

\* The next event taken is explained with the others, or is in hand.
LEMMA TakeFollowed ==
  ASSUME Told, Followed, Take, Failures = 0
  PROVE  Followed'
<1> USE DEF Told
<1>0. /\ work = Idle /\ pos \in 1 .. Len(events) /\ pos' = pos + 1 /\ events' = events
      /\ overlaps' = overlaps /\ stored' = stored /\ versions' = versions
      /\ Len(events) \in Nat /\ pos \in Nat
  BY DEF Take, Typed
<1> DEFINE e == events[pos]
<1>1. /\ work' = IF Seen(e) THEN Idle
                 ELSE [event |-> e, phase |-> IF e.action = "delete" THEN "delete" ELSE "hash"]
  BY DEF Take
<1>2. Seen(e) => e.id < pos
  BY DEF Seen, ToSet, Taken
<1> SUFFICES ASSUME NEW d \in Doc \ overlaps, NEW k \in Nat, k = pos
             PROVE  /\ InHand(d)' => Brought(d)'
                    /\ ~InHand(d)' => Explained(d, k + 1)'
  BY <1>0 DEF Followed
<1>3. Explained(d, k)
  BY <1>0 DEF Followed, InHand
<1>4. Explained(d, k)'
  BY <1>0, <1>3, ExplainedSame
<1>5. CASE e.doc # d
  <2>1. Explained(d, k + 1)
    BY <1>0, <1>3, <1>5, ExplainedOther
  <2>2. Explained(d, k + 1)'
    BY <1>0, <2>1, ExplainedSame
  <2>3. ~InHand(d)'
    BY <1>1, <1>5 DEF InHand
  <2> QED
    BY <2>2, <2>3
<1>6. CASE e.doc = d /\ Seen(e)
  <2>1. Explained(d, k + 1)
    BY <1>0, <1>2, <1>3, <1>6, ExplainedSeen
  <2>2. Explained(d, k + 1)'
    BY <1>0, <2>1, ExplainedSame
  <2>3. ~InHand(d)'
    BY <1>1, <1>6 DEF InHand
  <2> QED
    BY <2>2, <2>3
<1>7. CASE e.doc = d /\ ~Seen(e)
  <2>1. /\ work'.event = e /\ work'.phase \in {"hash", "delete"} /\ work' # Idle
    BY <1>1, <1>7 DEF Idle
  <2>2. InHand(d)'
    BY <1>7, <2>1 DEF InHand
  <2>4. pos' - 1 = k
    BY <1>0
  <2>5. Brought(d)'
    BY <1>4, <2>1, <2>4 DEF Brought
  <2> QED
    BY <2>2, <2>5
<1> QED
  BY <1>5, <1>6, <1>7

LEMMA FollowedInit == Init => Followed
<1> SUFFICES ASSUME Init, NEW d \in Doc PROVE Explained(d, pos) /\ ~InHand(d)
  BY DEF Followed
<1>1. /\ events = <<>> /\ Len(events) = 0 /\ pos = 1 /\ work = Idle
      /\ stored[d] = <<>> /\ versions[d] = <<>>
  BY DEF Init
<1>2. Agree(d, 1) /\ 1 \in 1 .. Len(events) + 1
  BY <1>1 DEF Agree, Silent, Empty
<1> QED
  BY <1>1, <1>2 DEF Explained, InHand

LEMMA FollowedSame ==
  ASSUME Followed, Failures = 0, UNCHANGED <<brain, events, pos, work, versions, stored>>
  PROVE  Followed'
<1> SUFFICES ASSUME NEW d \in Doc \ overlaps, NEW k, k = pos, NEW l, l = pos - 1
             PROVE  IF InHand(d) THEN Brought(d)' ELSE Explained(d, k)'
  BY DEF Followed, InHand
<1>1. CASE ~InHand(d)
  <2>1. Explained(d, k)
    BY <1>1 DEF Followed
  <2> QED
    BY <1>1, <2>1, ExplainedSame
<1>2. CASE InHand(d)
  <2>1. Brought(d)
    BY <1>2 DEF Followed
  <2>2. Explained(d, l) => Explained(d, l)'
    BY ExplainedSame
  <2>3. Mixed(d, k) => Mixed(d, k)'
    BY DEF Mixed
  <2> QED
    BY <1>2, <2>1, <2>2, <2>3 DEF Brought, Empty, Unchanged
<1> QED
  BY <1>1, <1>2

\* The stores follow the log through every step.
LEMMA FollowedStep == Told /\ Followed /\ [Next]_vars => Followed'
<1> SUFFICES ASSUME Told, Followed, [Next]_vars, Failures' = 0 PROVE Followed'
  BY DEF Followed
<1>0. Failures = 0 /\ pos \in Nat /\ pos > 0 /\ Len(events) \in Nat
  BY FailuresStep DEF Told, Typed
<1>1. ASSUME NEW r \in Rpc, BrainStep(r) PROVE Followed'
  <2>1. /\ work' = work /\ pos' = pos /\ stored' = stored /\ versions' = versions
        /\ overlaps \subseteq overlaps'
    BY <1>1, LogGrows DEF Told
  <2>2. ASSUME NEW d \in Doc \ overlaps', NEW k \in Nat, Explained(d, k) PROVE Explained(d, k)'
    BY <1>1, <2>2, ExplainedLog DEF Told
  <2>3. ASSUME NEW d \in Doc \ overlaps', ~InHand(d) PROVE Explained(d, pos)'
    <3> SUFFICES ASSUME NEW k \in Nat, k = pos PROVE Explained(d, k)'
      BY <1>0, <2>1
    <3>1. Explained(d, k)
      BY <1>0, <2>1, <2>3 DEF Followed
    <3> QED
      BY <2>2, <2>3, <3>1
  <2>4. ASSUME NEW d \in Doc \ overlaps', InHand(d) PROVE Brought(d)'
    <3> SUFFICES ASSUME NEW k \in Nat, k = pos, NEW l \in Nat, l = pos - 1 PROVE Brought(d)'
      BY <1>0
    <3>1. Brought(d)
      BY <1>0, <2>1, <2>4 DEF Followed
    <3>2. work.phase = "hash" => Explained(d, l)'
      BY <2>2, <3>1 DEF Brought
    <3>3. work.phase = "store" => IF work.event.action = "update" THEN Empty(d)'
                                  ELSE Explained(d, l)' /\ ~Unchanged(d, work.event.text)
      BY <2>1, <2>2, <3>1 DEF Brought, Empty
    <3>4. work.phase = "emit" => \/ stored[d] = <<>> /\ versions[d] = <<work.event.text>>
                                 \/ Mixed(d, k)'
      <4>1. Mixed(d, k) => Mixed(d, k)'
        BY <1>1, <2>4, MixedLog DEF Told
      <4> QED
        BY <3>1, <4>1 DEF Brought
    <3> QED
      BY <2>1, <3>1, <3>2, <3>3, <3>4 DEF Brought, Unchanged, Mixed
  <2> QED
    BY <2>1, <2>3, <2>4 DEF Followed, InHand
<1>2. CASE Take
  BY <1>0, <1>2, TakeFollowed
<1>3. CASE ConsumerStep /\ ~Take
  <2>1. /\ work # Idle /\ pos' = pos /\ events' = events /\ overlaps' = overlaps
        /\ work' = Idle \/ work'.event = work.event
        /\ \A d \in Doc : d # work.event.doc => stored'[d] = stored[d] /\ versions'[d] = versions[d]
    BY <1>3, WorkStep, ConsumerFrame DEF Told
  <2>2. ASSUME NEW d \in Doc \ overlaps', NEW k \in Nat, k = pos
        PROVE  IF InHand(d)' THEN Brought(d)' ELSE Explained(d, k)'
    <3>1. CASE d # work.event.doc
      <4>1. Explained(d, k)
        BY <1>0, <2>1, <2>2, <3>1 DEF Followed, InHand
      <4>2. Explained(d, k)'
        BY <2>1, <3>1, <4>1, ExplainedSame
      <4> QED
        BY <2>1, <3>1, <4>2 DEF InHand
    <3>2. CASE d = work.event.doc
      <4>1. \/ work' = Idle /\ Explained(d, k)'
            \/ work' # Idle /\ Brought(d)'
        BY <1>0, <1>3, <2>1, <2>2, <3>2, OwnStep DEF Told
      <4> QED
        BY <2>1, <3>2, <4>1 DEF InHand
    <3> QED
      BY <3>1, <3>2
  <2> QED
    BY <1>0, <2>1, <2>2 DEF Followed
<1>4. CASE Commit
  <2>1. UNCHANGED <<brain, events, pos, work, versions, stored>>
    BY <1>4 DEF Commit
  <2> QED
    BY <1>0, <2>1, FollowedSame
<1>5. CASE Crash
  <2>1. /\ work = Idle /\ work' = Idle /\ pos' = committed /\ committed \in Nat /\ committed <= pos
        /\ UNCHANGED <<brain, events, versions, stored>>
    BY <1>5, NoFailure DEF Crash, Told, Typed
  <2> SUFFICES ASSUME NEW d \in Doc \ overlaps, NEW k \in Nat, k = committed PROVE Explained(d, k)'
    BY <2>1 DEF Followed, InHand
  <2>2. Explained(d, pos)
    BY <1>0, <2>1 DEF Followed, InHand
  <2>3. Explained(d, k)
    BY <1>0, <2>1, <2>2, ExplainedBack DEF Told
  <2> QED
    BY <2>1, <2>3, ExplainedSame
<1>6. CASE Rests \/ UNCHANGED vars
  <2>1. UNCHANGED <<brain, events, pos, work, versions, stored>>
    BY <1>6 DEF Rests
  <2> QED
    BY <1>0, <2>1, FollowedSame
<1> QED
  BY <1>1, <1>2, <1>3, <1>4, <1>5, <1>6 DEF Next

-----------------------------------------------------------------------------
(* The latest version, and the content published last. *)

\* n copies of t after s.
LEMMA Copies ==
  ASSUME NEW s \in Seq(Text), NEW t \in Text, NEW n \in Nat
  PROVE  /\ [i \in 1 .. n |-> t] \in Seq(Text) /\ Len([i \in 1 .. n |-> t]) = n
         /\ Len(s \o [i \in 1 .. n |-> t]) = Len(s) + n
         /\ \A i \in Len(s) + 1 .. Len(s) + n : (s \o [i2 \in 1 .. n |-> t])[i] = t
         /\ s = <<>> => s \o [i \in 1 .. n |-> t] = [i \in 1 .. n |-> t]
<1> DEFINE c == [i \in 1 .. n |-> t]
<1>1. c \in Seq(Text) /\ Len(c) = n /\ \A i \in 1 .. n : c[i] = t
  OBVIOUS
<1> HIDE DEF c
<1>2. Len(s \o c) = Len(s) + n /\ \A i \in Len(s) + 1 .. Len(s) + n : (s \o c)[i] = c[i - Len(s)]
  BY <1>1
<1>3. \A i \in Len(s) + 1 .. Len(s) + n : i - Len(s) \in 1 .. n
  BY <1>1
<1>4. s = <<>> => s \o c = c
  BY <1>1
<1>5. \A i \in Len(s) + 1 .. Len(s) + n : (s \o c)[i] = t
  BY <1>1, <1>2, <1>3
<1> QED
  BY <1>1, <1>2, <1>4, <1>5 DEF c

LEMMA EndsCopies ==
  ASSUME NEW s \in Seq(Text), NEW t \in Text
  PROVE  Ends(s \o [i \in 1 .. Chunks |-> t], t)
<1> DEFINE r == s \o [i \in 1 .. Chunks |-> t]
<1>1. /\ Len(r) = Len(s) + Chunks /\ Len(s) \in Nat /\ Chunks \in Nat
      /\ \A i \in Len(s) + 1 .. Len(s) + Chunks : r[i] = t
  BY Copies
<1> HIDE DEF r
<1>2. Len(r) - Chunks + 1 = Len(s) + 1 /\ Len(r) >= Chunks
  BY <1>1
<1>3. Ends(r, t)
  BY <1>1, <1>2 DEF Ends
<1> QED
  BY <1>3 DEF r

VersionFits(d) ==
    /\ ~(InHand(d) /\ work.phase \in {"erase", "emit"}) =>
           versions[d] = <<>> \/ Ends(stored[d], Last(versions[d]))
    /\ InHand(d) /\ work.phase = "emit" =>
           versions[d] # <<>> /\ Last(versions[d]) = work.event.text

\* One step of the work on the event of d.
LEMMA OwnVersion ==
  ASSUME Typed, ConsumerStep, ~Take, Failures' = 0,
         NEW d \in Doc, d = work.event.doc, VersionFits(d)
  PROVE  VersionFits(d)'
<1>0. /\ work # Idle /\ work.event.text \in Text
      /\ stored \in [Doc -> Seq(Text)] /\ versions \in [Doc -> Seq(Text \ Blank)]
  BY WorkStep, WorkType DEF Typed
<1>1. CASE SkipUnchanged
  BY <1>0, <1>1 DEF SkipUnchanged, Finish, VersionFits, InHand
<1>2. CASE Changed
  <2>1. work' # Idle /\ work'.phase \in {"delete", "store"} /\ stored' = stored /\ versions' = versions
    BY <1>0, <1>2, ReplaceHands DEF Changed
  <2>2. versions[d] = <<>> \/ Ends(stored[d], Last(versions[d]))
    BY <1>2 DEF Changed, VersionFits
  <2> QED
    BY <2>1, <2>2 DEF VersionFits
<1>3. CASE EmitDelete
  <2>1. work' # Idle /\ work'.phase = "erase" /\ work'.event.doc = d
    BY <1>0, <1>3, HandType DEF EmitDelete
  <2> QED
    BY <2>1 DEF VersionFits, InHand
<1>4. CASE Erase
  <2>1. versions'[d] = <<>>
    BY <1>0, <1>4 DEF Erase, Erased
  <2>2. work' = Idle \/ work'.phase = "store"
    BY <1>0, <1>4, HandType DEF Erase, Finish
  <2> QED
    BY <2>1, <2>2 DEF VersionFits, InHand
<1>5. CASE NoChunks
  BY <1>0, <1>5 DEF NoChunks, Finish, VersionFits, InHand
<1>6. CASE Store
  <2>1. work' # Idle /\ work'.phase = "emit" /\ work'.event = work.event
    BY <1>0, <1>6, HandType DEF Store
  <2>2. versions'[d] = Append(versions[d], work.event.text) /\ versions[d] \in Seq(Text)
    BY <1>0, <1>6 DEF Store
  <2>3. versions'[d] # <<>> /\ Last(versions'[d]) = work.event.text
    BY <1>0, <2>2, AppendLast
  <2> QED
    BY <2>1, <2>3 DEF VersionFits, InHand
<1>7. CASE Emit
  <2>1. /\ work' = Idle /\ versions' = versions /\ Last(versions[d]) = work.event.text
        /\ stored'[d] = stored[d] \o [i \in 1 .. Chunks |-> work.event.text]
    BY <1>0, <1>7 DEF Emit, Sent, Finish, VersionFits, InHand
  <2>2. Ends(stored'[d], work.event.text)
    BY <1>0, <2>1, EndsCopies
  <2> QED
    BY <2>1, <2>2 DEF VersionFits, InHand
<1> QED
  BY <1>1, <1>2, <1>3, <1>4, <1>5, <1>6, <1>7, Succeeds

\* The latest version is the content published last, through every step.
LEMMA VersionedStep == Told /\ Versioned /\ [Next]_vars => Versioned'
<1> SUFFICES ASSUME Told, Versioned, [Next]_vars, Failures' = 0, NEW d \in Doc PROVE VersionFits(d)'
  BY DEF Versioned, VersionFits
<1>0. Failures = 0 /\ VersionFits(d)
  BY FailuresStep DEF Told, Versioned, VersionFits
<1>1. ASSUME NEW r \in Rpc, BrainStep(r) PROVE VersionFits(d)'
  BY <1>0, <1>1, LogGrows DEF Told, VersionFits, InHand
<1>2. CASE Take
  <2>1. /\ work = Idle /\ stored' = stored /\ versions' = versions
        /\ work' = Idle \/ work'.phase \in {"hash", "delete"}
    BY <1>2 DEF Take
  <2> QED
    BY <1>0, <2>1 DEF VersionFits, InHand
<1>3. CASE ConsumerStep /\ ~Take
  <2>1. /\ work # Idle
        /\ work' = Idle \/ work'.event = work.event
        /\ d # work.event.doc => stored'[d] = stored[d] /\ versions'[d] = versions[d]
    BY <1>3, WorkStep DEF Told
  <2>2. CASE d # work.event.doc
    BY <1>0, <2>1, <2>2 DEF VersionFits, InHand
  <2>3. CASE d = work.event.doc
    BY <1>0, <1>3, <2>3, OwnVersion DEF Told
  <2> QED
    BY <2>2, <2>3
<1>4. CASE Commit
  BY <1>0, <1>4 DEF Commit, VersionFits, InHand
<1>5. CASE Crash
  <2>1. work = Idle /\ work' = Idle /\ stored' = stored /\ versions' = versions
    BY <1>5, NoFailure DEF Crash, Told
  <2> QED
    BY <1>0, <2>1 DEF VersionFits, InHand
<1>6. CASE UNCHANGED vars
  BY <1>0, <1>6 DEF VersionFits, InHand
<1> QED
  BY <1>1, <1>2, <1>3, <1>4, <1>5, <1>6 DEF Next, Rests

-----------------------------------------------------------------------------
(* Without repetitions. *)

Repeated == faults["swallowed"] + faults["cut"] + faults["replay"]

\* A repetition is never forgotten.
LEMMA RepeatedStep ==
  ASSUME Typed, [Next]_vars, Repeated' = 0
  PROVE  /\ Repeated = 0 /\ faults["replay"] = 0
         /\ ~Fault("swallowed") /\ ~Fault("cut") /\ ~Fault("replay")
<1>1. /\ faults["swallowed"] \in Nat /\ faults["cut"] \in Nat /\ faults["replay"] \in Nat
      /\ faults'["swallowed"] \in Nat /\ faults'["cut"] \in Nat /\ faults'["replay"] \in Nat
      /\ faults'["swallowed"] >= faults["swallowed"] /\ faults'["cut"] >= faults["cut"]
      /\ faults'["replay"] >= faults["replay"]
  BY FaultsStep DEF Typed, Kind
<1>2. faults'["swallowed"] = 0 /\ faults'["cut"] = 0 /\ faults'["replay"] = 0
  BY <1>1 DEF Repeated
<1>3. faults["swallowed"] = 0 /\ faults["cut"] = 0 /\ faults["replay"] = 0
  BY <1>1, <1>2
<1>4. \A k \in {"swallowed", "cut", "replay"} : ~Fault(k)
  <2> SUFFICES ASSUME NEW k \in {"swallowed", "cut", "replay"}, Fault(k) PROVE FALSE
    OBVIOUS
  <2>1. faults'[k] = faults[k] + 1
    BY FaultCounts DEF Kind
  <2> QED
    BY <1>2, <1>3, <2>1
<1> QED
  BY <1>3, <1>4 DEF Repeated

TextFits(d) ==
    /\ Uniform(stored[d])
    /\ Silent(events, d, pos) => stored[d] = <<>>
    /\ InHand(d) /\ (work.event.action = "create" \/ work.phase \in {"erase", "store", "emit"})
           => stored[d] = <<>>

\* An event that publishes finds nothing stored.
LEMMA PublishesAlone ==
  ASSUME Typed, NEW d \in Doc, TextFits(d), d = work.event.doc, work # Idle, work.phase = "emit",
         NEW n \in Nat, stored' = Sent(n)
  PROVE  Uniform(stored'[d])
<1>1. stored[d] = <<>> /\ stored[d] \in Seq(Text) /\ work.event.text \in Text
  BY WorkType DEF TextFits, InHand, Typed
<1>2. stored'[d] = stored[d] \o [i \in 1 .. n |-> work.event.text]
  BY DEF Sent, Typed
<1>3. stored'[d] = [i \in 1 .. n |-> work.event.text]
  BY <1>1, <1>2, Copies
<1> QED
  BY <1>3 DEF Uniform

\* One step of the work on the event of d, without repetitions.
LEMMA OwnText ==
  ASSUME Typed, Ids, Taken, ConsumerStep, ~Take, [Next]_vars, Repeated' = 0,
         NEW d \in Doc, d = work.event.doc, TextFits(d)
  PROVE  TextFits(d)'
<1>0. /\ work # Idle /\ pos' = pos /\ events' = events /\ Len(events) \in Nat /\ pos \in Nat
      /\ stored \in [Doc -> Seq(Text)]
  BY WorkStep, ConsumerFrame DEF Typed
<1>1. ~Silent(events, d, pos)
  BY <1>0, InPlace DEF Silent
<1>2. CASE stored' = stored /\ work' = Idle
  BY <1>0, <1>2 DEF TextFits, InHand
<1>3. CASE Changed
  <2>1. /\ work' # Idle /\ work'.event = work.event /\ stored' = stored
        /\ work'.phase = IF work.event.action = "update" THEN "delete" ELSE "store"
        /\ work.event.action \in {"create", "update"}
    BY <1>0, <1>3, ReplaceHands DEF Changed, Taken
  <2> QED
    BY <1>0, <2>1 DEF TextFits, InHand
<1>4. CASE EmitDelete
  <2>1. stored'[d] = <<>>
    BY <1>0, <1>4 DEF EmitDelete
  <2> QED
    BY <2>1 DEF TextFits, Uniform
<1>5. CASE stored' = stored /\ stored[d] = <<>>
  BY <1>5 DEF TextFits, Uniform
<1>6. CASE Emit
  <2>1. Uniform(stored'[d]) /\ work' = Idle
    BY <1>0, <1>6, PublishesAlone DEF Emit, Finish
  <2> QED
    BY <1>0, <1>1, <2>1 DEF TextFits, InHand
<1>7. ASSUME NEW n \in 0 .. Chunks - 1, EmitFails(n) PROVE TextFits(d)'
  <2>1. Uniform(stored'[d]) /\ work' = Idle
    BY <1>0, <1>7, PublishesAlone DEF EmitFails, Finish
  <2> QED
    BY <1>0, <1>1, <2>1 DEF TextFits, InHand
<1>8. \/ stored' = stored /\ work' = Idle
      \/ Changed \/ EmitDelete
      \/ stored' = stored /\ work.phase \in {"erase", "store"}
      \/ Emit \/ \E n \in 0 .. Chunks - 1 : EmitFails(n)
  BY RepeatedStep DEF ConsumerStep, PromptFails, SkipUnchanged, Finish, HashFails, DeleteUnsent, Erase,
     EraseFails, NoChunks, Store, StoreFails
<1>9. work.phase \in {"erase", "store"} => stored[d] = <<>>
  BY <1>0 DEF TextFits, InHand
<1> QED
  BY <1>2, <1>3, <1>4, <1>5, <1>6, <1>7, <1>8, <1>9

\* Without repetitions, one text at a time is stored, through every step.
LEMMA OneTextStep == Told /\ OneText /\ [Next]_vars => OneText'
<1> SUFFICES ASSUME Told, OneText, [Next]_vars, Repeated' = 0, NEW d \in Doc \ overlaps'
             PROVE  TextFits(d)'
  BY DEF OneText, TextFits, Repeated
<1> USE DEF Told
<1>0. /\ Repeated = 0 /\ faults["replay"] = 0
      /\ ~Fault("swallowed") /\ ~Fault("cut") /\ ~Fault("replay")
      /\ pos \in 1 .. Len(events) + 1 /\ Len(events) \in Nat
  BY RepeatedStep DEF Typed
<1>t. d \notin overlaps => TextFits(d)
  BY <1>0 DEF OneText, TextFits, Repeated
<1>1. ASSUME NEW r \in Rpc, BrainStep(r) PROVE TextFits(d)'
  <2>1. /\ UNCHANGED <<consumer, stored>> /\ d \notin overlaps
        /\ \A i \in 1 .. Len(events) : events'[i] = events[i]
    BY <1>1, LogGrows
  <2>2. \A i \in 1 .. pos - 1 : i \in 1 .. Len(events)
    BY <1>0
  <2>3. Silent(events', d, pos) => Silent(events, d, pos)
    BY <2>1, <2>2 DEF Silent
  <2> QED
    BY <1>t, <2>1, <2>3 DEF TextFits, InHand
<1>2. CASE Take
  <2> DEFINE e == events[pos]
  <2>1. /\ work = Idle /\ pos \in 1 .. Len(events) /\ pos' = pos + 1 /\ events' = events
        /\ overlaps' = overlaps /\ stored' = stored
        /\ work' = Idle \/ work' = [event |-> e, phase |-> IF e.action = "delete" THEN "delete" ELSE "hash"]
    BY <1>0, <1>2 DEF Take
  <2>2. TextFits(d)
    BY <1>t, <2>1
  <2>3. Silent(events, d, pos + 1) => Silent(events, d, pos)
    BY <1>0 DEF Silent
  <2>4. ASSUME e.doc = d, e.action = "create" PROVE stored[d] = <<>>
    <3>1. ASSUME NEW i \in 1 .. pos - 1, events[i].doc = d PROVE FALSE
      <4>1. i \in 1 .. Len(events) /\ i < pos
        BY <1>0, <3>1
      <4>2. events[i] = e
        BY <2>1, <2>4, <3>1, <4>1 DEF CreatesFirst
      <4>3. events[i].id = i /\ e.id = pos
        BY <1>0, <2>1, <4>1 DEF Ids, Repeats
      <4> QED
        BY <4>1, <4>2, <4>3
    <3>2. Silent(events, d, pos)
      BY <3>1 DEF Silent
    <3> QED
      BY <2>2, <3>2 DEF TextFits
  <2>5. InHand(d)' => work'.event = e /\ e.doc = d /\ work'.phase \in {"delete", "hash"}
    BY <2>1 DEF InHand
  <2> QED
    BY <2>1, <2>2, <2>3, <2>4, <2>5 DEF TextFits
<1>3. CASE ConsumerStep /\ ~Take
  <2>1. /\ work # Idle /\ pos' = pos /\ events' = events /\ overlaps' = overlaps
        /\ work' = Idle \/ work'.event = work.event
        /\ d # work.event.doc => stored'[d] = stored[d]
    BY <1>3, WorkStep, ConsumerFrame
  <2>2. CASE d # work.event.doc
    BY <1>t, <2>1, <2>2 DEF TextFits, InHand
  <2>3. CASE d = work.event.doc
    BY <1>t, <1>3, <2>1, <2>3, OwnText
  <2> QED
    BY <2>2, <2>3
<1>4. CASE Commit
  BY <1>t, <1>4 DEF Commit, TextFits, InHand
<1>5. CASE Crash
  BY <1>0, <1>5 DEF Crash
<1>6. CASE UNCHANGED vars
  BY <1>t, <1>6 DEF TextFits, InHand
<1> QED
  BY <1>1, <1>2, <1>3, <1>4, <1>5, <1>6 DEF Next, Rests

-----------------------------------------------------------------------------
(* Theorems. *)

IInv == Told /\ Followed /\ Versioned /\ OneText

LEMMA IInvInit == Init => IInv
<1> SUFFICES ASSUME Init PROVE IInv
  OBVIOUS
<1>1. /\ \A d \in Doc : versions[d] = <<>> /\ stored[d] = <<>>
      /\ events = <<>> /\ Len(events) = 0 /\ pos = 1 /\ work = Idle
  BY DEF Init
<1>2. Versioned
  BY <1>1 DEF Versioned, InHand, Idle
<1>3. OneText
  BY <1>1 DEF OneText, Uniform, InHand
<1> QED
  BY <1>2, <1>3, ToldInit, FollowedInit DEF IInv

LEMMA IInvStep == IInv /\ [Next]_vars => IInv'
  BY ToldStep, FollowedStep, VersionedStep, OneTextStep DEF IInv

\* Every variable keeps its type, for any documents and contents, any number of
\* calls in flight, of chunks, of remembered ids and of faults.
THEOREM TypeCorrect == Spec => []TypeOK
<1>1. Typed => TypeOK
  <2> SUFFICES ASSUME Typed PROVE TypeOK
    OBVIOUS
  <2>1. \A i \in DOMAIN events : events[i].action \in Action /\ events[i].text \in Text
    <3>1. \A i \in DOMAIN events : events[i] \in Message
      BY DEF Typed
    <3> QED
      BY <3>1 DEF Message
  <2> QED
    BY <2>1 DEF Typed, TypeOK
<1>2. IInv => Typed
  BY DEF IInv, Told
<1> QED
  BY <1>1, <1>2, IInvInit, IInvStep, PTL DEF Spec

\* When everything is handled, the last event of a document says what its row
\* says, and the stores hold what that event leaves.
LEMMA SettledFollows == IInv => IndexFollowsRow
<1> SUFFICES ASSUME IInv, Settled, Failures = 0, NEW d \in Doc \ overlaps
             PROVE  IF rows[d] \in Text
                    THEN /\ stored[d] = Whole(rows[d])
                         /\ versions[d] = IF rows[d] \in Blank THEN <<>> ELSE <<rows[d]>>
                    ELSE stored[d] = <<>> /\ versions[d] = <<>>
  BY DEF IndexFollowsRow
<1> USE DEF IInv, Told
<1> DEFINE n == Len(events)
<1>0. /\ n \in Nat /\ pos = n + 1 /\ work = Idle /\ \A r \in Rpc : ~On(r, d)
  <2>1. n \in Nat /\ pos \in 1 .. n + 1 /\ pos > n
    BY DEF Settled, Typed
  <2>2. work = Idle /\ \A r \in Rpc : ~On(r, d)
    BY DEF Settled, On
  <2> QED
    BY <2>1, <2>2
<1>1. Explained(d, n + 1)
  BY <1>0 DEF Followed, InHand
<1>2. ~Mixed(d, n + 1)
  <2>1. ASSUME NEW j \in 1 .. n, events[j].id >= n + 1 PROVE FALSE
    <3>1. events[j].id \in {j - 1, j}
      BY IdPlace
    <3> QED
      BY <1>0, <2>1, <3>1
  <2> QED
    BY <2>1 DEF Mixed
<1>3. Agree(d, n + 1)
  BY <1>0, <1>1, <1>2 DEF Explained
<1>4. CASE rows[d] = "absent"
  <2>1. Silent(events, d, n + 1)
    BY <1>4 DEF CallsFit
  <2>2. Empty(d)
    BY <1>0, <1>3, <2>1 DEF Agree, LastBefore, Silent
  <2> QED
    BY <1>4, <2>2 DEF Empty
<1>5. CASE rows[d] # "absent"
  <2>1. PICK i \in 1 .. n : LastBefore(events, d, n + 1, i) /\ Says(events[i], rows[d])
    BY <1>0, <1>5 DEF LastSays
  <2>2. ~Silent(events, d, n + 1)
    BY <1>0, <2>1 DEF LastBefore, Silent
  <2>3. Holds(d, events[i])
    BY <1>0, <1>3, <2>1, <2>2, LastOne DEF Agree
  <2>4. events[i].text \in Text
    BY <1>0, <2>1, IdPlace DEF Message
  <2>5. CASE events[i].action = "delete"
    BY <2>1, <2>3, <2>5 DEF Says, Holds, Empty
  <2>6. CASE events[i].action # "delete"
    <3>1. rows[d] = events[i].text
      BY <2>1, <2>6 DEF Says
    <3>2. CASE rows[d] \in Blank
      <4>1. Whole(rows[d]) = <<>>
        BY <3>2 DEF Whole
      <4> QED
        BY <2>3, <2>4, <3>1, <3>2, <4>1 DEF Holds, Empty
    <3>3. CASE rows[d] \notin Blank
      BY <2>3, <2>4, <2>6, <3>1, <3>3 DEF Holds
    <3> QED
      BY <3>2, <3>3
  <2> QED
    BY <2>5, <2>6
<1> QED
  BY <1>4, <1>5

\* After any history of changes, sends repeated and restarts between events,
\* the stores hold exactly the content of every row whose calls did not overlap.
THEOREM IndexFollowsRowHolds == Spec => []IndexFollowsRow
  BY SettledFollows, IInvInit, IInvStep, PTL DEF Spec

\* The chunks stored of a document are never of two contents, not even in
\* between and however many prompts, embeddings and sends fail.
THEOREM OneTextAtATimeHolds == Spec => []OneTextAtATime
<1>1. IInv => OneTextAtATime
  <2> SUFFICES ASSUME IInv, faults["swallowed"] + faults["cut"] + faults["replay"] = 0,
                      NEW d \in Doc \ overlaps
               PROVE  Cardinality(ToSet(stored[d])) <= 1
    BY DEF OneTextAtATime
  <2>1. Uniform(stored[d])
    BY DEF IInv, OneText
  <2>2. ToSet(stored[d]) = {stored[d][i] : i \in DOMAIN stored[d]}
    BY DEF ToSet
  <2>3. ToSet(stored[d]) = {} \/ \E t : ToSet(stored[d]) = {t}
    BY <2>1, <2>2 DEF Uniform
  <2>4. Cardinality({}) = 0 /\ \A t : Cardinality({t}) = 1
    BY FS_EmptySet, FS_Singleton
  <2>5. Cardinality(ToSet(stored[d])) \in {0, 1}
    BY <2>3, <2>4
  <2> QED
    BY <2>5
<1> QED
  BY <1>1, IInvInit, IInvStep, PTL DEF Spec

\* The last Chunks places of a sequence that ends in t hold it.
LEMMA EndsCount ==
  ASSUME NEW s \in Seq(Text), NEW t, Ends(s, t)
  PROVE  Cardinality({i \in DOMAIN s : s[i] = t}) >= Chunks
<1> DEFINE all == {i \in DOMAIN s : s[i] = t}
           last == (Len(s) - Chunks + 1) .. Len(s)
<1>1. Len(s) \in Nat /\ Chunks \in Nat /\ Len(s) >= Chunks /\ DOMAIN s = 1 .. Len(s)
  BY DEF Ends
<1>2. last \subseteq all
  BY <1>1 DEF Ends
<1>3. IsFiniteSet(all) /\ IsFiniteSet(1 .. Len(s))
  <2>1. IsFiniteSet(1 .. Len(s)) /\ all \subseteq 1 .. Len(s)
    BY <1>1, FS_Interval
  <2> QED
    BY <2>1, FS_Subset
<1>4. Cardinality(last) = Chunks
  BY <1>1, FS_Interval
<1>5. Cardinality(last) <= Cardinality(all) /\ Cardinality(all) \in Nat
  BY <1>2, <1>3, FS_Subset, FS_CardinalityType
<1> QED
  BY <1>1, <1>4, <1>5

\* An event is dismissed as unchanged only when its content is stored whole,
\* though calls overlap and events are handled again.
THEOREM UnchangedMeansStoredHolds == Spec => UnchangedMeansStored
<1> DEFINE Contents ==
      SkipUnchanged /\ Failures = 0 =>
         LET t == work.event.text IN
         Cardinality({i \in DOMAIN stored[work.event.doc] :
                         stored[work.event.doc][i] = t}) >= Len(Whole(t))
<1>1. IInv /\ [Next]_vars => [Contents]_vars
  <2> SUFFICES ASSUME IInv, SkipUnchanged, Failures = 0
               PROVE  Cardinality({i \in DOMAIN stored[work.event.doc] :
                         stored[work.event.doc][i] = work.event.text}) >= Len(Whole(work.event.text))
    OBVIOUS
  <2> DEFINE d == work.event.doc
             t == work.event.text
  <2>1. /\ work # Idle /\ d \in Doc /\ t \in Text /\ work.phase = "hash"
        /\ versions[d] # <<>> /\ Last(versions[d]) = t
        /\ stored[d] \in Seq(Text)
    <3>1. Typed /\ work.phase = "hash" /\ Unchanged(d, t)
      BY DEF IInv, Told, SkipUnchanged
    <3>2. work # Idle /\ d \in Doc /\ t \in Text
      BY <3>1, WorkType
    <3> QED
      BY <3>1, <3>2 DEF Unchanged, Typed
  <2>2. Ends(stored[d], t)
    BY <2>1 DEF IInv, Versioned
  <2>3. Cardinality({i \in DOMAIN stored[d] : stored[d][i] = t}) >= Chunks
    BY <2>1, <2>2, EndsCount
  <2>4. Len(Whole(t)) \in {0, Chunks} /\ Chunks \in Nat
    BY DEF Whole
  <2>5. Cardinality({i \in DOMAIN stored[d] : stored[d][i] = t}) \in Nat
    <3>1. IsFiniteSet({i \in DOMAIN stored[d] : stored[d][i] = t})
      <4>1. DOMAIN stored[d] = 1 .. Len(stored[d]) /\ Len(stored[d]) \in Nat
        BY <2>1
      <4>2. \A n \in Nat : IsFiniteSet(1 .. n)
        BY FS_Interval
      <4>3. IsFiniteSet(DOMAIN stored[d])
        BY <4>1, <4>2
      <4> QED
        BY <4>3, FS_Subset
    <3> QED
      BY <3>1, FS_CardinalityType
  <2> QED
    BY <2>3, <2>4, <2>5
<1> QED
  BY <1>1, IInvInit, IInvStep, PTL DEF Spec, UnchangedMeansStored

-----------------------------------------------------------------------------
(***************************************************************************)
(* The other consumer of a topic: CodeChanges, for any log, any files and  *)
(* contents, any number of concurrent tasks and of failures.  Nothing      *)
(* below refers to what is above.                                          *)
(*                                                                         *)
(* FilesFollow says of every file that is followed where its stores are: within *)
(* what the one task at work on it has done so far, or ready for the       *)
(* messages still to come, those that come again among them.               *)
(***************************************************************************)
\* Every message that was fetched is handled, lost in a crash, or in work.
Accounted == 1 .. fetched \subseteq done \cup lost \cup Active

\* A consumer that has stopped has nothing in work.
StoppedIdle == loop = "stopped" => Active = {}

CodeKept == CodeTypeOK /\ Accounted /\ StoppedIdle

\* What the stores hold of a file that is its own.
Has(p) == [code |-> code[p], entity |-> [e \in Own(p) |-> entity[e]],
           edge |-> [r \in OwnRelation(p) |-> edge[r]], point |-> point[p]]

\* The same as Stored, of a holding x.
HoldsAs(p, x, c) ==
    /\ x.code = c
    /\ x.entity = Filled(Own(p), Defined(c), c)
    /\ x.edge = Filled(OwnRelation(p), Related(c), c)
    /\ x.point = Filled(Unit, Points(c), c)

\* A holding that storing c on top of it completes.
Mergeable(p, x, c) ==
    /\ x.code \in {Absent, c}
    /\ \A e \in Own(p) :
         x.entity[e] \in {Absent, c} /\ (e \notin Defined(c) => x.entity[e] = Absent)
    /\ \A r \in OwnRelation(p) :
         x.edge[r] \in {Absent, c} /\ (r \notin Related(c) => x.edge[r] = Absent)
    /\ \A u \in Unit :
         x.point[u] \in {Absent, c} /\ (u \notin Points(c) => x.point[u] = Absent)

\* How far a task at position s has stored c.
Growing(p, x, c, s) ==
    /\ Mergeable(p, x, c)
    /\ s \in {"entities", "edges", "points"} => x.code = c
    /\ s \in {"edges", "points"} => x.entity = Filled(Own(p), Defined(c), c)
    /\ s = "points" => x.edge = Filled(OwnRelation(p), Related(c), c)

\* What storing c makes of the members of S that it finds.
Merged(S, old, found, c) == [u \in S |-> IF u \in found THEN c ELSE old[u]]
Clean(S) == [u \in S |-> Absent]

Clears(o, p) == FirstStep(Log[o]) = "purge" /\ Purged(Log[o]) = p
Superseded(o, p) == \E q \in Offset : o < q /\ p \in Touches(q)
Storing == {"code", "entities", "edges", "points"}

\* What a task at position s has made of a file it touches.  A file that
\* arrives on top of what a later message stored, as it may after a restart,
\* is in no order until a later message comes again.
Within(x, s, o, p) ==
    /\ Clears(o, p) /\ s = "purge points" =>
         x.code = Absent /\ x.entity = Clean(Own(p)) /\ x.edge = Clean(OwnRelation(p))
    /\ Clears(o, p) /\ (s \in {"analyze", "code"} \/ (s \in Storing /\ p # Log[o].path))
       => HoldsAs(p, x, Absent)
    /\ p = Log[o].path /\ (Arrives(o) \/ s \in Storing \ {"code"})
       => (Arrives(o) /\ Superseded(o, p)) \/ Growing(p, x, Log[o].content, s)

\* Handling the messages after k one by one leads to what the log says.
Ready(x, p, k) ==
    /\ (\A o \in k + 1 .. Len(Log) : p \notin Touches(o)) => HoldsAs(p, x, LastChange(p))
    /\ \A o \in Offset : NextTouch(p, k, o) /\ Arrives(o) /\ p = Log[o].path
          => Superseded(o, p) \/ Mergeable(p, x, Log[o].content)

\* What a task leaves of a file it touches.
Concluded(x, o, p) ==
    \/ Arrives(o) /\ p = Log[o].path /\ Superseded(o, p)
    \/ HoldsAs(p, x, Leaves(o, p))

FileFollows(p) ==
    /\ \A o \in Active : p \in Touches(o) =>
          Within(Has(p), task[o], o, p) /\ \A r \in o + 1 .. fetched : p \notin Touches(r)
    /\ (\A o \in Active : p \notin Touches(o)) => Ready(Has(p), p, fetched)
FilesFollow == \A p \in Traceable : FileFollows(p)

\* The position of a task fits its message.
StagedAt(o) ==
    /\ o <= fetched
    /\ task[o] = "skip" <=> FirstStep(Log[o]) = "skip"
    /\ task[o] \in {"purge", "purge points"} => FirstStep(Log[o]) = "purge"
    /\ task[o] \in {"analyze"} \cup Storing => Log[o].change # "deleted"
    /\ task[o] \in Storing =>
         /\ Log[o].content \notin Excluded
         /\ answer[o] # Log[o].path => {answer[o], Log[o].path} \subseteq astray
Staged == \A o \in Active : StagedAt(o)

\* What is a file's own hangs on its Code node and on nothing else, and a
\* relation on both its ends.
Rooted ==
    /\ \A p \in Path \ astray : \A e \in Own(p) :
         /\ entity[e] # Absent => <<p, e>> \in contains
         /\ \A q \in Path : <<q, e>> \in contains => q = p
    /\ \A r \in Relation : edge[r] # Absent => Absent \notin {entity[r[1]], entity[r[2]]}

-----------------------------------------------------------------------------
USE DEF graph, stores, history, answers, codeVars, reader, At, Go, FinishTask, Disturb, CallFails, NoTask

\* What the log holds of one message.
LEMMA CodeMessageType ==
  ASSUME NEW o \in Offset
  PROVE  /\ Log[o] \in FileEvent /\ Log[o].path \in Path /\ Log[o].content \in Content
         /\ Log[o].change \in Change /\ Touches(o) \subseteq Path
<1>1. Log[o] \in FileEvent
  BY CodeAssumption DEF Offset
<1> QED
  BY <1>1 DEF FileEvent, Touches, Renames

\* A task starts at one of three places, and only a file is ever purged.
LEMMA FirstStepType ==
  ASSUME NEW o \in Offset
  PROVE  /\ FirstStep(Log[o]) \in TaskState \ {NoTask}
         /\ FirstStep(Log[o]) = "purge" => Purged(Log[o]) \in Path
<1>1. Log[o] \in FileEvent
  BY CodeMessageType
<1>2. CASE Log[o].change = "renamed"
  BY <1>1, <1>2 DEF FileEvent, FirstStep, Purged, Renames, TaskState
<1>3. CASE Log[o].change # "renamed"
  BY <1>1, <1>3 DEF FileEvent, FirstStep, Purged, Renames, TaskState
<1> QED
  BY <1>2, <1>3

\* What the analysis finds in the content of a message.
LEMMA FoundType ==
  ASSUME NEW c \in Content
  PROVE  /\ Defines[c] \subseteq Entity /\ Relates[c] \subseteq Relation
         /\ c # Absent /\ Size[c] \in Nat
         /\ Points(c) = 0 .. Size[c] /\ Defined(c) = Defines[c] /\ Related(c) \subseteq Relation
<1>1. c # Absent /\ Defines[c] \subseteq Entity /\ Size[c] \in Nat
  BY CodeAssumption
<1>2. Relates[c] \subseteq Relation
  BY DEF Relation
<1> QED
  BY <1>1, <1>2 DEF Points, Defined, Related

\* Both ends of a relation are entities.
LEMMA RelationType == Relation \subseteq Entity \X Entity
  BY CodeAssumption DEF Relation

\* A failure stays within its bound.
LEMMA CallFailsType == CodeTypeOK /\ CallFails => failures' \in 0 .. MaxFailures
  BY CodeAssumption DEF CodeTypeOK

\* The first state is well formed.
LEMMA CodeTypeInit == CodeInit => CodeTypeOK
<1> SUFFICES ASSUME CodeInit PROVE CodeTypeOK
  OBVIOUS
<1>1. fetched \in 0 .. Len(Log) /\ acked \in 0 .. fetched /\ failures \in 0 .. MaxFailures
  BY CodeAssumption DEF CodeInit
<1>2. Nothing \in Held(Unit)
  BY DEF Nothing, Held
<1>3. entity \in Held(Entity) /\ edge \in Held(Relation) /\ point \in [Path -> Held(Unit)]
      /\ code \in Held(Path) /\ contains \subseteq Path \X Entity
  BY <1>2 DEF CodeInit, Held
<1>4. task \in [Offset -> TaskState] /\ answer \in [Offset -> Path]
  BY CodeMessageType DEF CodeInit, TaskState
<1> QED
  BY <1>1, <1>3, <1>4 DEF CodeInit, CodeTypeOK

\* Reading a batch keeps the types: tasks start where they may.
LEMMA FetchType == CodeTypeOK /\ Fetch => CodeTypeOK'
<1> SUFFICES ASSUME CodeTypeOK, Fetch PROVE CodeTypeOK'
  OBVIOUS
<1>1. PICK n \in 1 .. Len(Log) :
        /\ fetched + n <= Len(Log) /\ fetched' = fetched + n
        /\ LET batch == fetched + 1 .. fetched + n IN
             /\ task' = [o \in Offset |-> IF o \in batch THEN FirstStep(Log[o]) ELSE task[o]]
             /\ disturbed' = (disturbed \ Cleared(batch)) \cup Contended(batch)
        /\ UNCHANGED <<loop, signalled, acked, stores, done, lost, answers, failures>>
  BY DEF Fetch
<1> DEFINE batch == fetched + 1 .. fetched + n
<1>2. batch \subseteq Offset /\ Len(Log) \in Nat
  BY <1>1, CodeAssumption DEF CodeTypeOK, Offset
<1>3. task' \in [Offset -> TaskState]
  BY <1>1, FirstStepType DEF CodeTypeOK
<1>4. Contended(batch) \subseteq Path
  BY <1>2, CodeMessageType DEF Contended
<1>5. disturbed' \subseteq Path
  BY <1>1, <1>4 DEF CodeTypeOK
<1>6. fetched' \in 0 .. Len(Log) /\ acked' \in 0 .. fetched'
  BY <1>1, <1>2 DEF CodeTypeOK
<1> QED
  BY <1>1, <1>3, <1>5, <1>6 DEF CodeTypeOK

\* A step of a task keeps the types of the stores.
LEMMA TaskStepType ==
  ASSUME CodeTypeOK, NEW o \in Offset, Step(o) \/ Failure(o)
  PROVE  CodeTypeOK'
<1> USE CodeMessageType, CodeAssumption DEF CodeTypeOK, TaskState
<1>1. CASE Skip(o)
  BY <1>1 DEF Skip
<1>2. CASE PurgeGraph(o)
  <2>1. code' \in Held(Path) /\ task' \in [Offset -> TaskState]
    BY <1>2 DEF PurgeGraph, Held
  <2>2. entity' \in Held(Entity) /\ edge' \in Held(Relation)
    BY <1>2 DEF PurgeGraph, Held
  <2> QED
    BY <1>2, <2>1, <2>2 DEF PurgeGraph
<1>3. CASE PurgePoints(o)
  <2>1. Nothing \in Held(Unit)
    BY DEF Nothing, Held
  <2>2. point' \in [Path -> Held(Unit)]
    BY <1>3, <2>1 DEF PurgePoints
  <2>3. task' \in [Offset -> TaskState] /\ done' \subseteq Offset
    BY <1>3 DEF PurgePoints, AfterPurge
  <2> QED
    BY <1>3, <2>2, <2>3 DEF PurgePoints
<1>4. CASE NothingToAnalyze(o)
  BY <1>4 DEF NothingToAnalyze
<1>5. CASE Analyze(o)
  BY <1>5 DEF Analyze, Analyzes
<1>6. CASE StoreCode(o)
  <2>1. code' \in Held(Path)
    BY <1>6 DEF StoreCode, Held
  <2> QED
    BY <1>6, <2>1 DEF StoreCode
<1>7. CASE StoreEntities(o)
  <2>1. entity' \in Held(Entity)
    BY <1>7 DEF StoreEntities, Held
  <2>2. contains' \subseteq Path \X Entity
    <3>1. Defines[Log[o].content] \subseteq Entity /\ answer[o] \in Path
      BY FoundType
    <3>2. contains' = contains \/ contains' = contains \cup ({answer[o]} \X Defines[Log[o].content])
      BY <1>7 DEF StoreEntities
    <3> HIDE CodeAssumption
    <3> QED
      BY <3>1, <3>2
  <2> QED
    BY <1>7, <2>1, <2>2 DEF StoreEntities
<1>8. CASE StoreEdges(o)
  <2>1. edge' \in Held(Relation)
    BY <1>8 DEF StoreEdges, Held
  <2> QED
    BY <1>8, <2>1 DEF StoreEdges
<1>9. CASE StorePoints(o)
  <2>1. point' \in [Path -> Held(Unit)]
    BY <1>9 DEF StorePoints, Held
  <2> QED
    BY <1>9, <2>1 DEF StorePoints
<1>15. CASE Misnames(o)
  <2>1. failures' \in 0 .. MaxFailures
    BY <1>15, CallFailsType DEF Misnames
  <2>2. task' \in [Offset -> TaskState] /\ answer' \in [Offset -> Path] /\ astray' \subseteq Path
    BY <1>15 DEF Misnames
  <2> QED
    BY <1>15, <2>1, <2>2 DEF Misnames
<1>10. CASE PurgeRaises(o)
  <2>1. failures' \in 0 .. MaxFailures /\ disturbed' \subseteq Path
    BY <1>10, CallFailsType DEF PurgeRaises
  <2>2. task' \in [Offset -> TaskState] /\ done' \subseteq Offset
    BY <1>10 DEF PurgeRaises
  <2> QED
    BY <1>10, <2>1, <2>2 DEF PurgeRaises
<1>11. CASE FallBack(o)
  <2>1. failures' \in 0 .. MaxFailures /\ disturbed' \subseteq Path
    BY <1>11, CallFailsType DEF FallBack
  <2>2. task' \in [Offset -> TaskState] /\ done' \subseteq Offset
    BY <1>11 DEF FallBack
  <2> QED
    BY <1>11, <2>1, <2>2 DEF FallBack
<1>12. CASE StoreRaises(o)
  <2>1. failures' \in 0 .. MaxFailures /\ disturbed' \subseteq Path
    BY <1>12, CallFailsType DEF StoreRaises
  <2>2. task' \in [Offset -> TaskState] /\ done' \subseteq Offset
    BY <1>12 DEF StoreRaises
  <2> QED
    BY <1>12, <2>1, <2>2 DEF StoreRaises
<1>13. CASE EdgesSwallowed(o)
  <2>1. failures' \in 0 .. MaxFailures /\ disturbed' \subseteq Path
    BY <1>13, CallFailsType DEF EdgesSwallowed
  <2>2. task' \in [Offset -> TaskState] /\ done' \subseteq Offset
    BY <1>13 DEF EdgesSwallowed
  <2> QED
    BY <1>13, <2>1, <2>2 DEF EdgesSwallowed
<1> QED
  BY <1>1, <1>2, <1>3, <1>4, <1>5, <1>6, <1>7, <1>8, <1>9, <1>10, <1>11, <1>12, <1>13, <1>15
     DEF Step, Failure

\* Every step keeps every variable in its type.
LEMMA CodeTypeStep == CodeTypeOK /\ [CodeNext]_codeVars => CodeTypeOK'
<1> SUFFICES ASSUME CodeTypeOK, [CodeNext]_codeVars PROVE CodeTypeOK'
  OBVIOUS
<1> USE CodeAssumption DEF CodeTypeOK
<1>1. CASE Fetch
  BY <1>1, FetchType
<1>2. CASE AutoCommit
  BY <1>2 DEF AutoCommit
<1>3. CASE Signal
  BY <1>3 DEF Signal
<1>4. CASE LeaveLoop
  BY <1>4 DEF LeaveLoop
<1>5. CASE Stop
  <2>1. task' \in [Offset -> TaskState]
    BY <1>5 DEF Stop, TaskState
  <2>2. acked' \in 0 .. fetched' /\ fetched' \in 0 .. Len(Log)
    BY <1>5 DEF Stop
  <2>3. UNCHANGED <<signalled, stores, history, answers, failures>> /\ loop' = "stopped"
    BY <1>5 DEF Stop
  <2> QED
    BY <2>1, <2>2, <2>3
<1>6. CASE ConsumerDies
  <2>1. UNION {Touches(o) : o \in lost' \cap Active} \subseteq Path
    BY CodeMessageType DEF Active
  <2>2. disturbed' \subseteq Path /\ lost' \subseteq Offset
    BY <1>6, <2>1 DEF ConsumerDies, Active
  <2>3. task' \in [Offset -> TaskState] /\ failures' \in 0 .. MaxFailures
    BY <1>6, CallFailsType DEF ConsumerDies, TaskState
  <2>4. fetched' \in 0 .. Len(Log) /\ acked' \in 0 .. fetched'
    BY <1>6 DEF ConsumerDies
  <2> QED
    BY <1>6, <2>2, <2>3, <2>4 DEF ConsumerDies
<1>7. CASE \E o \in Offset : Step(o) \/ Failure(o)
  BY <1>7, TaskStepType
<1>8. CASE CodeRests \/ UNCHANGED codeVars
  BY <1>8 DEF CodeRests
<1> QED
  BY <1>1, <1>2, <1>3, <1>4, <1>5, <1>6, <1>7, <1>8 DEF CodeNext

-----------------------------------------------------------------------------
\* A task that ends is put down as handled; every other step keeps it in work.
LEMMA TaskStepKeeps ==
  ASSUME CodeTypeOK, NEW o \in Offset, Step(o) \/ Failure(o)
  PROVE  /\ Active' \cup done' \cup lost' = Active \cup done \cup lost
         /\ loop' = loop /\ loop # "stopped" /\ fetched' = fetched /\ acked' = acked
<1> USE DEF Active, CodeTypeOK, Skip, PurgeGraph, PurgePoints, NothingToAnalyze, Analyze,
        Analyzes, StoreCode, StoreEntities, StoreEdges, StorePoints, PurgeRaises,
        FallBack, Misnames, StoreRaises, EdgesSwallowed
<1>1. /\ loop' = loop /\ loop # "stopped" /\ fetched' = fetched /\ acked' = acked
      /\ lost' = lost /\ task[o] # NoTask
  BY DEF Step, Failure
<1>2. \/ task' = [task EXCEPT ![o] = NoTask] /\ done' = done \cup {o}
      \/ done' = done /\ \E s \in TaskState \ {NoTask} : task' = [task EXCEPT ![o] = s]
  <2>1. AfterPurge(Log[o]) \in {NoTask, "analyze"}
    BY DEF AfterPurge
  <2> QED
    BY <2>1 DEF Step, Failure, TaskState
<1>3. Active' = Active \/ (Active' = Active \ {o} /\ done' = done \cup {o})
  BY <1>1, <1>2
<1> QED
  BY <1>1, <1>2, <1>3

\* Every step keeps account of every message.
LEMMA CodeKeptStep == CodeKept /\ [CodeNext]_codeVars => CodeKept'
<1> SUFFICES ASSUME CodeKept, [CodeNext]_codeVars PROVE Accounted' /\ StoppedIdle'
  BY CodeTypeStep DEF CodeKept
<1> USE CodeAssumption DEF CodeKept, CodeTypeOK, Accounted, StoppedIdle
<1>1. CASE Fetch
  <2>1. PICK n \in 1 .. Len(Log) :
          /\ loop = "running" /\ loop' = loop
          /\ fetched + n <= Len(Log) /\ fetched' = fetched + n
          /\ task' = [o \in Offset |-> IF o \in fetched + 1 .. fetched + n
                                       THEN FirstStep(Log[o]) ELSE task[o]]
          /\ done' = done /\ lost' = lost
    BY <1>1 DEF Fetch
  <2>2. Active' = Active \cup (fetched + 1 .. fetched + n)
    BY <2>1, FirstStepType DEF Active, Offset
  <2>3. 1 .. fetched' = (1 .. fetched) \cup (fetched + 1 .. fetched + n)
    BY <2>1
  <2> QED
    BY <2>1, <2>2, <2>3
<1>2. CASE AutoCommit
  BY <1>2 DEF AutoCommit, Active
<1>3. CASE Signal
  BY <1>3 DEF Signal, Active
<1>4. CASE LeaveLoop
  BY <1>4 DEF LeaveLoop, Active
<1>5. CASE Stop
  <2>1. Active = {} /\ Active' = {}
    BY <1>5 DEF Stop, Drained, Active
  <2> QED
    BY <1>5, <2>1 DEF Stop
<1>6. CASE ConsumerDies
  <2>1. \A o \in 1 .. acked : o \in done \cup lost'
    BY <1>6 DEF ConsumerDies, Active
  <2> QED
    BY <1>6, <2>1 DEF ConsumerDies
<1>7. CASE \E o \in Offset : Step(o) \/ Failure(o)
  BY <1>7, TaskStepKeeps
<1>8. CASE CodeRests \/ UNCHANGED codeVars
  BY <1>8 DEF CodeRests, Active
<1> QED
  BY <1>1, <1>2, <1>3, <1>4, <1>5, <1>6, <1>7, <1>8 DEF CodeNext

\* The first state has fetched nothing.
LEMMA CodeKeptInit == CodeInit => CodeKept
  BY CodeTypeInit DEF CodeInit, CodeKept, Accounted, StoppedIdle

\* Every variable keeps its type, for any log and any number of tasks.
THEOREM CodeTypeCorrect == CodeSpec => []CodeTypeOK
  BY CodeTypeInit, CodeTypeStep, PTL DEF CodeSpec

\* A consumer that has stopped gracefully has handled every message it
\* committed, but those a crash took before.
THEOREM CodeStopLosesNothing == CodeSpec => []StopLosesNothing
<1>1. CodeSpec => []CodeKept
  BY CodeKeptInit, CodeKeptStep, PTL DEF CodeSpec
<1>2. CodeKept => StopLosesNothing
  BY DEF CodeKept, CodeTypeOK, Accounted, StoppedIdle, StopLosesNothing
<1> QED
  BY <1>1, <1>2, PTL
-----------------------------------------------------------------------------
\* A holding that is complete can be stored again, and an empty one always.
LEMMA HoldsMergeable ==
  ASSUME NEW p, NEW x, NEW c \in Content, HoldsAs(p, x, c) \/ HoldsAs(p, x, Absent)
  PROVE  Mergeable(p, x, c)
<1>1. c # Absent
  BY CodeAssumption
<1>2. CASE HoldsAs(p, x, c)
  BY <1>1, <1>2 DEF HoldsAs, Mergeable, Filled
<1>3. CASE HoldsAs(p, x, Absent)
  BY <1>1, <1>3 DEF HoldsAs, Mergeable, Filled
<1> QED
  BY <1>2, <1>3

\* An empty holding, told part by part.
LEMMA EmptyHolds ==
  ASSUME NEW p, NEW x
  PROVE  HoldsAs(p, x, Absent) <=>
           /\ x.code = Absent /\ x.entity = Clean(Own(p))
           /\ x.edge = Clean(OwnRelation(p)) /\ x.point = Nothing
<1>1. \A S : Filled(S, {}, Absent) = Clean(S)
  BY DEF Filled, Clean
<1>2. Clean(Unit) = Nothing
  BY DEF Clean, Nothing
<1> QED
  BY <1>1, <1>2 DEF HoldsAs, Points, Defined, Related

\* What a message that arrives leaves is its content.
LEMMA ArrivalStays ==
  ASSUME NEW o \in Offset, Arrives(o)
  PROVE  Leaves(o, Log[o].path) = Log[o].content /\ Log[o].content \in Content
         /\ Leaves(o, Log[o].path) # Absent
  BY CodeMessageType, CodeAssumption DEF Arrives, Leaves

\* The last message that touches a file decides what the log leaves it with.
LEMMA LastTouch ==
  ASSUME NEW p \in Path, NEW o \in Offset, p \in Touches(o),
         \A r \in o + 1 .. Len(Log) : p \notin Touches(r)
  PROVE  LastChange(p) = Leaves(o, p)
<1> DEFINE T == {r \in Offset : p \in Touches(r)}
<1>1. Len(Log) \in Nat
  BY CodeAssumption
<1>2. o \in T /\ \A r \in T : o >= r
  BY <1>1 DEF Offset
<1>3. \A m \in T : (\A r \in T : m >= r) => m = o
  BY <1>1, <1>2 DEF Offset
<1>4. Max(T) = o
  <2> HIDE DEF T
  <2> QED
    BY <1>2, <1>3 DEF Max
<1> QED
  BY <1>2, <1>4 DEF LastChange

\* A holding that is ready for the messages after k is ready for those after
\* an earlier one, too: they are handled again.
LEMMA Rewind ==
  ASSUME NEW x, NEW p \in Path, NEW k \in 0 .. Len(Log), NEW j \in 0 .. k, Ready(x, p, k)
  PROVE  Ready(x, p, j)
<1>1. Len(Log) \in Nat
  BY CodeAssumption
<1>2. ASSUME \A o \in j + 1 .. Len(Log) : p \notin Touches(o)
      PROVE  HoldsAs(p, x, LastChange(p))
  BY <1>1, <1>2 DEF Ready
<1>3. ASSUME NEW o \in Offset, NextTouch(p, j, o), Arrives(o), p = Log[o].path
      PROVE  Superseded(o, p) \/ Mergeable(p, x, Log[o].content)
  <2>1. CASE k < o
    <3>1. NextTouch(p, k, o)
      BY <1>1, <1>3, <2>1 DEF NextTouch, Offset
    <3> QED
      BY <1>3, <3>1 DEF Ready
  <2>2. CASE o <= k /\ ~Superseded(o, p)
    <3>1. p \in Touches(o) /\ \A r \in o + 1 .. Len(Log) : p \notin Touches(r)
      BY <1>1, <1>3, <2>2 DEF Superseded, NextTouch, Offset
    <3>2. LastChange(p) = Log[o].content /\ Log[o].content \in Content
      BY <1>3, <3>1, LastTouch, ArrivalStays
    <3>3. \A r \in k + 1 .. Len(Log) : p \notin Touches(r)
      BY <1>1, <2>2, <3>1 DEF Offset
    <3>4. HoldsAs(p, x, Log[o].content)
      BY <3>2, <3>3 DEF Ready
    <3> QED
      BY <3>2, <3>4, HoldsMergeable
  <2> QED
    BY <1>1, <2>1, <2>2 DEF Offset
<1> QED
  BY <1>2, <1>3 DEF Ready

\* Messages that do not touch a file change nothing about it.
LEMMA PassOver ==
  ASSUME NEW x, NEW p \in Path, NEW k \in 0 .. Len(Log), NEW j \in 0 .. k, Ready(x, p, j),
         \A r \in j + 1 .. k : p \notin Touches(r)
  PROVE  Ready(x, p, k)
<1>1. Len(Log) \in Nat
  BY CodeAssumption
<1>2. ASSUME \A o \in k + 1 .. Len(Log) : p \notin Touches(o)
      PROVE  HoldsAs(p, x, LastChange(p))
  <2>1. \A o \in j + 1 .. Len(Log) : p \notin Touches(o)
    BY <1>1, <1>2
  <2> QED
    BY <2>1 DEF Ready
<1>3. ASSUME NEW o \in Offset, NextTouch(p, k, o), Arrives(o), p = Log[o].path
      PROVE  Superseded(o, p) \/ Mergeable(p, x, Log[o].content)
  <2>1. NextTouch(p, j, o)
    BY <1>1, <1>3 DEF NextTouch, Offset
  <2> QED
    BY <1>3, <2>1 DEF Ready
<1> QED
  BY <1>2, <1>3 DEF Ready

\* What the last task to touch a file leaves is ready for what comes.
LEMMA AfterTouch ==
  ASSUME ArrivalsFree, NEW x, NEW p \in Path, NEW k \in 0 .. Len(Log),
         NEW o \in Offset, o <= k, p \in Touches(o),
         \A r \in o + 1 .. k : p \notin Touches(r), Concluded(x, o, p)
  PROVE  Ready(x, p, k)
<1>1. Len(Log) \in Nat
  BY CodeAssumption
<1>2. ASSUME \A r \in k + 1 .. Len(Log) : p \notin Touches(r)
      PROVE  HoldsAs(p, x, LastChange(p))
  <2>1. \A r \in o + 1 .. Len(Log) : p \notin Touches(r)
    BY <1>1, <1>2 DEF Offset
  <2>2. ~Superseded(o, p)
    BY <1>1, <2>1 DEF Superseded, Offset
  <2> QED
    BY <2>1, <2>2, LastTouch DEF Concluded
<1>3. ASSUME NEW q \in Offset, NextTouch(p, k, q), Arrives(q), p = Log[q].path
      PROVE  Mergeable(p, x, Log[q].content)
  <2>1. NextTouch(p, o, q)
    BY <1>1, <1>3 DEF NextTouch, Offset
  <2>2. Leaves(o, p) = Absent
    BY <1>3, <2>1 DEF ArrivalsFree
  <2>3. HoldsAs(p, x, Absent)
    BY <2>2, ArrivalStays DEF Concluded
  <2> QED
    BY <1>3, <2>3, HoldsMergeable, ArrivalStays
<1> QED
  BY <1>2, <1>3 DEF Ready

-----------------------------------------------------------------------------
\* A message that purges a path does not arrive there, and a message that is
\* stored and does not arrive has purged its path.
LEMMA ClearedOrFree ==
  ASSUME NEW o \in Offset
  PROVE  /\ Clears(o, Log[o].path) => ~Arrives(o)
         /\ \A p \in Touches(o) : p # Log[o].path => Clears(o, p) \/ FirstStep(Log[o]) = "skip"
         /\ FirstStep(Log[o]) # "skip" /\ Log[o].change # "deleted"
              /\ Log[o].content \notin Excluded /\ ~Arrives(o)
            => Clears(o, Log[o].path)
         /\ Log[o].change = "modified" /\ FirstStep(Log[o]) # "skip"
            => Touches(o) = {Log[o].path} /\ Clears(o, Log[o].path)
         /\ Log[o].change = "deleted"
            => Touches(o) = {Log[o].path} /\ Clears(o, Log[o].path)
         /\ FirstStep(Log[o]) = "purge" => Purged(Log[o]) \in Touches(o)
  BY CodeMessageType DEF Clears, Arrives, FirstStep, Purged, Renames, Touches, Change

\* What is a file's own is not found in another file.
LEMMA OwnApart ==
  ASSUME NEW p \in Path
  PROVE  /\ Own(p) \subseteq Entity /\ OwnRelation(p) \subseteq Relation
         /\ \A r \in OwnRelation(p) : r[1] \in Own(p) /\ r[2] \in Own(p)
         /\ \A o \in Offset : Log[o].path # p =>
              /\ \A e \in Own(p) : e \notin Defines[Log[o].content]
              /\ \A r \in OwnRelation(p) : r \notin Relates[Log[o].content]
<1>1. \A o \in Offset : Log[o].path # p => Log[o].content \in Alien(p)
  BY DEF Alien
<1>2. \A o \in Offset : Log[o].path # p =>
        \A e \in Own(p) : e \notin Defines[Log[o].content]
  BY <1>1 DEF Own
<1>3. \A o \in Offset : Log[o].path # p =>
        \A r \in OwnRelation(p) : r \notin Relates[Log[o].content]
  BY <1>1 DEF OwnRelation
<1> QED
  BY <1>2, <1>3 DEF Own, OwnRelation

\* A purge of another file, or a result stored for another file, leaves what is
\* a file's own.
LEMMA Apart ==
  ASSUME CodeTypeOK, Staged, Rooted, NEW o \in Offset, Step(o) \/ Failure(o),
         NEW p \in Path, p \notin astray',
         PurgeGraph(o) \/ PurgePoints(o) => Purged(Log[o]) # p,
         StoreCode(o) \/ StoreEntities(o) \/ StoreEdges(o) \/ StorePoints(o) => Log[o].path # p
  PROVE  Has(p)' = Has(p)
<1> USE DEF CodeTypeOK
<1>1. Log[o].path \in Path /\ Log[o].content \in Content
  BY CodeMessageType
<1>2. SUFFICES ASSUME UNCHANGED <<code, entity, edge, point>> \/
                      /\ code'[p] = code[p] /\ point'[p] = point[p]
                      /\ \A e \in Own(p) : entity'[e] = entity[e]
                      /\ \A r \in OwnRelation(p) : edge'[r] = edge[r]
                      => Has(p)' = Has(p)
               PROVE  Has(p)' = Has(p)
  BY DEF Has, Own, OwnRelation, Alien
<1>3. CASE PurgeGraph(o)
  <2> DEFINE gone == {e \in Entity : <<Purged(Log[o]), e>> \in contains}
  <2>1. Purged(Log[o]) # p /\ Purged(Log[o]) \in Path /\ p \notin astray
    <3>1. FirstStep(Log[o]) = "purge"
      BY <1>3 DEF PurgeGraph, Staged, StagedAt, Active
    <3> QED
      BY <1>3, <3>1, FirstStepType DEF PurgeGraph
  <2>2. \A e \in Own(p) : e \notin gone
    BY <2>1 DEF Rooted
  <2>3. /\ code' = [code EXCEPT ![Purged(Log[o])] = Absent] /\ point' = point
        /\ entity' = [e \in Entity |-> IF e \in gone THEN Absent ELSE entity[e]]
        /\ edge' = [r \in Relation |-> IF {r[1], r[2]} \cap gone # {} THEN Absent ELSE edge[r]]
    BY <1>3 DEF PurgeGraph
  <2> HIDE DEF gone
  <2>4. \A e \in Own(p) : entity'[e] = entity[e]
    BY <2>2, <2>3, OwnApart
  <2>5. \A r \in OwnRelation(p) : edge'[r] = edge[r]
    <3> SUFFICES ASSUME NEW r \in OwnRelation(p) PROVE edge'[r] = edge[r]
      OBVIOUS
    <3>1. r \in Relation /\ r[1] \notin gone /\ r[2] \notin gone
      BY <2>2, OwnApart
    <3> QED
      BY <2>3, <3>1
  <2>6. code'[p] = code[p]
    BY <2>1, <2>3 DEF Held
  <2> QED
    BY <1>2, <2>3, <2>4, <2>5, <2>6
<1>4. CASE PurgePoints(o)
  <2>1. point'[p] = point[p]
    BY <1>4 DEF PurgePoints
  <2> QED
    BY <1>2, <1>4, <2>1 DEF PurgePoints
<1>5. ASSUME StoreCode(o) \/ StoreEntities(o) \/ StoreEdges(o) \/ StorePoints(o)
      PROVE  answer[o] # p
  <2>1. StagedAt(o) /\ task[o] \in Storing /\ p \notin astray
    BY <1>5 DEF StoreCode, StoreEntities, StoreEdges, StorePoints, Storing, Staged, Active
  <2> QED
    BY <1>5, <2>1 DEF StagedAt
<1>6. CASE StoreCode(o)
  BY <1>2, <1>5, <1>6 DEF StoreCode, Held
<1>7. CASE StoreEntities(o)
  <2>1. \A e \in Own(p) : entity'[e] = entity[e]
    BY <1>7, OwnApart DEF StoreEntities
  <2> QED
    BY <1>2, <1>7, <2>1 DEF StoreEntities
<1>8. CASE StoreEdges(o)
  <2>1. \A r \in OwnRelation(p) : edge'[r] = edge[r]
    BY <1>8, OwnApart DEF StoreEdges
  <2> QED
    BY <1>2, <1>8, <2>1 DEF StoreEdges
<1>9. CASE StorePoints(o)
  <2>1. point'[p] = point[p]
    BY <1>5, <1>9 DEF StorePoints
  <2> QED
    BY <1>2, <1>9, <2>1 DEF StorePoints
<1>10. CASE UNCHANGED <<code, entity, edge, point>>
  BY <1>2, <1>10
<1> QED
  BY <1>3, <1>4, <1>6, <1>7, <1>8, <1>9, <1>10 DEF Step, Failure, Skip, NothingToAnalyze,
     Analyze, PurgeRaises, FallBack, Misnames, StoreRaises, EdgesSwallowed

\* A step of a task moves only this task, and only what is its files' own.
LEMMA StepMoves ==
  ASSUME CodeTypeOK, NEW o \in Offset, Step(o) \/ Failure(o)
  PROVE  /\ o \in Active /\ fetched' = fetched
         /\ \A q \in Offset \ {o} : task'[q] = task[q] /\ answer'[q] = answer[q]
         /\ disturbed \subseteq disturbed' /\ astray \subseteq astray'
<1> USE DEF CodeTypeOK, Active
<1>1. CASE Skip(o) \/ NothingToAnalyze(o)
  BY <1>1 DEF Skip, NothingToAnalyze
<1>6. CASE StorePoints(o)
  BY <1>6 DEF StorePoints
<1>2. CASE PurgeGraph(o)
  BY <1>2 DEF PurgeGraph
<1>8. CASE PurgePoints(o)
  BY <1>8 DEF PurgePoints
<1>3. CASE Analyze(o)
  BY <1>3 DEF Analyze, Analyzes
<1>7. CASE Misnames(o)
  <2>1. PICK p \in Path : answer' = [answer EXCEPT ![o] = p] /\ astray \subseteq astray'
    BY <1>7 DEF Misnames
  <2> QED
    BY <1>7, <2>1 DEF Misnames, Analyzes
<1>4. CASE StoreCode(o) \/ StoreEntities(o) \/ StoreEdges(o)
  BY <1>4 DEF StoreCode, StoreEntities, StoreEdges
<1>5. CASE PurgeRaises(o) \/ FallBack(o) \/ StoreRaises(o) \/ EdgesSwallowed(o)
  BY <1>5 DEF PurgeRaises, FallBack, StoreRaises, EdgesSwallowed, Analyzes
<1> QED
  BY <1>1, <1>2, <1>3, <1>4, <1>5, <1>6, <1>7, <1>8
     DEF Step, Failure

LEMMA StepLocal ==
  ASSUME CodeTypeOK, Staged, Rooted, NEW o \in Offset, Step(o) \/ Failure(o),
         NEW p \in Path \ (Touches(o) \cup astray')
  PROVE  Has(p)' = Has(p)
<1>1. Log[o].path \in Touches(o)
  BY DEF Touches
<1>2. PurgeGraph(o) \/ PurgePoints(o) => Purged(Log[o]) \in Touches(o)
  BY ClearedOrFree DEF PurgeGraph, PurgePoints, Staged, StagedAt, Active
<1> QED
  BY <1>1, <1>2, Apart

\* A task goes from one position to the next.
LEMMA StagedStep ==
  ASSUME CodeTypeOK, Staged, [CodeNext]_codeVars
  PROVE  Staged'
<1> USE CodeAssumption DEF CodeTypeOK, Staged
<1>1. CASE Fetch
  <2> SUFFICES ASSUME NEW o \in Active' PROVE StagedAt(o)'
    OBVIOUS
  <2>1. PICK n \in 1 .. Len(Log) :
          /\ fetched' = fetched + n
          /\ task' = [r \in Offset |-> IF r \in fetched + 1 .. fetched + n
                                       THEN FirstStep(Log[r]) ELSE task[r]]
          /\ answer' = answer /\ astray' = astray
    BY <1>1 DEF Fetch
  <2>2. o \in Offset
    BY DEF Active
  <2>3. CASE o \in fetched + 1 .. fetched + n
    <3>1. task'[o] = FirstStep(Log[o]) /\ o <= fetched'
      BY <2>1, <2>2, <2>3
    <3> QED
      BY <3>1 DEF StagedAt, FirstStep, Storing
  <2>4. CASE o \notin fetched + 1 .. fetched + n
    <3>1. task'[o] = task[o] /\ o \in Active /\ fetched <= fetched'
      BY <2>1, <2>2, <2>4 DEF Active
    <3>2. StagedAt(o)
      BY <3>1
    <3>3. o <= fetched'
      <4>1. o <= fetched
        BY <3>2 DEF StagedAt
      <4> QED
        BY <2>1, <2>2, <4>1 DEF Offset
    <3> QED
      BY <2>1, <3>1, <3>2, <3>3 DEF StagedAt
  <2> QED
    BY <2>3, <2>4
<1>2. CASE AutoCommit
  BY <1>2 DEF AutoCommit, Active, StagedAt
<1>3. CASE Signal
  BY <1>3 DEF Signal, Active, StagedAt
<1>4. CASE LeaveLoop
  BY <1>4 DEF LeaveLoop, Active, StagedAt
<1>5. CASE Stop \/ ConsumerDies
  BY <1>5 DEF Stop, ConsumerDies, Active
<1>6. ASSUME NEW o \in Offset, Step(o) \/ Failure(o) PROVE Staged'
  <2>1. o \in Active /\ fetched' = fetched /\ StagedAt(o)
        /\ (\A q \in Offset \ {o} : task'[q] = task[q] /\ answer'[q] = answer[q])
        /\ astray \subseteq astray'
    BY <1>6, StepMoves
  <2>2. \A q \in Active' \ {o} : StagedAt(q)'
    BY <2>1 DEF Active, StagedAt
  <2>3. task'[o] # NoTask => StagedAt(o)'
    <3> USE DEF StagedAt, Storing, AfterPurge
    <3>1. CASE Skip(o) \/ NothingToAnalyze(o) \/ StorePoints(o)
      BY <2>1, <3>1 DEF Skip, NothingToAnalyze, StorePoints
    <3>2. CASE PurgeGraph(o)
      BY <2>1, <3>2 DEF PurgeGraph
    <3>3. CASE PurgePoints(o)
      BY <2>1, <3>3 DEF PurgePoints
    <3>4. CASE Analyze(o)
      BY <2>1, <3>4 DEF Analyze, Analyzes
    <3>9. CASE Misnames(o)
      <4>1. PICK p \in Path :
              answer' = [answer EXCEPT ![o] = p] /\ astray' = astray \cup {p, Log[o].path}
        BY <3>9 DEF Misnames
      <4> QED
        BY <2>1, <3>9, <4>1 DEF Misnames, Analyzes
    <3>5. CASE StoreCode(o)
      BY <2>1, <3>5 DEF StoreCode
    <3>6. CASE StoreEntities(o)
      BY <2>1, <3>6 DEF StoreEntities
    <3>7. CASE StoreEdges(o) \/ EdgesSwallowed(o)
      BY <2>1, <3>7 DEF StoreEdges, EdgesSwallowed
    <3>8. CASE PurgeRaises(o) \/ FallBack(o) \/ StoreRaises(o)
      BY <3>8 DEF PurgeRaises, FallBack, StoreRaises
    <3> QED
      BY <1>6, <3>1, <3>2, <3>3, <3>4, <3>5, <3>6, <3>7, <3>8, <3>9 DEF Step, Failure
  <2> QED
    BY <2>2, <2>3 DEF Active
<1>7. CASE CodeRests \/ UNCHANGED codeVars
  <2>1. UNCHANGED <<task, fetched, answer, astray>>
    BY <1>7 DEF CodeRests
  <2> QED
    BY <2>1 DEF Active, StagedAt
<1> QED
  BY <1>1, <1>2, <1>3, <1>4, <1>5, <1>6, <1>7 DEF CodeNext

\* What is a file's own is stored below its Code node and goes with it.
LEMMA RootedStep ==
  ASSUME CodeTypeOK, Staged, Rooted, [CodeNext]_codeVars
  PROVE  Rooted'
<1> USE DEF CodeTypeOK
<1>1. ASSUME UNCHANGED <<graph>>, astray \subseteq astray' PROVE Rooted'
  BY <1>1 DEF Rooted, Own, Alien
<1>2. ASSUME NEW o \in Offset, Step(o) \/ Failure(o) PROVE Rooted'
  <2>1. Log[o].content \in Content /\ Log[o].content # Absent /\ Log[o].path \in Path
    BY CodeMessageType, CodeAssumption
  <2>2. CASE PurgeGraph(o)
    <3> DEFINE gone == {e \in Entity : <<Purged(Log[o]), e>> \in contains}
    <3>1. /\ entity' = [e \in Entity |-> IF e \in gone THEN Absent ELSE entity[e]]
          /\ contains' = {h \in contains : h[2] \notin gone}
          /\ edge' = [r \in Relation |-> IF {r[1], r[2]} \cap gone # {} THEN Absent ELSE edge[r]]
          /\ astray' = astray
      BY <2>2 DEF PurgeGraph
    <3> HIDE DEF gone
    <3>2. ASSUME NEW p \in Path \ astray', NEW e \in Own(p)
          PROVE  /\ entity'[e] # Absent => <<p, e>> \in contains'
                 /\ \A q \in Path : <<q, e>> \in contains' => q = p
      <4>1. e \in Entity
        BY OwnApart
      <4>2. entity[e] # Absent => <<p, e>> \in contains
        BY <3>1 DEF Rooted
      <4>3. \A q \in Path : <<q, e>> \in contains => q = p
        BY <3>1 DEF Rooted
      <4> QED
        BY <3>1, <4>1, <4>2, <4>3
    <3>3. ASSUME NEW r \in Relation, edge'[r] # Absent
          PROVE  Absent \notin {entity'[r[1]], entity'[r[2]]}
      <4>1. r[1] \in Entity /\ r[2] \in Entity
        BY RelationType
      <4>2. r[1] \notin gone /\ r[2] \notin gone /\ edge[r] # Absent
        BY <3>1, <3>3
      <4>3. Absent \notin {entity[r[1]], entity[r[2]]}
        BY <4>2 DEF Rooted
      <4> QED
        BY <3>1, <4>1, <4>2, <4>3
    <3> QED
      BY <3>2, <3>3 DEF Rooted, Own, Alien
  <2>3. CASE StoreEntities(o) /\ code[answer[o]] # Absent
    <3> DEFINE c == Log[o].content
    <3>1. /\ entity' = [e \in Entity |-> IF e \in Defines[c] THEN c ELSE entity[e]]
          /\ contains' = contains \cup ({answer[o]} \X Defines[c])
          /\ edge' = edge /\ astray' = astray
      BY <2>3 DEF StoreEntities
    <3>2. answer[o] # Log[o].path => {answer[o], Log[o].path} \subseteq astray
      BY <2>3 DEF StoreEntities, Staged, StagedAt, Storing, Active
    <3>3. ASSUME NEW p \in Path \ astray', NEW e \in Own(p)
          PROVE  /\ entity'[e] # Absent => <<p, e>> \in contains'
                 /\ \A q \in Path : <<q, e>> \in contains' => q = p
      <4>1. e \in Entity
        BY OwnApart
      <4>2. e \in Defines[c] => answer[o] = p
        BY <3>1, <3>2, OwnApart
      <4>3. entity[e] # Absent => <<p, e>> \in contains
        BY <3>1 DEF Rooted
      <4>4. \A q \in Path : <<q, e>> \in contains => q = p
        BY <3>1 DEF Rooted
      <4> QED
        BY <3>1, <4>1, <4>2, <4>3, <4>4
    <3>4. ASSUME NEW r \in Relation, edge'[r] # Absent
          PROVE  Absent \notin {entity'[r[1]], entity'[r[2]]}
      <4>1. r[1] \in Entity /\ r[2] \in Entity
        BY RelationType
      <4>2. Absent \notin {entity[r[1]], entity[r[2]]}
        BY <3>1, <3>4 DEF Rooted
      <4> QED
        BY <2>1, <3>1, <4>1, <4>2
    <3> QED
      BY <3>3, <3>4 DEF Rooted, Own, Alien
  <2>4. CASE StoreEdges(o)
    <3>1. /\ entity' = entity /\ contains' = contains /\ astray' = astray
          /\ \A r \in Relation : edge'[r] # Absent =>
               edge[r] # Absent \/ Absent \notin {entity[r[1]], entity[r[2]]}
      BY <2>4 DEF StoreEdges
    <3>2. \A r \in Relation : edge'[r] # Absent => Absent \notin {entity[r[1]], entity[r[2]]}
      BY <3>1 DEF Rooted
    <3> QED
      BY <3>1, <3>2 DEF Rooted, Own, Alien
  <2>5. CASE StoreCode(o)
    BY <2>5 DEF StoreCode, Rooted, Own, Alien
  <2>6. CASE UNCHANGED <<graph>>
    BY <1>1, <1>2, <2>6, StepMoves
  <2> QED
    BY <1>2, <2>2, <2>3, <2>4, <2>5, <2>6
       DEF Step, Failure, Skip, PurgePoints, NothingToAnalyze, Analyze, StoreEntities,
           StorePoints, PurgeRaises, FallBack, Misnames, StoreRaises, EdgesSwallowed
<1>3. CASE UNCHANGED <<graph, astray>>
  BY <1>1, <1>3
<1> QED
  BY <1>2, <1>3 DEF CodeNext, Fetch, AutoCommit, Signal, LeaveLoop, Stop, ConsumerDies, CodeRests

-----------------------------------------------------------------------------
\* Each call that stores a part of c brings a holding y that grows out of x one
\* step on, and the last completes it.
LEMMA GrowsOn ==
  ASSUME NEW p, NEW x, NEW y, NEW c \in Content
  PROVE  /\ Growing(p, x, c, "code") /\ y.code = c
              /\ y.entity = x.entity /\ y.edge = x.edge /\ y.point = x.point
            => Growing(p, y, c, "entities")
         /\ Growing(p, x, c, "entities") /\ y.entity = Merged(Own(p), x.entity, Defined(c), c)
              /\ y.code = x.code /\ y.edge = x.edge /\ y.point = x.point
            => Growing(p, y, c, "edges")
         /\ Growing(p, x, c, "edges") /\ y.edge = Merged(OwnRelation(p), x.edge, Related(c), c)
              /\ y.code = x.code /\ y.entity = x.entity /\ y.point = x.point
            => Growing(p, y, c, "points")
         /\ Growing(p, x, c, "points") /\ y.point = Merged(Unit, x.point, Points(c), c)
              /\ y.code = x.code /\ y.entity = x.entity /\ y.edge = x.edge
            => HoldsAs(p, y, c)
<1>1. c # Absent
  BY CodeAssumption
<1>2. ASSUME NEW S, NEW old, NEW found, \A u \in S : u \notin found => old[u] = Absent
      PROVE  Merged(S, old, found, c) = Filled(S, found, c)
  BY <1>2 DEF Merged, Filled
<1>3. ASSUME Growing(p, x, c, "code"), y.code = c,
             y.entity = x.entity, y.edge = x.edge, y.point = x.point
      PROVE  Growing(p, y, c, "entities")
  BY <1>3 DEF Growing, Mergeable
<1>4. ASSUME Growing(p, x, c, "entities"), y.entity = Merged(Own(p), x.entity, Defined(c), c),
             y.code = x.code, y.edge = x.edge, y.point = x.point
      PROVE  Growing(p, y, c, "edges")
  <2>1. y.entity = Filled(Own(p), Defined(c), c)
    <3>1. \A u \in Own(p) : u \notin Defined(c) => x.entity[u] = Absent
      BY <1>4 DEF Growing, Mergeable
    <3>2. Merged(Own(p), x.entity, Defined(c), c) = Filled(Own(p), Defined(c), c)
      BY <1>2, <3>1
    <3> QED
      BY <1>4, <3>2
  <2>2. \A u \in Own(p) : y.entity[u] = IF u \in Defined(c) THEN c ELSE Absent
    BY <2>1 DEF Filled
  <2>3. Mergeable(p, y, c)
    BY <1>4, <2>2 DEF Growing, Mergeable
  <2> QED
    BY <1>4, <2>1, <2>3 DEF Growing
<1>5. ASSUME Growing(p, x, c, "edges"), y.edge = Merged(OwnRelation(p), x.edge, Related(c), c),
             y.code = x.code, y.entity = x.entity, y.point = x.point
      PROVE  Growing(p, y, c, "points")
  <2>1. y.edge = Filled(OwnRelation(p), Related(c), c)
    <3>1. \A u \in OwnRelation(p) : u \notin Related(c) => x.edge[u] = Absent
      BY <1>5 DEF Growing, Mergeable
    <3>2. Merged(OwnRelation(p), x.edge, Related(c), c) = Filled(OwnRelation(p), Related(c), c)
      BY <1>2, <3>1
    <3> QED
      BY <1>5, <3>2
  <2>2. \A u \in OwnRelation(p) : y.edge[u] = IF u \in Related(c) THEN c ELSE Absent
    BY <2>1 DEF Filled
  <2>3. Mergeable(p, y, c)
    BY <1>5, <2>2 DEF Growing, Mergeable
  <2> QED
    BY <1>5, <2>1, <2>3 DEF Growing
<1>6. ASSUME Growing(p, x, c, "points"), y.point = Merged(Unit, x.point, Points(c), c),
             y.code = x.code, y.entity = x.entity, y.edge = x.edge
      PROVE  HoldsAs(p, y, c)
  <2>1. y.point = Filled(Unit, Points(c), c)
    <3>1. \A u \in Unit : u \notin Points(c) => x.point[u] = Absent
      BY <1>6 DEF Growing, Mergeable
    <3>2. Merged(Unit, x.point, Points(c), c) = Filled(Unit, Points(c), c)
      BY <1>2, <3>1
    <3> QED
      BY <1>6, <3>2
  <2> QED
    BY <1>1, <1>6, <2>1 DEF Growing, HoldsAs
<1> QED
  BY <1>3, <1>4, <1>5, <1>6

\* When all entities of a content are there, each relation finds both its ends.
LEMMA AllRelated ==
  ASSUME NEW p \in Path, NEW c \in Content, NEW r \in OwnRelation(p)
  PROVE  LET a == Filled(Own(p), Defined(c), c) IN
         r \in Relates[c] /\ Absent \notin {a[r[1]], a[r[2]]} <=> r \in Related(c)
<1>1. c # Absent /\ Defined(c) = Defines[c] /\ r[1] \in Own(p) /\ r[2] \in Own(p)
  BY FoundType, OwnApart
<1> DEFINE a == Filled(Own(p), Defined(c), c)
<1>2. \A e \in Own(p) : a[e] # Absent <=> e \in Defines[c]
  BY <1>1 DEF Filled
<1> HIDE DEF a
<1>3. Absent \notin {a[r[1]], a[r[2]]} <=> {r[1], r[2]} \subseteq Defines[c]
  BY <1>1, <1>2
<1>4. r \in Relates[c] /\ Absent \notin {a[r[1]], a[r[2]]} <=> r \in Related(c)
  BY <1>1, <1>3 DEF Related
<1> QED
  BY <1>4 DEF a

\* A step brings a file that is still followed to the task's next position, or
\* leaves it settled.
LEMMA Onward ==
  ASSUME CodeTypeOK, Staged, Rooted, NEW o \in Offset, Step(o) \/ Failure(o),
         NEW p \in Touches(o), p \in Traceable', Within(Has(p), task[o], o, p)
  PROVE  IF task'[o] = NoTask THEN Concluded(Has(p)', o, p)
         ELSE Within(Has(p)', task'[o], o, p)
<1> DEFINE m == Log[o]
           c == Log[o].content
           x == Has(p)
           y == Has(p)'
<1>1. /\ p \in Path /\ m \in FileEvent /\ m.path \in Path /\ c \in Content /\ c # Absent
      /\ Touches(o) \subseteq Path /\ p \notin disturbed' /\ p \notin astray' /\ p \notin astray
      /\ ProjectOf[p] \in Graphed /\ Points(c) = 0 .. Size[c] /\ Defined(c) = Defines[c]
  BY CodeMessageType, CodeAssumption, FoundType, StepMoves DEF Traceable
<1>2. o \in Active
  BY StepMoves
<1>3. StagedAt(o) /\ Within(x, task[o], o, p)
  BY <1>2 DEF Staged
<1>4. /\ x.code = code[p] /\ x.entity = [e \in Own(p) |-> entity[e]]
      /\ x.edge = [r \in OwnRelation(p) |-> edge[r]] /\ x.point = point[p]
      /\ y.code = code'[p] /\ y.entity = [e \in Own(p) |-> entity'[e]]
      /\ y.edge = [r \in OwnRelation(p) |-> edge'[r]] /\ y.point = point'[p]
  BY DEF Has, Own, OwnRelation, Alien
<1>14. ASSUME task[o] \in Storing, p = m.path PROVE answer[o] = p
  BY <1>1, <1>3, <1>14 DEF StagedAt
<1> HIDE DEF x, y
<1>5. CASE Skip(o) \/ PurgeRaises(o) \/ FallBack(o) \/ StoreRaises(o) \/ EdgesSwallowed(o)
  BY <1>1, <1>5 DEF Skip, PurgeRaises, FallBack, StoreRaises, EdgesSwallowed
<1>6. CASE PurgeGraph(o)
  <2>1. task'[o] = "purge points" /\ task[o] = "purge"
    BY <1>6 DEF PurgeGraph, CodeTypeOK
  <2>2. CASE Purged(m) = p
    <3> DEFINE gone == {e \in Entity : <<p, e>> \in contains}
    <3>4. /\ code' = [code EXCEPT ![p] = Absent]
          /\ entity' = [e \in Entity |-> IF e \in gone THEN Absent ELSE entity[e]]
          /\ edge' = [r \in Relation |-> IF {r[1], r[2]} \cap gone # {} THEN Absent ELSE edge[r]]
      BY <1>6, <2>2 DEF PurgeGraph
    <3>5. \A e \in Own(p) : e \in Entity /\ (e \notin gone => entity[e] = Absent)
      BY <1>1, OwnApart DEF Rooted
    <3> HIDE DEF gone
    <3>6. y.code = Absent /\ y.entity = Clean(Own(p))
      BY <1>1, <1>4, <3>4, <3>5 DEF CodeTypeOK, Held, Clean
    <3>7. ASSUME NEW r \in OwnRelation(p) PROVE edge'[r] = Absent
      <4>1. r \in Relation /\ r[1] \in Own(p) /\ r[2] \in Own(p)
        BY <1>1, OwnApart
      <4>2. edge[r] # Absent => Absent \notin {entity[r[1]], entity[r[2]]}
        BY <4>1 DEF Rooted
      <4>3. edge[r] # Absent => r[1] \in gone
        BY <3>5, <4>1, <4>2
      <4> QED
        BY <3>4, <4>1, <4>3
    <3>1. y.code = Absent /\ y.entity = Clean(Own(p)) /\ y.edge = Clean(OwnRelation(p))
      BY <1>4, <3>6, <3>7 DEF Clean
    <3>2. p = m.path => ~Arrives(o)
      <4>1. Clears(o, p)
        BY <1>3, <2>1, <2>2 DEF Clears, StagedAt
      <4> QED
        BY <4>1, ClearedOrFree
    <3> QED
      BY <2>1, <3>1, <3>2 DEF Within, Storing, y
  <2>3. CASE Purged(m) # p
    <3>1. y = x
      BY <1>1, <1>6, <2>3, Apart DEF PurgeGraph, PurgePoints, StoreCode, StoreEntities,
         StoreEdges, StorePoints, x, y
    <3> QED
      BY <1>3, <2>1, <2>3, <3>1 DEF Within, Storing, Growing, Clears, y
  <2> QED
    BY <2>2, <2>3
<1>7. CASE PurgePoints(o)
  <2>1. task'[o] = AfterPurge(m) /\ task[o] = "purge points" /\ FirstStep(m) = "purge"
    BY <1>3, <1>7 DEF PurgePoints, CodeTypeOK, StagedAt
  <2>2. CASE Purged(m) = p
    <3>1. Clears(o, p)
      BY <2>1, <2>2 DEF Clears
    <3>2. y.code = x.code /\ y.entity = x.entity /\ y.edge = x.edge /\ y.point = Nothing
      BY <1>1, <1>4, <1>7, <2>2 DEF PurgePoints, CodeTypeOK
    <3>3. HoldsAs(p, y, Absent)
      BY <1>3, <2>1, <3>1, <3>2, EmptyHolds DEF Within
    <3>4. p = m.path => ~Arrives(o)
      BY <3>1, ClearedOrFree
    <3>5. CASE m.change = "deleted"
      BY <2>1, <3>3, <3>5 DEF AfterPurge, Concluded, Leaves, y
    <3>6. CASE m.change # "deleted"
      BY <2>1, <3>3, <3>4, <3>6 DEF AfterPurge, Within, Storing, y
    <3> QED
      BY <3>5, <3>6
  <2>3. CASE Purged(m) # p
    <3>1. y = x
      BY <1>1, <1>7, <2>3, Apart DEF PurgeGraph, PurgePoints, StoreCode, StoreEntities,
         StoreEdges, StorePoints, x, y
    <3>2. m.change # "deleted"
      BY <2>3, ClearedOrFree DEF Clears
    <3> QED
      BY <1>3, <2>1, <2>3, <3>1, <3>2 DEF AfterPurge, Within, Storing, Growing, Clears, y
  <2> QED
    BY <2>2, <2>3
<1>8. CASE NothingToAnalyze(o)
  <2>1. task'[o] = NoTask /\ task[o] = "analyze" /\ c \in Excluded /\ y = x
    BY <1>4, <1>8 DEF NothingToAnalyze, CodeTypeOK, Has, Own, OwnRelation, Alien, x, y
  <2>2. m.change = "modified" \/ p # m.path
    BY <1>1, <1>8 DEF NothingToAnalyze
  <2>3. FirstStep(m) # "skip"
    BY <1>3, <2>1 DEF StagedAt
  <2>4. Clears(o, p)
    BY <2>2, <2>3, ClearedOrFree
  <2>5. HoldsAs(p, y, Absent)
    BY <1>3, <2>1, <2>4 DEF Within
  <2> QED
    BY <2>1, <2>5 DEF Concluded, Leaves, y
<1>9. CASE Analyze(o) \/ Misnames(o)
  <2>1. task'[o] = "code" /\ task[o] = "analyze" /\ y = x
    BY <1>9 DEF Analyze, Misnames, Analyzes, CodeTypeOK, Has, Own, OwnRelation, Alien, x, y
  <2> QED
    BY <1>3, <2>1 DEF Within, Storing, Growing, y
<1>10. CASE StoreCode(o)
  <2>1. task'[o] = "entities" /\ task[o] = "code"
    BY <1>10 DEF StoreCode, CodeTypeOK
  <2>2. CASE p = m.path
    <3>6. answer[o] = p
      BY <1>14, <2>1, <2>2 DEF Storing
    <3>1. y.code = c /\ y.entity = x.entity /\ y.edge = x.edge /\ y.point = x.point
      BY <1>1, <1>4, <1>10, <3>6 DEF StoreCode, CodeTypeOK, Held
    <3>2. Arrives(o) \/ Clears(o, p)
      BY <1>3, <2>1, <2>2, ClearedOrFree DEF StagedAt, Storing
    <3>3. Arrives(o) => Superseded(o, p) \/ Growing(p, x, c, "code")
      BY <1>3, <2>1, <2>2 DEF Within, Storing
    <3>4. Clears(o, p) => Growing(p, x, c, "code")
      <4>1. Clears(o, p) => HoldsAs(p, x, Absent)
        BY <1>3, <2>1 DEF Within
      <4> QED
        BY <1>1, <4>1, HoldsMergeable DEF Growing
    <3>5. Growing(p, x, c, "code") => Growing(p, y, c, "entities")
      BY <1>1, <3>1, GrowsOn
    <3> QED
      BY <2>1, <2>2, <3>2, <3>3, <3>4, <3>5 DEF Within, y
  <2>3. CASE p # m.path
    <3>1. y = x
      BY <1>1, <1>10, <2>3, Apart DEF PurgeGraph, PurgePoints, StoreCode, x, y
    <3> QED
      BY <1>3, <2>1, <2>3, <3>1 DEF Within, Storing, y
  <2> QED
    BY <2>2, <2>3
<1>11. CASE StoreEntities(o)
  <2>1. task'[o] = "edges" /\ task[o] = "entities"
    BY <1>11 DEF StoreEntities, CodeTypeOK
  <2>2. CASE p = m.path
    <3>4. answer[o] = p
      BY <1>14, <2>1, <2>2 DEF Storing
    <3>5. x.code = c => \A e \in Own(p) :
            entity'[e] = IF e \in Defined(c) THEN c ELSE entity[e]
      BY <1>1, <1>4, <1>11, <3>4, OwnApart DEF StoreEntities
    <3>1. x.code = c
          => /\ y.entity = Merged(Own(p), x.entity, Defined(c), c)
             /\ y.code = x.code /\ y.edge = x.edge /\ y.point = x.point
      BY <1>4, <1>11, <3>5 DEF StoreEntities, Merged
    <3>2. (Arrives(o) /\ Superseded(o, p)) \/ Growing(p, x, c, "entities")
      BY <1>3, <2>1, <2>2 DEF Within, Storing
    <3>3. Growing(p, x, c, "entities") => Growing(p, y, c, "edges")
      <4>1. Growing(p, x, c, "entities") => x.code = c
        BY DEF Growing
      <4> QED
        BY <1>1, <3>1, <4>1, GrowsOn
    <3> QED
      BY <2>1, <2>2, <3>2, <3>3 DEF Within, y
  <2>3. CASE p # m.path
    <3>1. y = x
      BY <1>1, <1>11, <2>3, Apart DEF PurgeGraph, PurgePoints, StoreEntities, x, y
    <3> QED
      BY <1>3, <2>1, <2>3, <3>1 DEF Within, Storing, y
  <2> QED
    BY <2>2, <2>3
<1>12. CASE StoreEdges(o)
  <2>1. task'[o] = "points" /\ task[o] = "edges"
    BY <1>12 DEF StoreEdges, CodeTypeOK
  <2>2. CASE p = m.path
    <3>1. /\ \A r \in OwnRelation(p) :
               y.edge[r] = IF r \in Relates[c] /\ Absent \notin {x.entity[r[1]], x.entity[r[2]]}
                           THEN c ELSE x.edge[r]
          /\ y.edge = [r \in OwnRelation(p) |-> edge'[r]]
          /\ y.code = x.code /\ y.entity = x.entity /\ y.point = x.point
      BY <1>1, <1>4, <1>12, OwnApart DEF StoreEdges
    <3>2. (Arrives(o) /\ Superseded(o, p)) \/ Growing(p, x, c, "edges")
      BY <1>3, <2>1, <2>2 DEF Within, Storing
    <3>3. Growing(p, x, c, "edges") => Growing(p, y, c, "points")
      <4>1. Growing(p, x, c, "edges") => y.edge = Merged(OwnRelation(p), x.edge, Related(c), c)
        <5> SUFFICES ASSUME Growing(p, x, c, "edges")
                     PROVE  y.edge = Merged(OwnRelation(p), x.edge, Related(c), c)
          OBVIOUS
        <5>1. x.entity = Filled(Own(p), Defined(c), c)
          BY DEF Growing
        <5>2. \A r \in OwnRelation(p) :
                r \in Relates[c] /\ Absent \notin {x.entity[r[1]], x.entity[r[2]]}
                <=> r \in Related(c)
          BY <1>1, <5>1, AllRelated
        <5>3. \A r \in OwnRelation(p) :
                y.edge[r] = IF r \in Related(c) THEN c ELSE x.edge[r]
          BY <3>1, <5>2
        <5> QED
          BY <3>1, <5>3 DEF Merged
      <4> QED
        BY <1>1, <3>1, <4>1, GrowsOn
    <3> QED
      BY <2>1, <2>2, <3>2, <3>3 DEF Within, y
  <2>3. CASE p # m.path
    <3>1. y = x
      BY <1>1, <1>12, <2>3, Apart DEF PurgeGraph, PurgePoints, StoreEdges, x, y
    <3> QED
      BY <1>3, <2>1, <2>3, <3>1 DEF Within, Storing, y
  <2> QED
    BY <2>2, <2>3
<1>13. CASE StorePoints(o)
  <2>1. task'[o] = NoTask /\ task[o] = "points"
    BY <1>13 DEF StorePoints, CodeTypeOK
  <2>2. CASE p = m.path
    <3>5. answer[o] = p
      BY <1>14, <2>1, <2>2 DEF Storing
    <3>1. y.point = Merged(Unit, x.point, Points(c), c)
          /\ y.code = x.code /\ y.entity = x.entity /\ y.edge = x.edge
      BY <1>1, <1>4, <1>13, <3>5 DEF StorePoints, CodeTypeOK, Merged
    <3>2. (Arrives(o) /\ Superseded(o, p)) \/ Growing(p, x, c, "points")
      BY <1>3, <2>1, <2>2 DEF Within, Storing
    <3>3. Growing(p, x, c, "points") => HoldsAs(p, y, c)
      BY <1>1, <3>1, GrowsOn
    <3>4. Leaves(o, p) = c
      BY <1>3, <2>1, <2>2 DEF StagedAt, Storing, Leaves
    <3> QED
      BY <2>1, <2>2, <3>2, <3>3, <3>4 DEF Concluded, y
  <2>3. CASE p # m.path
    <3>1. y = x
      BY <1>1, <1>13, <2>3, Apart DEF PurgeGraph, PurgePoints, StorePoints, x, y
    <3>2. Clears(o, p)
      BY <1>3, <2>1, <2>3, ClearedOrFree DEF StagedAt
    <3> QED
      BY <1>3, <2>1, <2>3, <3>1, <3>2 DEF Within, Storing, Concluded, Leaves, y
  <2> QED
    BY <2>2, <2>3
<1> QED
  BY <1>5, <1>6, <1>7, <1>8, <1>9, <1>10, <1>11, <1>12, <1>13 DEF Step, Failure

\* A step of a task keeps every file as far as the messages say.
LEMMA FollowTask ==
  ASSUME ArrivalsFree, CodeTypeOK, Staged, Rooted, FilesFollow,
         NEW o \in Offset, Step(o) \/ Failure(o)
  PROVE  FilesFollow'
<1>1. /\ o \in Active /\ fetched' = fetched /\ fetched \in 0 .. Len(Log)
      /\ \A q \in Offset \ {o} : task'[q] = task[q]
      /\ Traceable' \subseteq Traceable
  BY StepMoves DEF CodeTypeOK, Traceable
<1>2. o <= fetched
  BY <1>1 DEF Staged, StagedAt
<1>3. \A q \in Offset \ {o} : q \in Active' <=> q \in Active
  BY <1>1 DEF Active
<1> SUFFICES ASSUME NEW p \in Traceable' PROVE FileFollows(p)'
  BY DEF FilesFollow
<1>0. p \in Path /\ p \notin disturbed' /\ p \notin astray' /\ ProjectOf[p] \in Graphed
  BY DEF Traceable
<1>4. FileFollows(p)
  BY <1>1 DEF FilesFollow
<1>5. CASE p \notin Touches(o)
  <2>1. \A q \in Offset : p \in Touches(q) =>
          (q \in Active' <=> q \in Active) /\ task'[q] = task[q]
    BY <1>1, <1>3, <1>5
  <2>2. Has(p)' = Has(p)
    BY <1>0, <1>5, StepLocal
  <2>3. ASSUME NEW q \in Active', p \in Touches(q)
        PROVE  /\ Within(Has(p)', task'[q], q, p)
               /\ \A r \in q + 1 .. fetched' : p \notin Touches(r)
    BY <1>1, <1>4, <2>1, <2>2, <2>3 DEF FileFollows, Active
  <2>4. ASSUME \A q \in Active' : p \notin Touches(q)
        PROVE  Ready(Has(p)', p, fetched')
    <3>1. \A q \in Active : p \notin Touches(q)
      BY <2>1, <2>4 DEF Active
    <3> QED
      BY <1>1, <1>4, <2>2, <3>1 DEF FileFollows
  <2> QED
    BY <2>3, <2>4 DEF FileFollows
<1>6. CASE p \in Touches(o)
  <2>1. Within(Has(p), task[o], o, p) /\ \A r \in o + 1 .. fetched : p \notin Touches(r)
    BY <1>1, <1>4, <1>6 DEF FileFollows
  <2>2. IF task'[o] = NoTask THEN Concluded(Has(p)', o, p)
        ELSE Within(Has(p)', task'[o], o, p)
    BY <1>6, <2>1, Onward
  <2>3. \A q \in Active : p \in Touches(q) => q = o
    <3> SUFFICES ASSUME NEW q \in Active, p \in Touches(q), q # o PROVE FALSE
      OBVIOUS
    <3>1. q <= fetched /\ q \in Offset /\ \A r \in q + 1 .. fetched : p \notin Touches(r)
      BY <1>4 DEF Staged, StagedAt, FileFollows, Active
    <3>2. q < o \/ o < q
      BY <3>1 DEF Offset
    <3> QED
      BY <1>2, <1>6, <2>1, <3>1, <3>2 DEF Offset
  <2>4. \A q \in Active' : p \in Touches(q) => q = o
    BY <1>3, <2>3 DEF Active
  <2>5. CASE task'[o] = NoTask
    <3>1. Ready(Has(p)', p, fetched)
      BY <1>0, <1>1, <1>2, <1>6, <2>1, <2>2, <2>5, AfterTouch
    <3>2. \A q \in Active' : p \notin Touches(q)
      BY <2>4, <2>5 DEF Active
    <3> QED
      BY <1>1, <3>1, <3>2 DEF FileFollows
  <2>6. CASE task'[o] # NoTask
    <3>1. o \in Active'
      BY <2>6 DEF Active
    <3> QED
      BY <1>1, <1>6, <2>1, <2>2, <2>4, <2>6, <3>1 DEF FileFollows
  <2> QED
    BY <2>5, <2>6
<1> QED
  BY <1>5, <1>6

\* Reading a batch: a file that stays undisturbed is touched by one message of
\* it at most, and then by no task in work.
LEMMA FollowFetch ==
  ASSUME CodeTypeOK, Staged, FilesFollow, Fetch
  PROVE  FilesFollow'
<1>1. PICK n \in 1 .. Len(Log) :
        /\ fetched + n <= Len(Log) /\ fetched' = fetched + n
        /\ LET batch == fetched + 1 .. fetched + n IN
             /\ task' = [o \in Offset |-> IF o \in batch THEN FirstStep(Log[o]) ELSE task[o]]
             /\ disturbed' = (disturbed \ Cleared(batch)) \cup Contended(batch)
        /\ UNCHANGED <<stores, astray>>
  BY DEF Fetch
<1> DEFINE batch == fetched + 1 .. fetched + n
<1>2. fetched \in Nat /\ Len(Log) \in Nat /\ batch \subseteq Offset /\ fetched' \in 0 .. Len(Log)
  BY <1>1, CodeAssumption DEF CodeTypeOK, Offset
<1>3. \A o \in Active : o <= fetched /\ o \notin batch
  <2>1. \A o \in Active : o <= fetched
    BY DEF Staged, StagedAt
  <2> QED
    BY <1>2, <2>1 DEF Active, Offset
<1>4. Active' = Active \cup batch
  <2>1. \A o \in batch : task'[o] # NoTask
    BY <1>1, <1>2, FirstStepType
  <2>2. \A o \in Offset \ batch : task'[o] = task[o]
    BY <1>1
  <2> QED
    BY <1>2, <1>3, <2>1, <2>2 DEF Active
<1> SUFFICES ASSUME NEW p \in Traceable' PROVE FileFollows(p)'
  BY DEF FilesFollow
<1>0. p \in Path /\ p \notin disturbed' /\ p \notin astray' /\ ProjectOf[p] \in Graphed
  BY DEF Traceable
<1>5. Has(p)' = Has(p)
  BY <1>1 DEF Has, Own, OwnRelation, Alien
<1>6. \A o \in batch : p \in Touches(o) =>
        \A q \in (Active \cup batch) \ {o} : p \notin Touches(q)
  BY <1>0, <1>1 DEF Contended
<1>7. \A o \in batch : p \notin Touches(o) => ~Clears(o, p)
  BY <1>2, ClearedOrFree DEF Clears
<1>8. p \in Traceable \/ p \in Cleared(batch)
  BY <1>0, <1>1 DEF Traceable
<1>9. CASE \A o \in batch : p \notin Touches(o)
  <2>1. FileFollows(p)
    BY <1>7, <1>8, <1>9 DEF Cleared, Clears, FilesFollow
  <2>2. ASSUME NEW o \in Active', p \in Touches(o)
        PROVE  /\ Within(Has(p)', task'[o], o, p)
               /\ \A r \in o + 1 .. fetched' : p \notin Touches(r)
    <3>1. o \in Active /\ task'[o] = task[o] /\ o \in Offset
      BY <1>1, <1>3, <1>4, <1>9, <2>2 DEF Active
    <3>2. \A r \in o + 1 .. fetched' : r \in o + 1 .. fetched \/ r \in batch
      BY <1>1, <1>2, <3>1 DEF Offset
    <3> QED
      BY <1>5, <1>9, <2>1, <2>2, <3>1, <3>2 DEF FileFollows
  <2>3. ASSUME \A o \in Active' : p \notin Touches(o)
        PROVE  Ready(Has(p)', p, fetched')
    <3>1. Ready(Has(p), p, fetched)
      BY <1>4, <2>1, <2>3 DEF FileFollows
    <3>2. \A r \in fetched + 1 .. fetched' : p \notin Touches(r)
      BY <1>1, <1>9
    <3>3. fetched \in 0 .. fetched'
      BY <1>1, <1>2
    <3> QED
      BY <1>0, <1>2, <1>5, <3>1, <3>2, <3>3, PassOver
  <2> QED
    BY <2>2, <2>3 DEF FileFollows
<1>10. CASE \E o \in batch : p \in Touches(o)
  <2>1. PICK o \in batch : p \in Touches(o)
    BY <1>10
  <2>2. \A q \in (Active \cup batch) \ {o} : p \notin Touches(q)
    BY <1>6, <2>1
  <2>3. \A r \in o + 1 .. fetched' : p \notin Touches(r)
    <3>1. \A r \in o + 1 .. fetched' : r \in batch \ {o}
      BY <1>1, <1>2, <2>1
    <3> QED
      BY <2>2, <3>1
  <2>4. task'[o] = FirstStep(Log[o]) /\ o \in Offset
    BY <1>1, <1>2, <2>1
  <2>5. Within(Has(p), FirstStep(Log[o]), o, p)
    <3>1. FirstStep(Log[o]) \in {"skip", "purge", "analyze"}
      BY DEF FirstStep
    <3>2. ASSUME p = Log[o].path, Arrives(o), ~Superseded(o, p)
          PROVE  Growing(p, Has(p), Log[o].content, FirstStep(Log[o]))
      <4>1. ~Clears(o, p)
        BY <2>4, <3>2, ClearedOrFree
      <4>2. p \notin Cleared(batch)
        <5>1. \A q \in batch : ~Clears(q, p)
          BY <1>7, <2>2, <4>1
        <5> QED
          BY <5>1 DEF Cleared, Clears
      <4>3. Ready(Has(p), p, fetched)
        <5>1. FileFollows(p)
          BY <1>8, <4>2 DEF FilesFollow
        <5>2. \A q \in Active : p \notin Touches(q)
          BY <1>3, <2>1, <2>2
        <5> QED
          BY <5>1, <5>2 DEF FileFollows
      <4>4. NextTouch(p, fetched, o)
        BY <1>2, <2>1, <2>2 DEF NextTouch
      <4>5. Mergeable(p, Has(p), Log[o].content)
        BY <2>4, <3>2, <4>3, <4>4 DEF Ready
      <4> QED
        BY <3>1, <4>5 DEF Growing
    <3> QED
      BY <3>1, <3>2 DEF Within, Storing, Clears
  <2>6. \A q \in Active' : p \in Touches(q) => q = o
    BY <1>4, <2>2
  <2>7. o \in Active'
    BY <1>4, <2>1
  <2> QED
    BY <1>5, <2>1, <2>3, <2>4, <2>5, <2>6, <2>7 DEF FileFollows
<1> QED
  BY <1>9, <1>10

\* A crash of the process: what was not committed comes again.
LEMMA FollowDies ==
  ASSUME CodeTypeOK, Staged, FilesFollow, ConsumerDies
  PROVE  FilesFollow'
<1>1. /\ lost' = lost \cup {o \in Active : o <= acked}
      /\ disturbed' = disturbed \cup UNION {Touches(o) : o \in lost' \cap Active}
      /\ fetched' = acked /\ Active' = {} /\ UNCHANGED <<stores, astray>>
  BY DEF ConsumerDies, Active
<1>2. fetched \in 0 .. Len(Log) /\ acked \in 0 .. fetched /\ Len(Log) \in Nat
  BY CodeAssumption DEF CodeTypeOK
<1> SUFFICES ASSUME NEW p \in Traceable' PROVE FileFollows(p)'
  BY DEF FilesFollow
<1>0. p \in Path /\ p \notin disturbed' /\ p \notin astray' /\ ProjectOf[p] \in Graphed
  BY DEF Traceable
<1>3. Has(p)' = Has(p) /\ FileFollows(p)
  BY <1>0, <1>1 DEF Has, Own, OwnRelation, Alien, FilesFollow, Traceable
<1>4. CASE \A o \in Active : p \notin Touches(o)
  <2>1. Ready(Has(p), p, fetched)
    BY <1>3, <1>4 DEF FileFollows
  <2>2. Ready(Has(p), p, acked)
    BY <1>0, <1>2, <2>1, Rewind
  <2> QED
    BY <1>1, <1>3, <2>2 DEF FileFollows
<1>5. CASE \E o \in Active : p \in Touches(o)
  <2>1. PICK o \in Active : p \in Touches(o)
    BY <1>5
  <2>2. o \in Offset /\ acked < o
    <3>1. ~(o <= acked)
      BY <1>0, <1>1, <2>1
    <3> QED
      BY <1>2, <3>1 DEF Active, Offset
  <2>3. Within(Has(p), task[o], o, p)
    BY <1>3, <2>1 DEF FileFollows
  <2>4. ASSUME NEW q \in Offset, NextTouch(p, acked, q), Arrives(q), p = Log[q].path
        PROVE  Superseded(q, p) \/ Mergeable(p, Has(p), Log[q].content)
    <3>1. CASE q < o
      BY <2>1, <2>2, <3>1 DEF Superseded
    <3>2. CASE q = o
      BY <2>3, <2>4, <3>2 DEF Within, Growing
    <3>3. CASE o < q
      <4>1. o \in acked + 1 .. q - 1
        BY <1>2, <2>2, <3>3 DEF Offset
      <4> QED
        BY <2>1, <2>4, <4>1 DEF NextTouch
    <3> QED
      BY <2>2, <3>1, <3>2, <3>3 DEF Offset
  <2>5. ~ \A r \in acked + 1 .. Len(Log) : p \notin Touches(r)
    BY <1>2, <2>1, <2>2 DEF Offset
  <2>6. Ready(Has(p), p, acked)
    BY <2>4, <2>5 DEF Ready
  <2> QED
    BY <1>1, <1>3, <2>6 DEF FileFollows
<1> QED
  BY <1>4, <1>5

\* Every step keeps every file as far as the messages say.
LEMMA FollowStep ==
  ASSUME ArrivalsFree, CodeTypeOK, Staged, Rooted, FilesFollow, [CodeNext]_codeVars
  PROVE  FilesFollow'
<1>1. CASE UNCHANGED <<fetched, task, stores, disturbed, astray>>
  BY <1>1 DEF FilesFollow, FileFollows, Traceable, Has, Own, OwnRelation, Alien, Active
<1>2. CASE Stop
  <2>1. Active = {} /\ Active' = {} /\ UNCHANGED <<fetched, stores, disturbed, astray>>
    BY <1>2 DEF Stop, Drained, Active
  <2> QED
    BY <2>1 DEF FilesFollow, FileFollows, Traceable, Has, Own, OwnRelation, Alien
<1>3. CASE AutoCommit \/ Signal \/ LeaveLoop \/ CodeRests \/ UNCHANGED codeVars
  BY <1>1, <1>3 DEF AutoCommit, Signal, LeaveLoop, CodeRests
<1> QED
  BY <1>2, <1>3, FollowTask, FollowFetch, FollowDies DEF CodeNext

\* The first state has nothing stored and every message to come.
LEMMA FollowInit == CodeInit => Staged /\ Rooted /\ FilesFollow
<1> SUFFICES ASSUME CodeInit PROVE Staged /\ Rooted /\ FilesFollow
  OBVIOUS
<1>1. Active = {} /\ fetched = 0
  BY DEF CodeInit, Active
<1>2. Rooted
  BY OwnApart DEF CodeInit, Rooted
<1>3. ASSUME NEW p \in Path PROVE FileFollows(p)
  <2>1. HoldsAs(p, Has(p), Absent)
    BY EmptyHolds, OwnApart DEF CodeInit, Has, Clean
  <2>2. ASSUME \A o \in 1 .. Len(Log) : p \notin Touches(o)
        PROVE  LastChange(p) = Absent
    BY <2>2 DEF LastChange, Offset
  <2>3. \A o \in Offset : Mergeable(p, Has(p), Log[o].content)
    BY <2>1, HoldsMergeable, CodeMessageType
  <2>4. Ready(Has(p), p, 0)
    BY <2>1, <2>2, <2>3 DEF Ready
  <2> QED
    BY <1>1, <2>4 DEF FileFollows
<1> QED
  BY <1>1, <1>2, <1>3 DEF Staged, FilesFollow, Traceable

\* Both stores hold what the messages say when all are handled - of what is a
\* file's own - whatever crashes and redeliveries came before, unless a failure,
\* a second task at work on the file or a result under another path intervened.
THEOREM StoresFollowLogHolds ==
  ASSUME ArrivalsFree
  PROVE  CodeSpec => []StoresFollowLog
<1> DEFINE CodeInv == CodeTypeOK /\ Staged /\ Rooted /\ FilesFollow
<1>1. CodeInit => CodeInv
  BY CodeTypeInit, FollowInit
<1>2. CodeInv /\ [CodeNext]_codeVars => CodeInv'
  BY CodeTypeStep, StagedStep, RootedStep, FollowStep
<1>3. CodeInv => StoresFollowLog
  <2> SUFFICES ASSUME CodeInv, Active = {}, fetched = Len(Log), NEW p \in Traceable
               PROVE  Stored(p, LastChange(p))
    BY DEF StoresFollowLog
  <2>1. Ready(Has(p), p, Len(Log))
    BY DEF FilesFollow, FileFollows
  <2>2. Len(Log) \in Nat
    BY CodeAssumption
  <2>3. HoldsAs(p, Has(p), LastChange(p))
    BY <2>1, <2>2 DEF Ready
  <2> QED
    BY <2>3 DEF HoldsAs, Has, Stored, Filled
<1> HIDE DEF CodeInv
<1> QED
  BY <1>1, <1>2, <1>3, PTL DEF CodeSpec
=============================================================================
