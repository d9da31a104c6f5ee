---------------------------- MODULE OpenAIExporter ----------------------------
(***************************************************************************)
(* FarfieldOpenAIAgentsExporter (sdk/typescript/src/integrations/          *)
(* openai-agents.ts), which turns what the trace processor of the OpenAI   *)
(* Agents SDK hands it into segments, and the service that stores them.    *)
(*                                                                          *)
(* One event loop runs all calls; an action is what runs between two       *)
(* awaits.  A call is one export, flush or shutdown.  The payload of an    *)
(* item stands for everything a record is made from.  An arrival is an     *)
(* item with the number of its coming: the Maps and Sets of the exporter   *)
(* are in the order in which their members came, hence sets of arrivals.   *)
(***************************************************************************)
EXTENDS Naturals, Sequences, FiniteSets, Functions

CONSTANTS
    Calls,
    Batches,            \* what one export may be handed: sequences of items
    NoName,             \* an id or group that is not given
    Stamps,             \* what the clock may read; 0 is the start time of a span
    BeforeSend,         \* whether the client has a beforeSend hook
    MaxTraceCache,
    MaxFaults           \* BOUND: requests that fail

ASSUME ExporterAssumption ==
    /\ \A items \in Batches : items \in Seq(Range(items))
    /\ Stamps \subseteq Nat \ {0}
    /\ BeforeSend \in BOOLEAN
    /\ MaxTraceCache \in Nat \ {0} /\ MaxFaults \in Nat

VARIABLES
    traces,     \* the envelopes kept
    pending,    \* the spans not taken yet
    call,       \* call[c]: the state of call c
    stats,
    segments,   \* stored by the service
    handed,     \* the items that were handed over, in order
    forgotten,  \* traces whose envelope was dropped
    faults

vars == <<traces, pending, call, stats, segments, handed, forgotten, faults>>

-----------------------------------------------------------------------------
\* Payloads and records.

IsTrace(item) == item.object = "trace" /\ item.id # NoName
IsSpan(item) == item.object = "trace.span" /\ item.trace # NoName

Arrivals(items) ==
    {[at |-> Len(handed) + k, item |-> items[k]] : k \in DOMAIN items}

TraceOf(a) == IF IsTrace(a.item) THEN a.item.id ELSE a.item.trace
TracesOf(A) == {TraceOf(a) : a \in A}

SpansOf(t, spans) == {a \in spans : TraceOf(a) = t}

\* Mutant of OtherSpans: the buffer is cleared for one trace.
NoSpans(t, spans) == {}

OtherSpans(t, spans) == {a \in spans : TraceOf(a) # t}

\* The arrivals of A in their order.
InOrder(A) ==
    [n \in 1..Cardinality(A) |->
        CHOOSE a \in A : Cardinality({b \in A : b.at <= a.at}) = n]

\* The first and the last arrival of each trace in A.
FirstOf(A) == {a \in A : \A b \in A : TraceOf(b) = TraceOf(a) => a.at <= b.at}
LastOf(A) == {a \in A : \A b \in A : TraceOf(b) = TraceOf(a) => b.at <= a.at}

\* The envelope of a trace, or a made-up one when it was never seen or is dropped.
Trace(t, envelopes) ==
    IF t \in TracesOf(envelopes)
    THEN (CHOOSE a \in envelopes : TraceOf(a) = t).item
    ELSE [object |-> "trace", id |-> t, group |-> NoName, workflow |-> NoName]

\* Mutant of Conversation: group_id is not looked at.
ConversationByTrace(trace) == trace.id

Conversation(trace) == IF trace.group = NoName THEN trace.id ELSE trace.group

TraceRecord(trace, stamp) ==
    [id |-> <<"openai_trace_", trace.id>>, content |-> trace, occurred |-> stamp,
     workflow |-> trace.workflow]

SpanRecord(span, trace, stamp) ==
    [id |-> <<"openai_span_", span.id>>, content |-> span,
     occurred |-> IF span.timed THEN 0 ELSE stamp, workflow |-> trace.workflow]

\* The segment of one trace; its id is made from the sorted ids of its records.
Segment(trace, spans, includeTrace, stamp) ==
    LET records == (IF includeTrace THEN <<TraceRecord(trace, stamp)>> ELSE <<>>)
                   \o [n \in 1..Cardinality(spans) |->
                          SpanRecord(InOrder(spans)[n].item, trace, stamp)]
    IN  [id |-> {records[i].id : i \in DOMAIN records},
         conversation |-> Conversation(trace),
         records |-> records]

\* The service: the record ids of a segment are distinct, and a segment that is
\* already there under the same id must have the same records.
Stored(segment) ==
    {s \in segments : s.id = segment.id /\ s.conversation = segment.conversation}

Accepts(segment) ==
    /\ Cardinality(segment.id) = Len(segment.records)
    /\ Stored(segment) \subseteq {segment}

-----------------------------------------------------------------------------
Idle == [kind |-> "none", phase |-> "idle", aborted |-> FALSE, todo |-> {},
         new |-> {}, taken |-> {}, sending |-> {}]

Init ==
    /\ traces = {} /\ pending = {}
    /\ call = [c \in Calls |-> Idle]
    /\ stats = [traces |-> 0, spans |-> 0, failed |-> 0]
    /\ segments = {}
    /\ handed = <<>> /\ forgotten = {}
    /\ faults = 0

\* Mutant of TakesTrace: every segment of a trace that is known has its record.
TakesTraceCached(state, envelopes, t) == t \in TracesOf(envelopes)

\* Whether the segment of trace t has a record of the trace itself.
TakesTrace(state, envelopes, t) ==
    IF state.kind = "export" THEN t \in state.new ELSE t \notin TracesOf(envelopes)

\* The trace that is next: the new ones come first.
Precedes(a, b) ==
    IF IsTrace(a.item) <=> IsTrace(b.item) THEN a.at < b.at ELSE IsTrace(a.item)

First(todo) == CHOOSE a \in todo : \A b \in todo \ {a} : Precedes(a, b)

\* One turn of the loop of export or flush, up to its await, given the state of
\* the call, the spans pending and the envelopes: the next trace is taken, and
\* its segment, if there is anything to put in it, is on its way.
Turn(c, state, spansLeft, envelopes) ==
    LET t == TraceOf(First(state.todo))
        spans == SpansOf(t, IF state.kind = "export" THEN spansLeft ELSE state.taken)
        include == TakesTrace(state, envelopes, t)
        after == [state EXCEPT !.todo = OtherSpans(t, @), !.taken = OtherSpans(t, @)]
    IN  CASE state.todo = {} ->
               /\ call' = [call EXCEPT ![c] = [state EXCEPT !.phase = "resolved"]]
               /\ pending' = spansLeft
          [] state.todo # {} /\ state.aborted ->
               /\ call' = [call EXCEPT ![c] = [state EXCEPT !.phase = "rejected"]]
               /\ pending' = spansLeft
          [] OTHER ->
               /\ \E stamp \in Stamps :
                     call' = [call EXCEPT ![c] =
                        IF include \/ spans # {}
                        THEN [after EXCEPT !.phase = "sending", !.sending =
                                {Segment(Trace(t, envelopes), spans, include, stamp)}]
                        ELSE [after EXCEPT !.phase = "looping"]]
               /\ pending' = IF state.kind = "export" THEN OtherSpans(t, spansLeft)
                             ELSE spansLeft

\* A shutdown forgets the traces, however its flush ends.
Forget(c) ==
    IF call[c].kind = "shutdown" /\ call'[c].phase \in {"resolved", "rejected"}
    THEN traces' = {} /\ forgotten' = forgotten \union TracesOf(traces)
    ELSE UNCHANGED <<traces, forgotten>>

\* New envelopes join the cache, each as the youngest of its trace, and the oldest
\* leave it.
Keep(envelopes, new) ==
    LET latest == LastOf(envelopes \union new)
    IN  {a \in latest : Cardinality({b \in latest : b.at > a.at}) < MaxTraceCache}

\* Mutant of Ready: spans wait for their trace.
ReadyNew(new, spans) == FirstOf(new)

\* The traces an export sends: the new ones, and those with spans.
Ready(new, spans) ==
    FirstOf(new) \union {a \in FirstOf(spans) : TraceOf(a) \notin TracesOf(new)}

Export(c, items) ==
    LET new == {a \in Arrivals(items) : IsTrace(a.item)}
        spansLeft == pending \union {a \in Arrivals(items) : IsSpan(a.item)}
        envelopes == Keep(traces, new)
    IN  /\ call[c].phase = "idle"
        /\ Turn(c, [Idle EXCEPT !.kind = "export", !.todo = Ready(new, spansLeft),
                        !.new = TracesOf(new)],
                spansLeft, envelopes)
        /\ traces' = envelopes
        /\ forgotten' = forgotten \union (TracesOf(traces \union new) \ TracesOf(envelopes))
        /\ handed' = handed \o items
        /\ UNCHANGED <<stats, segments, faults>>

\* A flush, or the flush of a shutdown, takes all spans at once.
Flush(c, kind) ==
    /\ call[c].phase = "idle"
    /\ Turn(c, [Idle EXCEPT !.kind = kind, !.taken = pending, !.todo = FirstOf(pending)],
            {}, traces)
    /\ Forget(c)
    /\ UNCHANGED <<stats, segments, handed, faults>>

\* The loop goes on when a commit is done.
Loop(c) ==
    /\ call[c].phase = "looping"
    /\ Turn(c, call[c], pending, traces)
    /\ Forget(c)
    /\ UNCHANGED <<stats, segments, handed, faults>>

\* The caller's signal is aborted.
Abort(c) ==
    /\ call[c].phase \in {"looping", "sending"}
    /\ call' = [call EXCEPT ![c].aborted = TRUE]
    /\ UNCHANGED <<traces, pending, stats, segments, handed, forgotten, faults>>

IsTraceRecord(r) == r.id[1] = "openai_trace_"

\* The segment is stored, or was before.
Commit(c) ==
    /\ call[c].phase = "sending"
    /\ \E s \in call[c].sending :
          /\ Accepts(s)
          /\ segments' = segments \union {s}
          /\ LET of == {k \in DOMAIN s.records : IsTraceRecord(s.records[k])}
             IN  stats' = [stats EXCEPT
                    !.traces = @ + Cardinality(of),
                    !.spans = @ + Cardinality(DOMAIN s.records \ of)]
    /\ call' = [call EXCEPT ![c].phase = "looping", ![c].sending = {}]
    /\ UNCHANGED <<traces, pending, handed, forgotten, faults>>

\* commitBatch throws, and with it the call.
Throw(c) ==
    /\ call[c].phase = "sending"
    /\ call' = [call EXCEPT ![c].phase = "rejected"]
    /\ stats' = [stats EXCEPT !.failed = @ + 1]
    /\ Forget(c)
    /\ UNCHANGED <<pending, handed>>

\* beforeSend drops an event of the segment, or the service refuses it.
Refuse(c) ==
    /\ BeforeSend \/ \E s \in call[c].sending : ~Accepts(s)
    /\ Throw(c)
    /\ UNCHANGED <<segments, faults>>

\* The request fails or is aborted; the segment may have been stored.
Fail(c) ==
    /\ call[c].aborted \/ faults < MaxFaults
    /\ faults' = IF call[c].aborted THEN faults ELSE faults + 1
    /\ segments' \in {segments, segments \union {s \in call[c].sending : Accepts(s)}}
    /\ Throw(c)

Next ==
    \E c \in Calls :
        \/ \E items \in Batches : Export(c, items)
        \/ \E kind \in {"flush", "shutdown"} : Flush(c, kind)
        \/ Loop(c) \/ Abort(c) \/ Commit(c) \/ Refuse(c) \/ Fail(c)

Spec == Init /\ [][Next]_vars

-----------------------------------------------------------------------------
RecordsOf(S) == UNION {Range(s.records) : s \in S}

\* Everything handed over.
Handed == {[at |-> i, item |-> handed[i]] : i \in DOMAIN handed}

Live(c) == call[c].phase \in {"looping", "sending"}

\* Every variable has its type.
TypeOK ==
    /\ traces \subseteq {a \in Handed : IsTrace(a.item)}
    /\ \A a, b \in traces : TraceOf(a) = TraceOf(b) => a = b
    /\ Cardinality(traces) <= MaxTraceCache
    /\ pending \subseteq {a \in Handed : IsSpan(a.item)}
    /\ \A c \in Calls :
          /\ call[c].kind \in {"none", "export", "flush", "shutdown"}
          /\ call[c].phase \in {"idle", "looping", "sending", "resolved", "rejected"}
          /\ call[c].todo \subseteq Handed
          /\ call[c].taken \subseteq {a \in Handed : IsSpan(a.item)}
          /\ call[c].phase = "sending" => Cardinality(call[c].sending) = 1
          /\ call[c].phase \in {"idle", "looping", "resolved"} => call[c].sending = {}
    /\ stats \in [{"traces", "spans", "failed"} -> Nat]

\* The history has a record with this payload.
InHistory(item) == \E r \in RecordsOf(segments) : r.content = item

\* A call has the span in hand, or had it when it was rejected.
InHand(c, a) ==
    a \in call[c].taken \/ \E r \in RecordsOf(call[c].sending) : r.content = a.item

\* A span that was handed over is in the history, in the buffer, or in the hands
\* of a call that is under way or was rejected.  Spans leave the buffer before they
\* are stored, and calls take each other's spans: a call may resolve while its
\* span is lost, but then another one is rejected.
NothingLostQuietly ==
    \A a \in Handed :
        IsSpan(a.item) =>
            \/ a \in pending
            \/ InHistory(a.item)
            \/ \E c \in Calls : call[c].phase # "resolved" /\ InHand(c, a)

\* "commit the spans under their trace ID immediately instead of retaining an
\* unbounded orphan buffer": a span stays in the buffer only while an export has
\* its trace to do, or when that export was rejected before it came to it.
NothingStaysBuffered ==
    \A a \in pending : \E c \in Calls :
        /\ call[c].kind = "export"
        /\ Live(c) \/ call[c].phase = "rejected"
        /\ TraceOf(a) \in TracesOf(call[c].todo)

\* Envelope i is the only word on the group of its trace.
NamesTheGroup(i) ==
    /\ IsTrace(handed[i]) /\ handed[i].group # NoName
    /\ \A j \in DOMAIN handed :
          IsTrace(handed[j]) /\ handed[j].id = handed[i].id =>
              handed[j].group = handed[i].group

\* "The OpenAI group_id becomes the Farfield conversation ID": a span that was
\* handed over after the envelope of its trace is in the conversation the envelope
\* names, unless the envelope was dropped meanwhile, whichever call sent the span.
SpansFollowTheirTrace ==
    \A s \in segments : \A r \in Range(s.records) : \A i \in DOMAIN handed :
        /\ NamesTheGroup(i) /\ handed[i].id \notin forgotten
        /\ ~IsTraceRecord(r) /\ r.content.trace = handed[i].id
        /\ \A j \in 1..i : handed[j] # r.content
        => s.conversation = handed[i].group

\* Every trace and every span was handed over once, each trace before its spans.
Orderly ==
    \A i, j \in DOMAIN handed :
        /\ handed[i].object = handed[j].object /\ handed[i].id = handed[j].id => i = j
        /\ IsSpan(handed[i]) =>
              \E k \in 1..(i - 1) : IsTrace(handed[k]) /\ handed[k].id = handed[i].trace

\* As long as the SDK hands everything over in order and once, and no trace is
\* forgotten, no record is in two segments (after which every full read fails):
\* not even when a reply is lost, a call is aborted or calls overlap.
StoredOnce ==
    Orderly /\ forgotten = {} =>
        \A s, u \in segments : s # u => s.id \intersect u.id = {}

\* "Stable trace/span IDs make repeated ... OpenAI exporter batches idempotent":
\* a segment that is sent again is accepted.
\* (The code does not keep this promise; README, section 6.)
RepeatIsAccepted ==
    \A c \in Calls : \A s \in call[c].sending :
        (\E u \in segments : u.id = s.id /\ u.conversation = s.conversation) => Accepts(s)
=============================================================================
