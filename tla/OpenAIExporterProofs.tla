------------------------ MODULE OpenAIExporterProofs ------------------------
(***************************************************************************)
(* Theorems about OpenAIExporter, for any calls, any batches, any size of  *)
(* the cache of envelopes and any number of requests that fail.            *)
(***************************************************************************)
EXTENDS OpenAIExporter, FiniteSetTheorems, SequenceTheorems, TLAPS

-----------------------------------------------------------------------------
\* Arrivals: finitely many, and no two at once.

IsArrivals(A) ==
    /\ IsFiniteSet(A)
    /\ \A a \in A : a.at \in Nat
    /\ \A a, b \in A : a.at = b.at => a = b

LEMMA FewerArrivals ==
    ASSUME NEW A, IsArrivals(A), NEW B \in SUBSET A
    PROVE  IsArrivals(B)
BY FS_Subset DEF IsArrivals

\* InOrder lists every member of A.
LEMMA InOrderLists ==
    ASSUME NEW A, IsArrivals(A)
    PROVE  /\ Cardinality(A) \in Nat
           /\ \A n \in 1..Cardinality(A) :
                 /\ InOrder(A)[n] \in A
                 /\ Cardinality({b \in A : b.at <= InOrder(A)[n].at}) = n
           /\ \A a \in A : \E n \in 1..Cardinality(A) : InOrder(A)[n] = a
<1> DEFINE upTo(a) == {b \in A : b.at <= a.at}
           rank == [a \in A |-> Cardinality(upTo(a))]
<1>0. IsFiniteSet(A) /\ Cardinality(A) \in Nat
  BY FS_CardinalityType DEF IsArrivals
<1>1. ASSUME NEW a \in A
      PROVE  rank[a] \in 1..Cardinality(A) /\ IsFiniteSet(upTo(a)) /\ rank[a] \in Nat
  <2>1. IsFiniteSet(upTo(a)) /\ Cardinality(upTo(a)) <= Cardinality(A)
    BY <1>0, FS_Subset
  <2>2. Cardinality(upTo(a)) \in Nat
    BY <2>1, FS_CardinalityType
  <2>3. a \in upTo(a)
    BY DEF IsArrivals
  <2>4. Cardinality(upTo(a)) # 0
    BY <2>1, <2>3, FS_EmptySet
  <2> QED
    BY <2>1, <2>2, <2>4, <1>0
<1>2. ASSUME NEW a \in A, NEW b \in A, rank[a] = rank[b]
      PROVE  a = b
  <2>1. a.at \in Nat /\ b.at \in Nat
    BY DEF IsArrivals
  <2>2. CASE a.at <= b.at
    <3>1. upTo(a) \in SUBSET upTo(b)
      BY <2>1, <2>2 DEF IsArrivals
    <3>2. upTo(a) = upTo(b)
      BY <3>1, <1>1, <1>2, FS_Subset
    <3>3. b \in upTo(b)
      BY <2>1
    <3> QED
      BY <2>1, <2>2, <3>2, <3>3 DEF IsArrivals
  <2>3. CASE b.at <= a.at
    <3>1. upTo(b) \in SUBSET upTo(a)
      BY <2>1, <2>3 DEF IsArrivals
    <3>2. upTo(a) = upTo(b)
      BY <3>1, <1>1, <1>2, FS_Subset
    <3>3. a \in upTo(a)
      BY <2>1
    <3> QED
      BY <2>1, <2>3, <3>2, <3>3 DEF IsArrivals
  <2> QED
    BY <2>1, <2>2, <2>3
<1>3. rank \in Injection(A, 1..Cardinality(A))
  BY <1>1, <1>2 DEF Injection, IsInjective
<1>4. IsFiniteSet(1..Cardinality(A)) /\ Cardinality(1..Cardinality(A)) = Cardinality(A)
  BY <1>0, FS_Interval
<1>5. rank \in Surjection(A, 1..Cardinality(A))
  BY <1>3, <1>4, FS_Injection
<1>6. ASSUME NEW n \in 1..Cardinality(A)
      PROVE  InOrder(A)[n] \in A /\ rank[InOrder(A)[n]] = n
  <2>1. \E a \in A : Cardinality(upTo(a)) = n
    BY <1>5 DEF Surjection
  <2>2. InOrder(A)[n] = CHOOSE a \in A : Cardinality(upTo(a)) = n
    BY DEF InOrder
  <2> QED
    BY <2>1, <2>2
<1>7. ASSUME NEW a \in A
      PROVE  \E n \in 1..Cardinality(A) : InOrder(A)[n] = a
  BY <1>1, <1>2, <1>6
<1> QED
  BY <1>0, <1>6, <1>7

LEMMA Earliest ==
    ASSUME NEW A, IsArrivals(A), A # {}
    PROVE  \E a \in A : \A b \in A : a.at <= b.at
<1>1. Cardinality(A) \in Nat /\ Cardinality(A) # 0
  BY FS_CardinalityType, FS_EmptySet DEF IsArrivals
<1>. DEFINE first == InOrder(A)[1]
<1>2. first \in A /\ Cardinality({b \in A : b.at <= first.at}) = 1
  <2>1. 1 \in 1..Cardinality(A)
    BY <1>1
  <2> QED
    BY <2>1, InOrderLists
<1>3. IsFiniteSet({b \in A : b.at <= first.at})
  BY FS_Subset DEF IsArrivals
<1>4. PICK b : {d \in A : d.at <= first.at} = {b}
  BY <1>2, <1>3, FS_Singleton
<1>5. \A d \in A : d.at <= first.at => d = first
  BY <1>2, <1>4 DEF IsArrivals
<1>. HIDE DEF first
<1> QED
  BY <1>2, <1>5 DEF IsArrivals

\* Some trace is next, as long as one is left (the loops of export and flush).
LEMMA FirstIsOne ==
    ASSUME NEW A, IsArrivals(A), A # {}
    PROVE  First(A) \in A
<1> DEFINE new == {a \in A : IsTrace(a.item)}
<1>1. \E a \in A : \A b \in A \ {a} : Precedes(a, b)
  <2>1. CASE new # {}
    <3>1. PICK a \in new : \A b \in new : a.at <= b.at
      BY <2>1, FewerArrivals, Earliest
    <3>2. \A b \in A \ {a} : Precedes(a, b)
      BY <3>1 DEF Precedes, IsArrivals
    <3> QED
      BY <3>1, <3>2
  <2>2. CASE new = {}
    <3>1. PICK a \in A : \A b \in A : a.at <= b.at
      BY Earliest
    <3>2. \A b \in A \ {a} : Precedes(a, b)
      BY <3>1, <2>2 DEF Precedes, IsArrivals
    <3> QED
      BY <3>1, <3>2
  <2> QED
    BY <2>1, <2>2
<1> QED
  BY <1>1 DEF First

\* Ready and flush pass over no trace.
LEMMA FirstOfCovers ==
    ASSUME NEW A, IsArrivals(A)
    PROVE  FirstOf(A) \subseteq A /\ TracesOf(FirstOf(A)) = TracesOf(A)
<1>1. FirstOf(A) \subseteq A
  BY DEF FirstOf
<1>2. ASSUME NEW a \in A
      PROVE  TraceOf(a) \in TracesOf(FirstOf(A))
  <2> DEFINE same == {b \in A : TraceOf(b) = TraceOf(a)}
  <2>1. PICK b \in same : \A d \in same : b.at <= d.at
    BY FewerArrivals, Earliest
  <2>2. b \in FirstOf(A)
    BY <2>1 DEF FirstOf
  <2> QED
    BY <2>1, <2>2 DEF TracesOf
<1> QED
  BY <1>1, <1>2 DEF TracesOf


-----------------------------------------------------------------------------
\* Everything handed over is arrivals.

HandedOf(log) == {[at |-> i, item |-> log[i]] : i \in DOMAIN log}
HandedTraces(log) == {a \in HandedOf(log) : IsTrace(a.item)}
HandedSpans(log) == {a \in HandedOf(log) : IsSpan(a.item)}

LEMMA HandedIsArrivals ==
    ASSUME NEW log, log \in Seq(Range(log))
    PROVE  IsArrivals(HandedOf(log))
<1> DEFINE f == [i \in 1..Len(log) |-> [at |-> i, item |-> log[i]]]
<1>1. Len(log) \in Nat /\ DOMAIN log = 1..Len(log)
  OBVIOUS
<1>2. f \in Surjection(1..Len(log), HandedOf(log))
  BY <1>1 DEF Surjection, HandedOf
<1>3. IsFiniteSet(1..Len(log))
  BY <1>1, FS_Interval
<1>4. IsFiniteSet(HandedOf(log))
  BY <1>2, <1>3, FS_Surjection
<1> QED
  BY <1>1, <1>4 DEF IsArrivals, HandedOf

LEMMA HandedGrows ==
    ASSUME NEW log, log \in Seq(Range(log)), NEW items, items \in Seq(Range(items))
    PROVE  /\ log \o items \in Seq(Range(log \o items))
           /\ HandedOf(log \o items) = HandedOf(log)
                 \union {[at |-> Len(log) + k, item |-> items[k]] : k \in DOMAIN items}
           /\ \A i \in DOMAIN log : i \in DOMAIN (log \o items) /\ (log \o items)[i] = log[i]
<1> DEFINE both == log \o items
           X == Range(log) \union Range(items)
<1>1. log \in Seq(X) /\ items \in Seq(X)
  BY SeqMonotonic
<1>2. /\ both \in Seq(X) /\ Len(both) = Len(log) + Len(items)
      /\ Len(log) \in Nat /\ Len(items) \in Nat
      /\ DOMAIN log = 1..Len(log) /\ DOMAIN items = 1..Len(items)
      /\ DOMAIN both = 1..Len(log) + Len(items)
      /\ \A i \in 1..Len(log) : both[i] = log[i]
      /\ \A k \in 1..Len(items) : both[Len(log) + k] = items[k]
  BY <1>1
<1> HIDE DEF both
<1>3. both \in Seq(Range(both))
  BY <1>2, SeqOfRange
<1>4. \A i \in 1..Len(log) : i \in 1..Len(log) + Len(items)
  BY <1>2
<1>5. HandedOf(both) \subseteq HandedOf(log)
          \union {[at |-> Len(log) + k, item |-> items[k]] : k \in DOMAIN items}
  <2> SUFFICES ASSUME NEW i \in 1..Len(log) + Len(items), i \notin 1..Len(log)
               PROVE  [at |-> i, item |-> both[i]]
                         \in {[at |-> Len(log) + k, item |-> items[k]] : k \in DOMAIN items}
    BY <1>2 DEF HandedOf
  <2>1. i - Len(log) \in DOMAIN items /\ i = Len(log) + (i - Len(log))
    BY <1>2
  <2> QED
    BY <2>1, <1>2
<1>6. HandedOf(log) \subseteq HandedOf(both)
  BY <1>2, <1>4 DEF HandedOf
<1>7. ASSUME NEW k \in DOMAIN items
      PROVE  [at |-> Len(log) + k, item |-> items[k]] \in HandedOf(both)
  <2>1. Len(log) + k \in DOMAIN both
    BY <1>2
  <2> QED
    BY <2>1, <1>2 DEF HandedOf
<1>8. HandedOf(both) = HandedOf(log)
          \union {[at |-> Len(log) + k, item |-> items[k]] : k \in DOMAIN items}
  BY <1>5, <1>6, <1>7
<1>9. \A i \in DOMAIN log : i \in DOMAIN both /\ both[i] = log[i]
  BY <1>2, <1>4
<1> QED
  BY <1>3, <1>8, <1>9 DEF both

-----------------------------------------------------------------------------
IdsOf(s) == {r.id : r \in Range(s.records)}

\* The records of a segment (#commitBatch): the trace's if it is included, and one of
\* each span.
LEMMA SegmentHolds ==
    ASSUME NEW spans, IsArrivals(spans), NEW trace, NEW include \in BOOLEAN, NEW stamp,
           NEW s, s = Segment(trace, spans, include, stamp)
    PROVE  /\ \A r : r \in Range(s.records) <=>
                        \/ include /\ r = TraceRecord(trace, stamp)
                        \/ \E a \in spans : r = SpanRecord(a.item, trace, stamp)
           /\ s.id = IdsOf(s)
           /\ s.conversation = Conversation(trace)
<1> DEFINE left == IF include THEN <<TraceRecord(trace, stamp)>> ELSE <<>>
           right == [n \in 1..Cardinality(spans) |->
                        SpanRecord(InOrder(spans)[n].item, trace, stamp)]
           X == {TraceRecord(trace, stamp)}
                    \union {SpanRecord(a.item, trace, stamp) : a \in spans}
           both == left \o right
<1>1. s.records = both /\ s.id = {both[i].id : i \in DOMAIN both}
      /\ s.conversation = Conversation(trace)
  BY DEF Segment
<1>2. right \in Seq(X) /\ Cardinality(spans) \in Nat /\ DOMAIN right = 1..Cardinality(spans)
  <2>1. Cardinality(spans) \in Nat /\ \A n \in 1..Cardinality(spans) : InOrder(spans)[n] \in spans
    BY InOrderLists
  <2>2. \A n \in 1..Cardinality(spans) : SpanRecord(InOrder(spans)[n].item, trace, stamp) \in X
    BY <2>1
  <2> QED
    BY <2>1, <2>2
<1>3. left \in Seq(X)
  <2>1. TraceRecord(trace, stamp) \in X
    OBVIOUS
  <2> HIDE DEF X
  <2> QED
    BY <2>1
<1>4. \A r : (\E i \in DOMAIN right : r = right[i]) <=>
                \E a \in spans : r = SpanRecord(a.item, trace, stamp)
  <2>1. \A n \in 1..Cardinality(spans) : InOrder(spans)[n] \in spans
    BY InOrderLists
  <2>2. \A a \in spans : \E n \in 1..Cardinality(spans) : InOrder(spans)[n] = a
    BY InOrderLists
  <2> QED
    BY <2>1, <2>2
<1>5. \A r : (\E i \in DOMAIN left : r = left[i]) <=>
                include /\ r = TraceRecord(trace, stamp)
  OBVIOUS
<1> HIDE DEF left, right
<1>6. \A r : (\E i \in DOMAIN both : r = both[i]) <=>
                \/ \E i \in DOMAIN left : r = left[i]
                \/ \E i \in DOMAIN right : r = right[i]
  <2> HIDE DEF X
  <2>1. /\ Len(left) \in Nat /\ Len(right) \in Nat
        /\ DOMAIN left = 1..Len(left) /\ DOMAIN right = 1..Len(right)
        /\ DOMAIN both = 1..Len(left) + Len(right)
        /\ \A i \in 1..Len(left) : both[i] = left[i]
        /\ \A k \in 1..Len(right) : both[Len(left) + k] = right[k]
    <3>1. /\ left \in [1..Len(left) -> X] /\ Len(left) \in Nat
          /\ right \in [1..Len(right) -> X] /\ Len(right) \in Nat
      BY <1>2, <1>3, LenProperties
    <3>2. /\ both \in Seq(X) /\ Len(both) = Len(left) + Len(right)
          /\ \A i \in 1..Len(left) + Len(right) :
                both[i] = IF i <= Len(left) THEN left[i] ELSE right[i - Len(left)]
      BY <1>2, <1>3, ConcatProperties
    <3>3. both \in [1..Len(both) -> X]
      BY <3>2, LenProperties
    <3> HIDE DEF both
    <3>4. \A k \in 1..Len(right) :
             /\ Len(left) + k \in 1..Len(left) + Len(right) /\ ~(Len(left) + k <= Len(left))
             /\ (Len(left) + k) - Len(left) = k
      BY <3>1
    <3>5. \A i \in 1..Len(left) : i \in 1..Len(left) + Len(right) /\ i <= Len(left)
      BY <3>1
    <3> QED
      BY <3>1, <3>2, <3>3, <3>4, <3>5
  <2> HIDE DEF both
  <2>2. ASSUME NEW i \in DOMAIN both, i \notin DOMAIN left
        PROVE  \E k \in DOMAIN right : i = Len(left) + k
    <3>1. \A m, n \in Nat : \A j \in 1..m + n :
             j \notin 1..m => j - m \in 1..n /\ j = m + (j - m)
      OBVIOUS
    <3>2. i - Len(left) \in 1..Len(right) /\ i = Len(left) + (i - Len(left))
      BY <2>1, <2>2, <3>1, Zenon
    <3> QED
      BY <2>1, <3>2, Zenon
  <2>3. \A k \in DOMAIN right : Len(left) + k \in DOMAIN both
    BY <2>1
  <2>4. \A k \in DOMAIN left : k \in DOMAIN both
    BY <2>1
  <2> QED
    BY <2>1, <2>2, <2>3, <2>4
<1> HIDE DEF both
<1>7. \A r : r \in Range(s.records) <=> \E i \in DOMAIN both : r = both[i]
  BY <1>1 DEF Range
<1>8. s.id = IdsOf(s)
  BY <1>1 DEF Range, IdsOf
<1>9. \A r : r \in Range(s.records) <=>
                \/ include /\ r = TraceRecord(trace, stamp)
                \/ \E a \in spans : r = SpanRecord(a.item, trace, stamp)
  <2> TAKE r
  <2>1. r \in Range(s.records) <=>
            (\E i \in DOMAIN left : r = left[i]) \/ (\E i \in DOMAIN right : r = right[i])
    BY <1>6, <1>7, Zenon
  <2>2. (\E i \in DOMAIN left : r = left[i]) <=> (include /\ r = TraceRecord(trace, stamp))
    BY <1>5, Zenon
  <2>3. (\E i \in DOMAIN right : r = right[i]) <=>
            \E a \in spans : r = SpanRecord(a.item, trace, stamp)
    BY <1>4, Zenon
  <2> QED
    BY <2>1, <2>2, <2>3, Zenon
<1> QED
  BY <1>1, <1>8, <1>9

-----------------------------------------------------------------------------
\* The invariant, as a predicate on a log of what was handed over, the envelopes kept,
\* the spans buffered, the states of the calls, the traces forgotten and the segments
\* stored: an export or a flush passes, before its first turn, through values of these
\* that are no state of the exporter.

SpanId(a) == <<"openai_span_", a.item.id>>
TraceId(t) == <<"openai_trace_", t>>

\* Every segment that is stored or on its way.
SentOf(calls, stored) == stored \union UNION {calls[c].sending : c \in Calls}

Collections(log, kept, buffer) ==
    /\ log \in Seq(Range(log))
    /\ kept \subseteq HandedTraces(log)
    /\ buffer \subseteq HandedSpans(log)

\* A call has still to do the traces of the spans it has taken.
IsCall(log, s) ==
    /\ DOMAIN s = {"kind", "phase", "aborted", "todo", "new", "taken", "sending"}
    /\ s.kind \in {"none", "export", "flush", "shutdown"}
    /\ s.phase \in {"idle", "looping", "sending", "resolved", "rejected"}
    /\ s.aborted \in BOOLEAN
    /\ s.todo \subseteq HandedOf(log)
    /\ s.taken \subseteq HandedSpans(log)
    /\ TracesOf(s.taken) \subseteq TracesOf(s.todo)
    /\ s.kind = "export" => s.taken = {}
    /\ s.kind # "export" => s.todo \subseteq HandedSpans(log)
    /\ s.new \subseteq TracesOf(HandedTraces(log))
    /\ s.phase = "idle" => s.todo = {} /\ s.new = {}
    /\ s.phase \in {"idle", "looping", "resolved"} => s.sending = {}
    /\ s.phase = "sending" => \E g : s.sending = {g}
    /\ s.phase = "resolved" => s.todo = {}

CallStates(log, calls) ==
    /\ calls = [c \in Calls |-> calls[c]]
    /\ \A c \in Calls : IsCall(log, calls[c])

\* Segments are made of what was handed over.
MadeFrom(log, s) ==
    /\ s.id = IdsOf(s)
    /\ \A r \in Range(s.records) :
          \/ \E t : r.id = TraceId(t)
          \/ \E a \in HandedOf(log) :
                IsSpan(a.item) /\ r.content = a.item /\ r.id = SpanId(a)

NothingLost(log, buffer, calls, stored) ==
    \A a \in HandedOf(log) :
        IsSpan(a.item) =>
            \/ a \in buffer
            \/ \E s \in stored : \E r \in Range(s.records) : r.content = a.item
            \/ \E c \in Calls :
                  /\ calls[c].phase # "resolved"
                  /\ \/ a \in calls[c].taken
                     \/ \E s \in calls[c].sending :
                           \E r \in Range(s.records) : r.content = a.item

NothingStays(buffer, calls) ==
    \A a \in buffer : \E c \in Calls :
        /\ calls[c].kind = "export"
        /\ calls[c].phase \in {"looping", "sending", "rejected"}
        /\ TraceOf(a) \in TracesOf(calls[c].todo)

\* A trace whose envelope is not kept was forgotten.
Remembered(log, kept, gone) ==
    \A a \in HandedOf(log) :
        IsTrace(a.item) => TraceOf(a) \in TracesOf(kept) \union gone

NamesGroup(log, i) ==
    /\ IsTrace(log[i]) /\ log[i].group # NoName
    /\ \A j \in DOMAIN log :
          IsTrace(log[j]) /\ log[j].id = log[i].id => log[j].group = log[i].group

Follows(log, gone, s) ==
    \A r \in Range(s.records) : \A i \in DOMAIN log :
        /\ NamesGroup(log, i) /\ log[i].id \notin gone
        /\ ~IsTraceRecord(r) /\ r.content.trace = log[i].id
        /\ \A j \in 1..i : log[j] # r.content
        => s.conversation = log[i].group

InOrderOnce(log) ==
    \A i, j \in DOMAIN log :
        /\ log[i].object = log[j].object /\ log[i].id = log[j].id => i = j
        /\ IsSpan(log[i]) =>
              \E k \in 1..(i - 1) : IsTrace(log[k]) /\ log[k].id = log[i].trace

\* Nobody has a span that somebody else has, or that was sent; a trace is sent by the
\* export that brought it, when it has it no more to do.
Apart(buffer, calls, sent) ==
    /\ \A a \in buffer : \A s \in sent : SpanId(a) \notin s.id
    /\ \A c \in Calls : \A a \in calls[c].taken :
          /\ a \notin buffer
          /\ \A s \in sent : SpanId(a) \notin s.id
          /\ \A d \in Calls \ {c} : a \notin calls[d].taken
    /\ \A c \in Calls : \A t \in calls[c].new :
          /\ \A d \in Calls \ {c} : t \notin calls[d].new
          /\ t \in TracesOf(calls[c].todo) => \A s \in sent : TraceId(t) \notin s.id

\* The records of traces are those of traces that were handed over.
TracesHanded(log, sent) ==
    \A s \in sent : \A t : TraceId(t) \in s.id =>
        \E a \in HandedOf(log) : IsTrace(a.item) /\ TraceOf(a) = t

Disjoint(sent) == \A s, u \in sent : s # u => s.id \intersect u.id = {}

Once(log, buffer, calls, gone, sent) ==
    InOrderOnce(log) /\ gone = {} =>
        Apart(buffer, calls, sent) /\ TracesHanded(log, sent) /\ Disjoint(sent)

Inv(log, kept, buffer, calls, gone, stored) ==
    /\ Collections(log, kept, buffer)
    /\ CallStates(log, calls)
    /\ \A s \in SentOf(calls, stored) : MadeFrom(log, s) /\ Follows(log, gone, s)
    /\ NothingLost(log, buffer, calls, stored)
    /\ NothingStays(buffer, calls)
    /\ Remembered(log, kept, gone)
    /\ Once(log, buffer, calls, gone, SentOf(calls, stored))

IInv == Inv(handed, traces, pending, call, forgotten, segments)

-----------------------------------------------------------------------------
\* What the parts of the invariant depend on.

LEMMA NoTraces == \A A : TracesOf(A) = {} <=> A = {}
BY DEF TracesOf

\* The fields of the state of a call.
IsState(s, kind, phase, aborted, todo, new, taken, sending) ==
    /\ DOMAIN s = {"kind", "phase", "aborted", "todo", "new", "taken", "sending"}
    /\ s.kind = kind /\ s.phase = phase /\ s.aborted = aborted /\ s.todo = todo
    /\ s.new = new /\ s.taken = taken /\ s.sending = sending

\* A call that is under way ends a request, is aborted, or ends: it holds no more than
\* before, and what it no longer holds is stored.
SettlesTo(calls, stored, c, phase, aborted, sending, s2, stored2) ==
    /\ calls[c].phase \in {"looping", "sending"}
    /\ phase \in {"looping", "sending", "resolved", "rejected"} /\ aborted \in BOOLEAN
    /\ stored \subseteq stored2 /\ stored2 \subseteq SentOf(calls, stored)
    /\ \/ sending = calls[c].sending
       \/ sending = {} /\ calls[c].sending \subseteq stored2
    /\ phase \in {"looping", "resolved"} => sending = {}
    /\ phase = "sending" => \E g : sending = {g}
    /\ phase = "resolved" => calls[c].todo = {}
    /\ IsState(s2, calls[c].kind, phase, aborted, calls[c].todo, calls[c].new,
               calls[c].taken, sending)

LEMMA Settles ==
    ASSUME NEW log, NEW kept, NEW buffer, NEW calls, NEW gone, NEW stored,
           Inv(log, kept, buffer, calls, gone, stored),
           NEW c \in Calls, NEW phase, NEW aborted, NEW sending, NEW s2, NEW stored2,
           SettlesTo(calls, stored, c, phase, aborted, sending, s2, stored2),
           NEW calls2, calls2 = [calls EXCEPT ![c] = s2]
    PROVE  Inv(log, kept, buffer, calls2, gone, stored2)
<1> USE DEF SettlesTo
<1> DEFINE s == calls[c]
<1>0. CallStates(log, calls)
  BY DEF Inv
<1>1. /\ calls2 = [d \in Calls |-> calls2[d]]
      /\ calls2[c] = s2
      /\ \A d \in Calls \ {c} : calls2[d] = calls[d]
  BY <1>0 DEF CallStates
<1>2. IsCall(log, s)
  BY <1>0 DEF CallStates
<1>3. /\ s2.kind = s.kind /\ s2.todo = s.todo /\ s2.new = s.new /\ s2.taken = s.taken
      /\ s2.phase = phase /\ s2.aborted = aborted /\ s2.sending = sending
      /\ DOMAIN s2 = DOMAIN s
  BY <1>2 DEF IsCall, IsState
<1>4. \A d \in Calls : /\ calls2[d].kind = calls[d].kind /\ calls2[d].todo = calls[d].todo
                       /\ calls2[d].new = calls[d].new /\ calls2[d].taken = calls[d].taken
                       /\ calls2[d].sending \subseteq calls[d].sending
  BY <1>1, <1>3
<1>5. SentOf(calls2, stored2) \subseteq SentOf(calls, stored)
  BY <1>4 DEF SentOf
<1>6. CallStates(log, calls2)
  <2>1. IsCall(log, s2)
    BY <1>2, <1>3 DEF IsCall
  <2> QED
    BY <2>1, <1>0, <1>1 DEF CallStates
<1>7. \A u \in SentOf(calls2, stored2) : MadeFrom(log, u) /\ Follows(log, gone, u)
  BY <1>5 DEF Inv
<1>8. NothingLost(log, buffer, calls2, stored2)
  <2> SUFFICES ASSUME NEW a \in HandedOf(log), IsSpan(a.item), a \notin buffer,
                      ~\E u \in stored2 : \E r \in Range(u.records) : r.content = a.item
               PROVE  \E d \in Calls :
                         /\ calls2[d].phase # "resolved"
                         /\ \/ a \in calls2[d].taken
                            \/ \E u \in calls2[d].sending :
                                  \E r \in Range(u.records) : r.content = a.item
    BY DEF NothingLost
  <2>1. PICK d \in Calls :
            /\ calls[d].phase # "resolved"
            /\ \/ a \in calls[d].taken
               \/ \E u \in calls[d].sending : \E r \in Range(u.records) : r.content = a.item
    BY DEF Inv, NothingLost
  <2>2. CASE d # c
    BY <2>1, <2>2, <1>1
  <2>3. CASE d = c
    <3>1. a \notin s.taken \/ s.todo # {}
      <4>1. TracesOf(s.taken) \subseteq TracesOf(s.todo)
        BY <1>2 DEF IsCall
      <4> QED
        BY <4>1 DEF TracesOf
    <3>2. a \in s.taken => phase # "resolved" /\ a \in s2.taken
      BY <3>1, <1>3
    <3>3. a \notin s.taken => sending = s.sending /\ sending # {}
      BY <2>1, <2>3
    <3> QED
      BY <2>1, <2>3, <3>2, <3>3, <1>1, <1>3
  <2> QED
    BY <2>2, <2>3
<1>9. NothingStays(buffer, calls2)
  <2> SUFFICES ASSUME NEW a \in buffer
               PROVE  \E d \in Calls :
                         /\ calls2[d].kind = "export"
                         /\ calls2[d].phase \in {"looping", "sending", "rejected"}
                         /\ TraceOf(a) \in TracesOf(calls2[d].todo)
    BY DEF NothingStays
  <2>1. PICK d \in Calls :
            /\ calls[d].kind = "export"
            /\ calls[d].phase \in {"looping", "sending", "rejected"}
            /\ TraceOf(a) \in TracesOf(calls[d].todo)
    BY DEF Inv, NothingStays
  <2>2. d = c => phase # "resolved"
    BY <2>1, NoTraces
  <2> QED
    BY <2>1, <2>2, <1>1, <1>3
<1>10. Once(log, buffer, calls2, gone, SentOf(calls2, stored2))
  <2> DEFINE sent == SentOf(calls, stored)
             sent2 == SentOf(calls2, stored2)
  <2> HIDE DEF sent, sent2
  <2>1. sent2 \subseteq sent
    BY <1>5 DEF sent, sent2
  <2> SUFFICES ASSUME InOrderOnce(log) /\ gone = {}
               PROVE  Apart(buffer, calls2, sent2) /\ TracesHanded(log, sent2) /\ Disjoint(sent2)
    BY DEF Once, sent2
  <2>2. Apart(buffer, calls, sent) /\ TracesHanded(log, sent) /\ Disjoint(sent)
    BY DEF Inv, Once, sent
  <2>3. Apart(buffer, calls2, sent2)
    BY <2>1, <2>2, <1>4 DEF Apart
  <2>4. TracesHanded(log, sent2) /\ Disjoint(sent2)
    BY <2>1, <2>2 DEF TracesHanded, Disjoint
  <2> QED
    BY <2>3, <2>4
<1> QED
  BY <1>6, <1>7, <1>8, <1>9, <1>10 DEF Inv

-----------------------------------------------------------------------------
\* A turn of the loop of export or flush.

LEMMA FewerHanded ==
    ASSUME NEW log, log \in Seq(Range(log)), NEW A, A \subseteq HandedOf(log)
    PROVE  IsArrivals(A)
BY HandedIsArrivals, FewerArrivals

\* When everything is handed over once, a span is known by its id.
LEMMA SpanIsItsId ==
    ASSUME NEW log, InOrderOnce(log),
           NEW a \in HandedOf(log), NEW b \in HandedOf(log),
           IsSpan(a.item), IsSpan(b.item), SpanId(a) = SpanId(b)
    PROVE  a = b
<1>1. PICK i \in DOMAIN log : a = [at |-> i, item |-> log[i]]
  BY DEF HandedOf
<1>2. PICK j \in DOMAIN log : b = [at |-> j, item |-> log[j]]
  BY DEF HandedOf
<1>3. log[i].object = log[j].object /\ log[i].id = log[j].id
  BY <1>1, <1>2 DEF IsSpan, SpanId
<1>4. i = j
  BY <1>3 DEF InOrderOnce
<1> QED
  BY <1>1, <1>2, <1>4

\* The trace of a turn (Trace): the envelope kept, or one that only has the trace's id.
LEMMA TraceHasItsId ==
    ASSUME NEW kept, \A a \in kept : IsTrace(a.item), NEW t
    PROVE  Trace(t, kept).id = t
<1>1. CASE t \in TracesOf(kept)
  BY <1>1 DEF Trace, TracesOf, TraceOf
<1>2. CASE t \notin TracesOf(kept)
  BY <1>2 DEF Trace
<1> QED
  BY <1>1, <1>2

LEMMA TraceIsKept ==
    ASSUME NEW kept, NEW t, t \in TracesOf(kept)
    PROVE  \E a \in kept : TraceOf(a) = t /\ Trace(t, kept) = a.item
BY DEF Trace, TracesOf

\* The segment of a turn is made of what was handed over, goes to the conversation its
\* trace names, and has the spans of the turn, and the trace if it is included.
SegmentIsSound(log, gone, t, spans, include, g) ==
    /\ MadeFrom(log, g) /\ Follows(log, gone, g)
    /\ \A a \in spans : \E r \in Range(g.records) : r.content = a.item
    /\ \A x \in g.id : (include /\ x = TraceId(t)) \/ \E a \in spans : x = SpanId(a)

LEMMA SegmentOfTurn ==
    ASSUME NEW log, log \in Seq(Range(log)),
           NEW kept, kept \subseteq HandedTraces(log),
           NEW gone, Remembered(log, kept, gone),
           NEW t, NEW spans, spans \subseteq HandedSpans(log),
           \A a \in spans : TraceOf(a) = t,
           NEW include \in BOOLEAN, NEW stamp
    PROVE  SegmentIsSound(log, gone, t, spans, include,
                          Segment(Trace(t, kept), spans, include, stamp))
<1> DEFINE trace == Trace(t, kept)
           g == Segment(trace, spans, include, stamp)
<1>a. g = Segment(trace, spans, include, stamp)
  OBVIOUS
<1>b. trace.id = t
  <2>1. \A a \in kept : IsTrace(a.item)
    BY DEF HandedTraces
  <2> QED
    BY <2>1, TraceHasItsId
<1>c. t \in TracesOf(kept) => \E a \in kept : TraceOf(a) = t /\ trace = a.item
  BY TraceIsKept
<1> HIDE DEF trace, g
<1>1. /\ \A r : r \in Range(g.records) <=>
                   \/ include /\ r = TraceRecord(trace, stamp)
                   \/ \E a \in spans : r = SpanRecord(a.item, trace, stamp)
      /\ g.id = IdsOf(g)
      /\ g.conversation = Conversation(trace)
  <2>1. IsArrivals(spans)
    BY FewerHanded DEF HandedSpans
  <2> QED
    BY <2>1, <1>a, SegmentHolds, Z3T(30)
<1>2. TraceRecord(trace, stamp).id = TraceId(t)
  BY <1>b DEF TraceRecord, TraceId
<1>3. \A a \in spans : /\ SpanRecord(a.item, trace, stamp).id = SpanId(a)
                       /\ SpanRecord(a.item, trace, stamp).content = a.item
  BY DEF SpanRecord, SpanId
<1>4. IsTraceRecord(TraceRecord(trace, stamp))
  BY <1>2 DEF IsTraceRecord, TraceId
<1>5. MadeFrom(log, g)
  BY <1>1, <1>2, <1>3 DEF MadeFrom, HandedSpans
<1>6. Follows(log, gone, g)
  <2> SUFFICES ASSUME NEW r \in Range(g.records), NEW i \in DOMAIN log, NamesGroup(log, i),
                      log[i].id \notin gone, ~IsTraceRecord(r), r.content.trace = log[i].id
               PROVE  g.conversation = log[i].group
    BY DEF Follows
  <2>1. PICK a \in spans : r = SpanRecord(a.item, trace, stamp)
    BY <1>1, <1>4
  <2>2. r.content.trace = t
    <3>1. IsSpan(a.item) /\ TraceOf(a) = t /\ r.content = a.item
      BY <2>1, <1>3 DEF HandedSpans
    <3> QED
      BY <3>1 DEF TraceOf, IsSpan, IsTrace
  <2>3. log[i].id = t /\ IsTrace(log[i])
    BY <2>2 DEF NamesGroup
  <2>4. t \in TracesOf(kept)
    <3>1. [at |-> i, item |-> log[i]] \in HandedOf(log)
      BY DEF HandedOf
    <3>2. TraceOf([at |-> i, item |-> log[i]]) = t
      BY <2>3 DEF TraceOf
    <3> QED
      BY <3>1, <3>2, <2>3 DEF Remembered
  <2>5. PICK j \in DOMAIN log : IsTrace(log[j]) /\ log[j].id = t /\ trace = log[j]
    <3>1. PICK b \in kept : TraceOf(b) = t /\ trace = b.item
      BY <2>4, <1>c
    <3>2. PICK j \in DOMAIN log : b = [at |-> j, item |-> log[j]] /\ IsTrace(log[j])
      BY <3>1 DEF HandedTraces, HandedOf
    <3>3. log[j].id = t
      BY <3>1, <3>2 DEF TraceOf
    <3> QED
      BY <3>1, <3>2, <3>3
  <2>6. trace.group = log[i].group /\ log[i].group # NoName
    BY <2>3, <2>5 DEF NamesGroup
  <2> QED
    BY <2>6, <1>1 DEF Conversation
<1>7. \A a \in spans : \E r \in Range(g.records) : r.content = a.item
  BY <1>1, <1>3
<1>8. \A x \in g.id : (include /\ x = TraceId(t)) \/ \E a \in spans : x = SpanId(a)
  BY <1>1, <1>2, <1>3 DEF IdsOf
<1> QED
  BY <1>5, <1>6, <1>7, <1>8 DEF SegmentIsSound, trace, g

\* Turn, when a trace is left and the call goes on.
TurnsTo(s, t, spans, include, kept, buffer, phase, sending, s2, buffer2) ==
    /\ s.phase = "looping" /\ s.todo # {}
    /\ t = TraceOf(First(s.todo))
    /\ spans = SpansOf(t, IF s.kind = "export" THEN buffer ELSE s.taken)
    /\ include \in BOOLEAN /\ include = TakesTrace(s, kept, t)
    /\ \/ phase = "looping" /\ sending = {} /\ spans = {} /\ ~include
       \/ /\ phase = "sending"
          /\ \E stamp : sending = {Segment(Trace(t, kept), spans, include, stamp)}
    /\ IsState(s2, s.kind, phase, s.aborted, OtherSpans(t, s.todo), s.new,
               OtherSpans(t, s.taken), sending)
    /\ buffer2 = IF s.kind = "export" THEN OtherSpans(t, buffer) ELSE buffer

LEMMA Turns ==
    ASSUME NEW log, NEW kept, NEW buffer, NEW calls, NEW gone, NEW stored,
           Inv(log, kept, buffer, calls, gone, stored),
           NEW c \in Calls, NEW s, s = calls[c],
           NEW t, NEW spans, NEW include, NEW phase, NEW sending, NEW s2, NEW buffer2,
           TurnsTo(s, t, spans, include, kept, buffer, phase, sending, s2, buffer2),
           NEW calls2, calls2 = [calls EXCEPT ![c] = s2]
    PROVE  Inv(log, kept, buffer2, calls2, gone, stored)
<1> USE DEF TurnsTo
<1> DEFINE sent == SentOf(calls, stored)
           sent2 == SentOf(calls2, stored)
           export == s.kind = "export"
<1>0. /\ log \in Seq(Range(log)) /\ kept \subseteq HandedTraces(log)
      /\ buffer \subseteq HandedSpans(log)
      /\ CallStates(log, calls) /\ IsCall(log, s) /\ Remembered(log, kept, gone)
      /\ HandedSpans(log) \subseteq HandedOf(log)
  BY DEF Inv, Collections, CallStates, HandedSpans
<1>1. /\ s2.kind = s.kind /\ s2.new = s.new /\ s2.aborted = s.aborted
      /\ s2.todo = OtherSpans(t, s.todo) /\ s2.taken = OtherSpans(t, s.taken)
      /\ s2.phase = phase /\ s2.sending = sending /\ DOMAIN s2 = DOMAIN s
  BY <1>0 DEF IsCall, IsState
<1>2. /\ calls2 = [d \in Calls |-> calls2[d]] /\ calls2[c] = s2
      /\ \A d \in Calls \ {c} : calls2[d] = calls[d]
  BY <1>0 DEF CallStates
<1>3. First(s.todo) \in s.todo /\ t \in TracesOf(s.todo)
  <2>1. IsArrivals(s.todo)
    BY <1>0, FewerHanded DEF IsCall
  <2>2. First(s.todo) \in s.todo
    BY <2>1, FirstIsOne
  <2> QED
    BY <2>2 DEF TracesOf
<1>4. /\ spans \subseteq HandedSpans(log)
      /\ \A a \in spans : TraceOf(a) = t /\ IF export THEN a \in buffer ELSE a \in s.taken
      /\ export => \A a \in buffer : a \in spans \/ a \in buffer2
      /\ ~export => \A a \in s.taken : a \in spans \/ a \in s2.taken
      /\ buffer2 \subseteq buffer /\ (export => \A a \in buffer2 : TraceOf(a) # t)
      /\ ~export => buffer2 = buffer
      /\ s2.taken \subseteq s.taken /\ \A a \in s2.taken : TraceOf(a) # t
      /\ s2.todo \subseteq s.todo /\ t \notin TracesOf(s2.todo)
      /\ \A u \in TracesOf(s.todo) : u # t => u \in TracesOf(s2.todo)
      /\ TracesOf(s2.todo) \subseteq TracesOf(s.todo)
  BY <1>0, <1>1 DEF SpansOf, OtherSpans, TracesOf, IsCall
<1>5. s.sending = {} /\ s.taken \subseteq HandedSpans(log)
  BY <1>0 DEF IsCall
<1>6. \A g \in sending :
          /\ MadeFrom(log, g) /\ Follows(log, gone, g)
          /\ \A a \in spans : \E r \in Range(g.records) : r.content = a.item
          /\ \A x \in g.id : (include /\ x = TraceId(t)) \/ \E a \in spans : x = SpanId(a)
  <2>1. \A a \in spans : TraceOf(a) = t
    BY <1>4
  <2>2. ASSUME NEW stamp
        PROVE  SegmentIsSound(log, gone, t, spans, include,
                              Segment(Trace(t, kept), spans, include, stamp))
    BY <1>0, <1>4, <2>1, SegmentOfTurn
  <2>3. \A g \in sending : SegmentIsSound(log, gone, t, spans, include, g)
    BY <2>2
  <2> QED
    BY <2>3 DEF SegmentIsSound
<1>7. spans # {} => sending # {}
  OBVIOUS
<1>8. sent2 \subseteq sent \union sending /\ stored \subseteq sent
  BY <1>1, <1>2 DEF SentOf
<1> HIDE DEF sent, sent2, export
<1>9. Collections(log, kept, buffer2)
  BY <1>0, <1>4 DEF Collections
<1>10. CallStates(log, calls2)
  <2>1. TracesOf(s2.taken) \subseteq TracesOf(s2.todo)
    <3>1. TracesOf(s.taken) \subseteq TracesOf(s.todo)
      BY <1>0 DEF IsCall
    <3>2. \A a \in s2.taken : TraceOf(a) \in TracesOf(s.todo) /\ TraceOf(a) # t
      BY <3>1, <1>4 DEF TracesOf
    <3> QED
      BY <3>2, <1>4 DEF TracesOf
  <2>2. /\ phase \in {"looping", "sending"} /\ (phase = "looping" => sending = {})
        /\ phase = "sending" => \E g : sending = {g}
    OBVIOUS
  <2>3. IsCall(log, s)
    BY <1>0
  <2>4. /\ DOMAIN s2 = DOMAIN s /\ s2.kind = s.kind /\ s2.aborted = s.aborted
        /\ s2.new = s.new /\ s2.phase = phase /\ s2.sending = sending
        /\ s2.todo \subseteq s.todo /\ s2.taken \subseteq s.taken
    BY <1>1, <1>4
  <2>5. IsCall(log, s2)
    <3> HIDE DEF IsCall
    <3>1. s.todo \subseteq HandedOf(log) => s2.todo \subseteq HandedOf(log)
      BY <2>4
    <3>2. s.todo \subseteq HandedSpans(log) => s2.todo \subseteq HandedSpans(log)
      BY <2>4
    <3>3. s.taken \subseteq HandedSpans(log) => s2.taken \subseteq HandedSpans(log)
      BY <2>4
    <3>4. s.taken = {} => s2.taken = {}
      BY <2>4
    <3>5. phase # "resolved" /\ phase # "idle"
      BY <2>2
    <3> QED
      BY <2>1, <2>2, <2>3, <2>4, <3>1, <3>2, <3>3, <3>4, <3>5, Zenon DEF IsCall
  <2> QED
    BY <2>5, <1>0, <1>2 DEF CallStates
<1>11. \A u \in sent2 : MadeFrom(log, u) /\ Follows(log, gone, u)
  BY <1>6, <1>8 DEF Inv, sent
<1>12. NothingLost(log, buffer2, calls2, stored)
  <2> SUFFICES ASSUME NEW a \in HandedOf(log), IsSpan(a.item), a \notin buffer2,
                      ~\E u \in stored : \E r \in Range(u.records) : r.content = a.item
               PROVE  \E d \in Calls :
                         /\ calls2[d].phase # "resolved"
                         /\ \/ a \in calls2[d].taken
                            \/ \E u \in calls2[d].sending :
                                  \E r \in Range(u.records) : r.content = a.item
    BY DEF NothingLost
  <2>1. phase # "resolved"
    OBVIOUS
  <2>2. CASE a \in spans
    BY <2>1, <2>2, <1>1, <1>2, <1>6, <1>7
  <2>3. CASE a \notin spans /\ a \in s.taken
    BY <2>1, <2>3, <1>0, <1>1, <1>2, <1>4 DEF IsCall, export
  <2>4. CASE a \notin spans /\ a \notin s.taken
    <3>1. a \notin buffer
      BY <2>4, <1>4
    <3>2. PICK d \in Calls :
              /\ calls[d].phase # "resolved"
              /\ \/ a \in calls[d].taken
                 \/ \E u \in calls[d].sending : \E r \in Range(u.records) : r.content = a.item
      BY <3>1 DEF Inv, NothingLost
    <3>3. d # c
      BY <3>2, <2>4, <1>5
    <3> QED
      BY <3>2, <3>3, <1>2
  <2> QED
    BY <2>2, <2>3, <2>4
<1>13. NothingStays(buffer2, calls2)
  <2> SUFFICES ASSUME NEW a \in buffer2
               PROVE  \E d \in Calls :
                         /\ calls2[d].kind = "export"
                         /\ calls2[d].phase \in {"looping", "sending", "rejected"}
                         /\ TraceOf(a) \in TracesOf(calls2[d].todo)
    BY DEF NothingStays
  <2>1. PICK d \in Calls :
            /\ calls[d].kind = "export"
            /\ calls[d].phase \in {"looping", "sending", "rejected"}
            /\ TraceOf(a) \in TracesOf(calls[d].todo)
    BY <1>4 DEF Inv, NothingStays
  <2>2. CASE d # c
    BY <2>1, <2>2, <1>2
  <2>3. CASE d = c
    <3>1. TraceOf(a) # t
      BY <2>1, <2>3, <1>4 DEF export
    <3>2. phase \in {"looping", "sending"}
      OBVIOUS
    <3> QED
      BY <2>1, <2>3, <3>1, <3>2, <1>1, <1>2, <1>4
  <2> QED
    BY <2>2, <2>3
<1>14. Once(log, buffer2, calls2, gone, sent2)
  <2> SUFFICES ASSUME InOrderOnce(log), gone = {}
               PROVE  /\ Apart(buffer2, calls2, sent2)
                      /\ TracesHanded(log, sent2) /\ Disjoint(sent2)
    BY DEF Once
  <2>1. Apart(buffer, calls, sent) /\ TracesHanded(log, sent) /\ Disjoint(sent)
    BY DEF Inv, Once, sent
  <2>2. include => export /\ t \in s.new
    <3>1. CASE export
      BY <3>1 DEF TakesTrace, export
    <3>2. CASE ~export
      <4>1. First(s.todo) \in HandedSpans(log)
        BY <3>2, <1>0, <1>3 DEF IsCall, export
      <4>2. PICK i \in DOMAIN log : First(s.todo) = [at |-> i, item |-> log[i]] /\ IsSpan(log[i])
        BY <4>1 DEF HandedSpans, HandedOf
      <4>3. t = log[i].trace
        BY <4>2 DEF TraceOf, IsSpan, IsTrace
      <4>4. PICK k \in 1..(i - 1) : IsTrace(log[k]) /\ log[k].id = t
        BY <4>2, <4>3 DEF InOrderOnce
      <4>5. k \in DOMAIN log
        BY <4>4, <1>0
      <4>6. [at |-> k, item |-> log[k]] \in HandedOf(log)
        BY <4>5 DEF HandedOf
      <4>7. t \in TracesOf(kept)
        <5>1. TraceOf([at |-> k, item |-> log[k]]) = t
          BY <4>4 DEF TraceOf
        <5> QED
          BY <5>1, <4>4, <4>6, <1>0 DEF Remembered
      <4> QED
        BY <4>7, <3>2 DEF TakesTrace, export
    <3> QED
      BY <3>1, <3>2
  <2>3. \A a, b \in HandedSpans(log) : SpanId(a) = SpanId(b) => a = b
    BY SpanIsItsId DEF HandedSpans
  <2>4. \A a : SpanId(a) # TraceId(t)
    BY DEF SpanId, TraceId
  <2>5. \A d \in Calls : /\ calls2[d].new = calls[d].new
                         /\ calls2[d].taken \subseteq calls[d].taken
                         /\ TracesOf(calls2[d].todo) \subseteq TracesOf(calls[d].todo)
                         /\ calls[d].taken \subseteq HandedSpans(log)
    BY <1>0, <1>1, <1>2, <1>4 DEF CallStates, IsCall
  <2>6. \A a \in spans : a \notin buffer2 /\ \A d \in Calls : a \notin calls2[d].taken
    BY <2>1, <1>0, <1>2, <1>4 DEF Apart
  <2>7. \A a \in HandedSpans(log) : a \notin spans => \A g \in sending : SpanId(a) \notin g.id
    BY <2>3, <2>4, <1>4, <1>6
  <2>8. \A d \in Calls : t \in calls[d].new /\ t \in TracesOf(calls2[d].todo) => ~include
    BY <2>1, <2>2, <1>1, <1>2, <1>4 DEF Apart
  <2>9. \A u : TraceId(u) = TraceId(t) => u = t
    BY DEF TraceId
  <2>10. \A u : (\E g \in sending : TraceId(u) \in g.id) => u = t /\ include
    <3>1. \A u, a : TraceId(u) # SpanId(a)
      BY DEF SpanId, TraceId
    <3> QED
      BY <3>1, <2>9, <1>6
  <2>11. Apart(buffer2, calls2, sent2)
    <3>1. \A a \in buffer2 : \A u \in sent2 : SpanId(a) \notin u.id
      BY <2>1, <2>6, <2>7, <1>0, <1>4, <1>8 DEF Apart
    <3>2. ASSUME NEW d \in Calls, NEW a \in calls2[d].taken
          PROVE  /\ a \notin buffer2
                 /\ \A u \in sent2 : SpanId(a) \notin u.id
                 /\ \A e \in Calls \ {d} : a \notin calls2[e].taken
      BY <2>1, <2>5, <2>6, <2>7, <1>4, <1>8 DEF Apart
    <3>3. ASSUME NEW d \in Calls, NEW u \in calls2[d].new
          PROVE  /\ \A e \in Calls \ {d} : u \notin calls2[e].new
                 /\ u \in TracesOf(calls2[d].todo) => \A g \in sent2 : TraceId(u) \notin g.id
      BY <2>1, <2>5, <2>8, <2>10, <1>8 DEF Apart
    <3> QED
      BY <3>1, <3>2, <3>3 DEF Apart
  <2>12. TracesHanded(log, sent2)
    <3>1. s.new \subseteq TracesOf(HandedTraces(log))
      BY <1>0 DEF IsCall
    <3>2. ASSUME NEW g \in sending, NEW u, TraceId(u) \in g.id
          PROVE  \E a \in HandedOf(log) : IsTrace(a.item) /\ TraceOf(a) = u
      BY <2>2, <2>10, <3>1, <3>2 DEF TracesOf, HandedTraces
    <3> QED
      BY <2>1, <3>2, <1>8 DEF TracesHanded
  <2>13. Disjoint(sent2)
    <3>1. ASSUME NEW g \in sending, NEW u \in sent
          PROVE  g.id \intersect u.id = {}
      <4>1. \A a \in spans : SpanId(a) \notin u.id
        BY <2>1, <1>4 DEF Apart
      <4>2. include => TraceId(t) \notin u.id
        BY <2>1, <2>2, <1>3 DEF Apart
      <4> QED
        BY <4>1, <4>2, <1>6
    <3>2. \A g, u \in sending : g = u
      OBVIOUS
    <3> QED
      BY <2>1, <3>1, <3>2, <1>8 DEF Disjoint
  <2> QED
    BY <2>11, <2>12, <2>13
<1> QED
  BY <1>0, <1>9, <1>10, <1>11, <1>12, <1>13, <1>14 DEF Inv, sent2

-----------------------------------------------------------------------------
\* What an export and a flush do before their first turn, and the end of a shutdown.

LEMMA TraceIsItsId ==
    ASSUME NEW log, InOrderOnce(log),
           NEW a \in HandedTraces(log), NEW b \in HandedTraces(log), TraceOf(a) = TraceOf(b)
    PROVE  a = b
<1>1. PICK i \in DOMAIN log : a = [at |-> i, item |-> log[i]] /\ IsTrace(log[i])
  BY DEF HandedOf, HandedTraces
<1>2. PICK j \in DOMAIN log : b = [at |-> j, item |-> log[j]] /\ IsTrace(log[j])
  BY DEF HandedOf, HandedTraces
<1>3. log[i].object = log[j].object /\ log[i].id = log[j].id
  BY <1>1, <1>2 DEF IsTrace, TraceOf
<1>4. i = j
  BY <1>3 DEF InOrderOnce
<1> QED
  BY <1>1, <1>2, <1>4

\* The arrivals that items are after log.
Came(log, items) == {[at |-> Len(log) + k, item |-> items[k]] : k \in DOMAIN items}

\* More is handed over: what was true of an earlier log.
GrowsTo(log, came, log2) ==
    /\ log2 \in Seq(Range(log2))
    /\ HandedOf(log2) = HandedOf(log) \union came
    /\ HandedOf(log) \intersect came = {}
    /\ \A s, gone : MadeFrom(log, s) /\ Follows(log, gone, s) =>
                       MadeFrom(log2, s) /\ Follows(log2, gone, s)
    /\ InOrderOnce(log2) => InOrderOnce(log)

LEMMA LogGrows ==
    ASSUME NEW log, log \in Seq(Range(log)), NEW items, items \in Seq(Range(items))
    PROVE  GrowsTo(log, Came(log, items), log \o items)
<1> DEFINE came == Came(log, items)
           log2 == log \o items
<1>1. /\ log2 \in Seq(Range(log2))
      /\ HandedOf(log2) = HandedOf(log) \union came
      /\ \A i \in DOMAIN log : i \in DOMAIN log2 /\ log2[i] = log[i]
  BY HandedGrows DEF Came
<1> HIDE DEF log2
<1>2. /\ Len(log) \in Nat /\ DOMAIN log = 1..Len(log) /\ DOMAIN items = 1..Len(items)
      /\ Len(items) \in Nat /\ DOMAIN log2 = 1..Len(log2) /\ Len(log2) \in Nat
  BY <1>1
<1>3. HandedOf(log) \intersect came = {}
  BY <1>2 DEF HandedOf, Came
<1>5. ASSUME NEW i \in DOMAIN log, NamesGroup(log2, i)
      PROVE  NamesGroup(log, i)
  BY <1>1, <1>5 DEF NamesGroup
<1>6. ASSUME NEW s, NEW gone, MadeFrom(log, s), Follows(log, gone, s)
      PROVE  MadeFrom(log2, s) /\ Follows(log2, gone, s)
  <2>1. MadeFrom(log2, s)
    BY <1>1, <1>6 DEF MadeFrom
  <2>2. Follows(log2, gone, s)
    <3> SUFFICES ASSUME NEW r \in Range(s.records), NEW i \in DOMAIN log2,
                        NamesGroup(log2, i), log2[i].id \notin gone,
                        ~IsTraceRecord(r), r.content.trace = log2[i].id,
                        \A j \in 1..i : log2[j] # r.content
                 PROVE  s.conversation = log2[i].group
      BY DEF Follows
    <3>1. CASE i \in DOMAIN log
      <4>1. log2[i] = log[i] /\ NamesGroup(log, i)
        BY <3>1, <1>1, <1>5
      <4>2. \A j \in 1..i : j \in DOMAIN log /\ log[j] # r.content
        BY <3>1, <1>1, <1>2
      <4> QED
        BY <3>1, <4>1, <4>2, <1>6 DEF Follows
    <3>2. CASE i \notin DOMAIN log
      <4>1. ~\E t : r.id = TraceId(t)
        BY DEF IsTraceRecord, TraceId
      <4>2. PICK a \in HandedOf(log) : r.content = a.item
        BY <4>1, <1>6 DEF MadeFrom
      <4>3. PICK j \in DOMAIN log : r.content = log[j]
        BY <4>2 DEF HandedOf
      <4>4. j \in 1..i
        BY <3>2, <1>2
      <4> QED
        BY <4>3, <4>4, <1>1
    <3> QED
      BY <3>1, <3>2
  <2> QED
    BY <2>1, <2>2
<1>7. ASSUME InOrderOnce(log2)
      PROVE  InOrderOnce(log)
  <2>1. ASSUME NEW i \in DOMAIN log, NEW j \in DOMAIN log
        PROVE  /\ log[i].object = log[j].object /\ log[i].id = log[j].id => i = j
               /\ IsSpan(log[i]) =>
                     \E k \in 1..(i - 1) : IsTrace(log[k]) /\ log[k].id = log[i].trace
    <3>1. log2[i] = log[i] /\ log2[j] = log[j] /\ i \in DOMAIN log2 /\ j \in DOMAIN log2
      BY <1>1
    <3>2. \A k \in 1..(i - 1) : k \in DOMAIN log /\ log2[k] = log[k]
      BY <1>1, <1>2
    <3>3. log[i].object = log[j].object /\ log[i].id = log[j].id => i = j
      BY <3>1, <1>7 DEF InOrderOnce
    <3>4. ASSUME IsSpan(log[i])
          PROVE  \E k \in 1..(i - 1) : IsTrace(log[k]) /\ log[k].id = log[i].trace
      <4>1. PICK k \in 1..(i - 1) : IsTrace(log2[k]) /\ log2[k].id = log2[i].trace
        BY <3>1, <3>4, <1>7 DEF InOrderOnce
      <4> QED
        BY <4>1, <3>1, <3>2
    <3> QED
      BY <3>3, <3>4
  <2> QED
    BY <2>1 DEF InOrderOnce
<1> QED
  BY <1>1, <1>3, <1>6, <1>7 DEF GrowsTo, log2

\* An idle call has nothing.
LEMMA IdleHasNothing ==
    ASSUME NEW log, NEW s, IsCall(log, s), s.phase = "idle"
    PROVE  s.taken = {} /\ s.sending = {}
<1>1. TracesOf(s.taken) \subseteq TracesOf({}) /\ s.sending = {}
  BY DEF IsCall
<1> QED
  BY <1>1 DEF TracesOf

\* shutdown forgets the envelopes.
LEMMA Forgets ==
    ASSUME NEW log, NEW kept, NEW buffer, NEW calls, NEW gone, NEW stored,
           Inv(log, kept, buffer, calls, gone, stored)
    PROVE  Inv(log, {}, buffer, calls, gone \union TracesOf(kept), stored)
<1> DEFINE gone2 == gone \union TracesOf(kept)
<1> HIDE DEF gone2
<1>1. gone \subseteq gone2 /\ TracesOf(kept) \subseteq gone2
  BY DEF gone2
<1>2. \A s \in SentOf(calls, stored) : MadeFrom(log, s) /\ Follows(log, gone2, s)
  BY <1>1 DEF Inv, Follows
<1>3. Remembered(log, {}, gone2)
  BY <1>1 DEF Inv, Remembered
<1>4. Once(log, buffer, calls, gone2, SentOf(calls, stored))
  <2>1. gone2 = {} => gone = {}
    BY <1>1
  <2> QED
    BY <2>1 DEF Inv, Once
<1>5. Collections(log, {}, buffer)
  BY DEF Inv, Collections
<1> QED
  BY <1>2, <1>3, <1>4, <1>5 DEF Inv, gone2

\* flush takes all spans.
LEMMA TakesAll ==
    ASSUME NEW log, NEW kept, NEW buffer, NEW calls, NEW gone, NEW stored,
           Inv(log, kept, buffer, calls, gone, stored),
           NEW c \in Calls, calls[c].phase = "idle",
           NEW s2, NEW kind \in {"flush", "shutdown"},
           s2 = [kind |-> kind, phase |-> "looping", aborted |-> FALSE,
                 todo |-> FirstOf(buffer), new |-> {}, taken |-> buffer, sending |-> {}],
           NEW calls2, calls2 = [calls EXCEPT ![c] = s2]
    PROVE  Inv(log, kept, {}, calls2, gone, stored)
<1> DEFINE sent == SentOf(calls, stored)
           sent2 == SentOf(calls2, stored)
<1>1. /\ s2.kind = kind /\ s2.phase = "looping" /\ s2.aborted = FALSE
      /\ s2.todo = FirstOf(buffer) /\ s2.new = {} /\ s2.taken = buffer /\ s2.sending = {}
      /\ DOMAIN s2 = {"kind", "phase", "aborted", "todo", "new", "taken", "sending"}
  OBVIOUS
<1>2. /\ CallStates(log, calls) /\ Collections(log, kept, buffer)
      /\ log \in Seq(Range(log)) /\ buffer \subseteq HandedSpans(log)
      /\ HandedSpans(log) \subseteq HandedOf(log)
  BY DEF Inv, Collections, HandedSpans
<1>3. /\ calls2 = [d \in Calls |-> calls2[d]] /\ calls2[c] = s2
      /\ \A d \in Calls \ {c} : calls2[d] = calls[d]
  BY <1>2 DEF CallStates
<1>4. calls[c].taken = {} /\ calls[c].sending = {}
  BY <1>2, IdleHasNothing DEF CallStates
<1>5. FirstOf(buffer) \subseteq buffer /\ TracesOf(FirstOf(buffer)) = TracesOf(buffer)
  <2>1. IsArrivals(buffer)
    BY <1>2, FewerHanded
  <2> QED
    BY <2>1, FirstOfCovers
<1>6. sent2 \subseteq sent
  BY <1>1, <1>3 DEF SentOf
<1> HIDE DEF sent, sent2
<1>7. Collections(log, kept, {})
  BY <1>2 DEF Collections
<1>8. CallStates(log, calls2)
  <2>1. IsCall(log, s2)
    BY <1>1, <1>2, <1>5 DEF IsCall
  <2> QED
    BY <2>1, <1>2, <1>3 DEF CallStates
<1>9. NothingLost(log, {}, calls2, stored)
  <2> SUFFICES ASSUME NEW a \in HandedOf(log), IsSpan(a.item),
                      ~\E u \in stored : \E r \in Range(u.records) : r.content = a.item
               PROVE  \E d \in Calls :
                         /\ calls2[d].phase # "resolved"
                         /\ \/ a \in calls2[d].taken
                            \/ \E u \in calls2[d].sending :
                                  \E r \in Range(u.records) : r.content = a.item
    BY DEF NothingLost
  <2>1. CASE a \in buffer
    BY <2>1, <1>1, <1>3
  <2>2. CASE a \notin buffer
    <3>1. PICK d \in Calls :
              /\ calls[d].phase # "resolved"
              /\ \/ a \in calls[d].taken
                 \/ \E u \in calls[d].sending : \E r \in Range(u.records) : r.content = a.item
      BY <2>2 DEF Inv, NothingLost
    <3>2. d # c
      BY <3>1, <1>4
    <3> QED
      BY <3>1, <3>2, <1>3
  <2> QED
    BY <2>1, <2>2
<1>10. NothingStays({}, calls2)
  BY DEF NothingStays
<1>11. Once(log, {}, calls2, gone, sent2)
  <2> SUFFICES ASSUME InOrderOnce(log), gone = {}
               PROVE  /\ Apart({}, calls2, sent2)
                      /\ TracesHanded(log, sent2) /\ Disjoint(sent2)
    BY DEF Once
  <2>1. Apart(buffer, calls, sent) /\ TracesHanded(log, sent) /\ Disjoint(sent)
    BY DEF Inv, Once, sent
  <2>2. TracesHanded(log, sent2) /\ Disjoint(sent2)
    BY <2>1, <1>6 DEF TracesHanded, Disjoint
  <2>3. ASSUME NEW d \in Calls, NEW a \in calls2[d].taken
        PROVE  /\ \A u \in sent2 : SpanId(a) \notin u.id
               /\ \A e \in Calls \ {d} : a \notin calls2[e].taken
    BY <2>1, <2>3, <1>1, <1>3, <1>6 DEF Apart
  <2>4. ASSUME NEW d \in Calls, NEW u \in calls2[d].new
        PROVE  /\ \A e \in Calls \ {d} : u \notin calls2[e].new
               /\ u \in TracesOf(calls2[d].todo) => \A g \in sent2 : TraceId(u) \notin g.id
    BY <2>1, <2>4, <1>1, <1>3, <1>6 DEF Apart
  <2> QED
    BY <2>2, <2>3, <2>4 DEF Apart
<1> QED
  BY <1>2, <1>6, <1>7, <1>8, <1>9, <1>10, <1>11 DEF Inv, sent, sent2

\* export brings traces and spans.
LEMMA Receives ==
    ASSUME NEW log, NEW kept, NEW buffer, NEW calls, NEW gone, NEW stored,
           Inv(log, kept, buffer, calls, gone, stored),
           NEW c \in Calls, calls[c].phase = "idle",
           NEW items, items \in Seq(Range(items)),
           NEW came, came = Came(log, items),
           NEW new, new = {a \in came : IsTrace(a.item)},
           NEW buffer2, buffer2 = buffer \union {a \in came : IsSpan(a.item)},
           NEW kept2, kept2 \subseteq kept \union new,
           NEW gone2,
           gone2 = gone \union (TracesOf(kept \union new) \ TracesOf(kept2)),
           NEW s2,
           s2 = [kind |-> "export", phase |-> "looping", aborted |-> FALSE,
                 todo |-> Ready(new, buffer2), new |-> TracesOf(new), taken |-> {},
                 sending |-> {}],
           NEW calls2, calls2 = [calls EXCEPT ![c] = s2],
           NEW log2, log2 = log \o items
    PROVE  Inv(log2, kept2, buffer2, calls2, gone2, stored)
<1> DEFINE sent == SentOf(calls, stored)
           sent2 == SentOf(calls2, stored)
<1>1. /\ s2.kind = "export" /\ s2.phase = "looping" /\ s2.aborted = FALSE
      /\ s2.todo = Ready(new, buffer2) /\ s2.new = TracesOf(new) /\ s2.taken = {}
      /\ s2.sending = {}
      /\ DOMAIN s2 = {"kind", "phase", "aborted", "todo", "new", "taken", "sending"}
  OBVIOUS
<1>2. /\ CallStates(log, calls)
      /\ log \in Seq(Range(log)) /\ buffer \subseteq HandedSpans(log)
      /\ kept \subseteq HandedTraces(log)
  BY DEF Inv, Collections
<1>3. /\ calls2 = [d \in Calls |-> calls2[d]] /\ calls2[c] = s2
      /\ \A d \in Calls \ {c} : calls2[d] = calls[d]
  BY <1>2 DEF CallStates
<1>4. calls[c].taken = {} /\ calls[c].sending = {}
  BY <1>2, IdleHasNothing DEF CallStates
<1>5. /\ log2 \in Seq(Range(log2))
      /\ HandedOf(log2) = HandedOf(log) \union came
      /\ HandedOf(log) \intersect came = {}
      /\ \A s, g : MadeFrom(log, s) /\ Follows(log, g, s) =>
                         MadeFrom(log2, s) /\ Follows(log2, g, s)
      /\ InOrderOnce(log2) => InOrderOnce(log)
  <2>1. GrowsTo(log, came, log2)
    BY <1>2, LogGrows
  <2> QED
    BY <2>1 DEF GrowsTo
<1>a. /\ HandedTraces(log2) = HandedTraces(log) \union new
      /\ HandedSpans(log2) = HandedSpans(log) \union {a \in came : IsSpan(a.item)}
  BY <1>5 DEF HandedTraces, HandedSpans
<1>6. /\ new \subseteq HandedTraces(log2) /\ buffer2 \subseteq HandedSpans(log2)
      /\ HandedTraces(log2) \subseteq HandedOf(log2) /\ HandedSpans(log2) \subseteq HandedOf(log2)
      /\ HandedTraces(log) \subseteq HandedOf(log) /\ HandedSpans(log) \subseteq HandedOf(log)
  BY <1>2, <1>5, <1>a DEF HandedTraces, HandedSpans
<1>7. /\ s2.todo \subseteq HandedOf(log2)
      /\ \A a \in buffer2 : TraceOf(a) \in TracesOf(s2.todo)
  <2>1. IsArrivals(new) /\ IsArrivals(buffer2)
    BY <1>5, <1>a, <1>6, FewerHanded
  <2>2. /\ FirstOf(new) \subseteq new /\ TracesOf(FirstOf(new)) = TracesOf(new)
        /\ FirstOf(buffer2) \subseteq buffer2
        /\ TracesOf(FirstOf(buffer2)) = TracesOf(buffer2)
    BY <2>1, FirstOfCovers
  <2>3. s2.todo = FirstOf(new)
                     \union {a \in FirstOf(buffer2) : TraceOf(a) \notin TracesOf(new)}
    BY <1>1 DEF Ready
  <2>4. ASSUME NEW a \in buffer2
        PROVE  TraceOf(a) \in TracesOf(s2.todo)
    <3>1. TraceOf(a) \in TracesOf(FirstOf(buffer2))
      BY <2>2 DEF TracesOf
    <3>2. PICK b \in FirstOf(buffer2) : TraceOf(b) = TraceOf(a)
      BY <3>1 DEF TracesOf
    <3>3. TraceOf(a) \in TracesOf(FirstOf(new)) \/ b \in s2.todo
      BY <2>2, <2>3, <3>2
    <3> QED
      BY <2>3, <3>2, <3>3 DEF TracesOf
  <2> QED
    BY <2>2, <2>3, <2>4, <1>6
<1>8. sent2 \subseteq sent /\ gone \subseteq gone2
  BY <1>1, <1>3 DEF SentOf
<1> HIDE DEF sent, sent2
<1>9. Collections(log2, kept2, buffer2)
  BY <1>2, <1>5, <1>a, <1>6 DEF Collections
<1>10. CallStates(log2, calls2)
  <2>1. IsCall(log2, s2)
    <3>1. TracesOf({}) \subseteq TracesOf(s2.todo) /\ TracesOf(new) \subseteq TracesOf(HandedTraces(log2))
      BY <1>6 DEF TracesOf
    <3> QED
      BY <3>1, <1>1, <1>7 DEF IsCall
  <2>2. ASSUME NEW d \in Calls
        PROVE  IsCall(log2, calls[d])
    <3>1. IsCall(log, calls[d])
      BY <1>2 DEF CallStates
    <3>2. /\ HandedOf(log) \subseteq HandedOf(log2) /\ HandedSpans(log) \subseteq HandedSpans(log2)
          /\ TracesOf(HandedTraces(log)) \subseteq TracesOf(HandedTraces(log2))
      BY <1>5, <1>a DEF TracesOf
    <3> QED
      BY <3>1, <3>2 DEF IsCall
  <2> QED
    BY <2>1, <2>2, <1>3 DEF CallStates
<1>11. \A u \in sent2 : MadeFrom(log2, u) /\ Follows(log2, gone2, u)
  <2>1. \A u \in sent2 : MadeFrom(log2, u) /\ Follows(log2, gone, u)
    BY <1>5, <1>a, <1>8 DEF Inv, sent
  <2> QED
    BY <2>1, <1>8 DEF Follows
<1>12. NothingLost(log2, buffer2, calls2, stored)
  <2> SUFFICES ASSUME NEW a \in HandedOf(log2), IsSpan(a.item), a \notin buffer2,
                      ~\E u \in stored : \E r \in Range(u.records) : r.content = a.item
               PROVE  \E d \in Calls :
                         /\ calls2[d].phase # "resolved"
                         /\ \/ a \in calls2[d].taken
                            \/ \E u \in calls2[d].sending :
                                  \E r \in Range(u.records) : r.content = a.item
    BY DEF NothingLost
  <2>1. a \in HandedOf(log) /\ a \notin buffer
    BY <1>5, <1>a
  <2>2. PICK d \in Calls :
            /\ calls[d].phase # "resolved"
            /\ \/ a \in calls[d].taken
               \/ \E u \in calls[d].sending : \E r \in Range(u.records) : r.content = a.item
    BY <2>1 DEF Inv, NothingLost
  <2>3. d # c
    BY <2>2, <1>4
  <2> QED
    BY <2>2, <2>3, <1>3
<1>13. NothingStays(buffer2, calls2)
  BY <1>1, <1>3, <1>7 DEF NothingStays
<1>14. Remembered(log2, kept2, gone2)
  <2> SUFFICES ASSUME NEW a \in HandedOf(log2), IsTrace(a.item)
               PROVE  TraceOf(a) \in TracesOf(kept2) \union gone2
    BY DEF Remembered
  <2>1. CASE a \in HandedOf(log)
    <3>1. TraceOf(a) \in TracesOf(kept \union new) \union gone
      BY <2>1 DEF Inv, Remembered, TracesOf
    <3> QED
      BY <3>1
  <2>2. CASE a \in came
    <3>1. TraceOf(a) \in TracesOf(kept \union new)
      BY <2>2 DEF TracesOf
    <3> QED
      BY <3>1
  <2> QED
    BY <2>1, <2>2, <1>5, <1>a
<1>15. Once(log2, buffer2, calls2, gone2, sent2)
  <2> SUFFICES ASSUME InOrderOnce(log2), gone2 = {}
               PROVE  /\ Apart(buffer2, calls2, sent2)
                      /\ TracesHanded(log2, sent2) /\ Disjoint(sent2)
    BY DEF Once
  <2>1. Apart(buffer, calls, sent) /\ TracesHanded(log, sent) /\ Disjoint(sent)
    BY <1>5, <1>a, <1>8 DEF Inv, Once, sent
  <2>2. TracesHanded(log2, sent2) /\ Disjoint(sent2)
    BY <2>1, <1>5, <1>a, <1>8 DEF TracesHanded, Disjoint
  <2>3. ASSUME NEW a \in came, IsSpan(a.item), NEW u \in sent
        PROVE  SpanId(a) \notin u.id
    <3> SUFFICES ASSUME SpanId(a) \in u.id
                 PROVE  FALSE
      OBVIOUS
    <3>1. MadeFrom(log, u)
      BY DEF Inv, sent
    <3>2. PICK r \in Range(u.records) : r.id = SpanId(a)
      BY <3>1 DEF MadeFrom, IdsOf
    <3>3. \A t : SpanId(a) # TraceId(t)
      BY DEF SpanId, TraceId
    <3>4. PICK b \in HandedOf(log) : IsSpan(b.item) /\ SpanId(b) = SpanId(a)
      BY <3>1, <3>2, <3>3 DEF MadeFrom
    <3>5. a \in HandedOf(log2) /\ b \in HandedOf(log2)
      BY <1>5, <1>a
    <3>6. a = b
      BY <2>3, <3>4, <3>5, SpanIsItsId
    <3> QED
      BY <3>6, <1>5, <1>a
  <2>4. ASSUME NEW t \in TracesOf(new), NEW b \in HandedTraces(log)
        PROVE  TraceOf(b) # t
    <3>1. PICK a \in new : TraceOf(a) = t
      BY DEF TracesOf
    <3>2. a \in HandedTraces(log2) /\ b \in HandedTraces(log2)
      BY <1>5, <1>a
    <3>3. a # b
      BY <1>5, <1>a, <1>6
    <3> QED
      BY <3>1, <3>2, <3>3, TraceIsItsId
  <2>5. ASSUME NEW t \in TracesOf(new)
        PROVE  /\ \A d \in Calls : t \notin calls[d].new
               /\ \A u \in sent : TraceId(t) \notin u.id
    <3>1. \A d \in Calls : calls[d].new \subseteq TracesOf(HandedTraces(log))
      BY <1>2 DEF CallStates, IsCall
    <3>2. t \notin TracesOf(HandedTraces(log))
      BY <2>4 DEF TracesOf
    <3>3. \A b \in HandedOf(log) : IsTrace(b.item) => TraceOf(b) # t
      BY <2>4 DEF HandedTraces
    <3> QED
      BY <3>1, <3>2, <3>3, <2>1 DEF TracesHanded
  <2>6. \A a \in buffer2 : \A u \in sent2 : SpanId(a) \notin u.id
    BY <2>1, <2>3, <1>8 DEF Apart
  <2>7. ASSUME NEW d \in Calls, NEW a \in calls2[d].taken
        PROVE  /\ a \notin buffer2
               /\ \A u \in sent2 : SpanId(a) \notin u.id
               /\ \A e \in Calls \ {d} : a \notin calls2[e].taken
    <3>1. d # c /\ a \in calls[d].taken
      BY <2>7, <1>1, <1>3
    <3>2. a \in HandedOf(log)
      BY <3>1, <1>2, <1>6 DEF CallStates, IsCall
    <3>3. a \notin buffer2
      BY <2>1, <3>1, <3>2, <1>5, <1>a DEF Apart
    <3>4. \A e \in Calls \ {d} : a \notin calls2[e].taken
      BY <2>1, <3>1, <1>1, <1>3 DEF Apart
    <3> QED
      BY <2>1, <3>1, <3>3, <3>4, <1>8 DEF Apart
  <2>8. ASSUME NEW d \in Calls, NEW u \in calls2[d].new
        PROVE  /\ \A e \in Calls \ {d} : u \notin calls2[e].new
               /\ u \in TracesOf(calls2[d].todo) => \A g \in sent2 : TraceId(u) \notin g.id
    <3>1. CASE d = c
      <4>1. u \in TracesOf(new)
        BY <2>8, <3>1, <1>1, <1>3
      <4> QED
        BY <2>5, <3>1, <4>1, <1>3, <1>8
    <3>2. CASE d # c
      <4>1. u \in calls[d].new /\ calls2[d] = calls[d]
        BY <2>8, <3>2, <1>3
      <4>2. u \notin calls2[c].new
        BY <2>5, <4>1, <1>1, <1>3
      <4> QED
        BY <2>1, <4>1, <4>2, <1>3, <1>8 DEF Apart
    <3> QED
      BY <3>1, <3>2
  <2> QED
    BY <2>2, <2>6, <2>7, <2>8 DEF Apart
<1> QED
  BY <1>9, <1>10, <1>11, <1>12, <1>13, <1>14, <1>15 DEF Inv, sent2

-----------------------------------------------------------------------------
\* The actions.

Fields == {"kind", "phase", "aborted", "todo", "new", "taken", "sending"}

\* What Turn makes of the call and the buffer.
Outcome(state, left, kept, t, spans, include, s2, left2) ==
    \/ /\ state.todo = {} /\ left2 = left
       /\ IsState(s2, state.kind, "resolved", state.aborted, state.todo,
                  state.new, state.taken, state.sending)
    \/ /\ left2 = left
       /\ IsState(s2, state.kind, "rejected", state.aborted, state.todo,
                  state.new, state.taken, state.sending)
    \/ /\ state.todo # {}
       /\ left2 = IF state.kind = "export" THEN OtherSpans(t, left) ELSE left
       /\ \E phase, sending :
             /\ \/ phase = "looping" /\ sending = state.sending /\ spans = {} /\ ~include
                \/ /\ phase = "sending"
                   /\ \E stamp : sending = {Segment(Trace(t, kept), spans, include, stamp)}
             /\ IsState(s2, state.kind, phase, state.aborted, OtherSpans(t, state.todo),
                        state.new, OtherSpans(t, state.taken), sending)

LEMMA TurnCases ==
    ASSUME NEW c \in Calls, NEW state, DOMAIN state = Fields, NEW left, NEW kept,
           Turn(c, state, left, kept),
           NEW t, t = TraceOf(First(state.todo)),
           NEW spans, spans = SpansOf(t, IF state.kind = "export" THEN left ELSE state.taken),
           NEW include, include = TakesTrace(state, kept, t)
    PROVE  \E s2 : /\ call' = [call EXCEPT ![c] = s2]
                   /\ Outcome(state, left, kept, t, spans, include, s2, pending')
<1> USE DEF Outcome
<1>1. CASE state.todo = {}
  <2> DEFINE s2 == [state EXCEPT !.phase = "resolved"]
  <2>1. call' = [call EXCEPT ![c] = s2] /\ pending' = left
    BY <1>1 DEF Turn
  <2>2. IsState(s2, state.kind, "resolved", state.aborted, state.todo, state.new,
                state.taken, state.sending)
    BY DEF IsState, Fields
  <2> HIDE DEF s2
  <2> QED
    BY <2>1, <2>2, <1>1
<1>2. CASE state.todo # {} /\ state.aborted
  <2> DEFINE s2 == [state EXCEPT !.phase = "rejected"]
  <2>1. call' = [call EXCEPT ![c] = s2] /\ pending' = left
    BY <1>2 DEF Turn
  <2>2. IsState(s2, state.kind, "rejected", state.aborted, state.todo, state.new,
                state.taken, state.sending)
    BY DEF IsState, Fields
  <2> HIDE DEF s2
  <2> QED
    BY <2>1, <2>2
<1>3. CASE state.todo # {} /\ ~state.aborted
  <2> DEFINE after == [state EXCEPT !.todo = OtherSpans(t, @), !.taken = OtherSpans(t, @)]
             idle == [after EXCEPT !.phase = "looping"]
             busy(g) == [after EXCEPT !.phase = "sending", !.sending = {g}]
  <2>1. IsState(after, state.kind, state.phase, state.aborted, OtherSpans(t, state.todo),
                state.new, OtherSpans(t, state.taken), state.sending)
    BY DEF IsState, Fields
  <2>2. /\ pending' = IF state.kind = "export" THEN OtherSpans(t, left) ELSE left
        /\ \E stamp : call' = [call EXCEPT ![c] =
              IF include \/ spans # {}
              THEN busy(Segment(Trace(t, kept), spans, include, stamp))
              ELSE idle]
    BY <1>3 DEF Turn
  <2> HIDE DEF after
  <2>3. IsState(idle, state.kind, "looping", state.aborted, OtherSpans(t, state.todo),
                state.new, OtherSpans(t, state.taken), state.sending)
    BY <2>1 DEF IsState
  <2>4. \A g : IsState(busy(g), state.kind, "sending", state.aborted,
                       OtherSpans(t, state.todo), state.new,
                       OtherSpans(t, state.taken), {g})
    BY <2>1 DEF IsState
  <2> HIDE DEF idle, busy
  <2>5. CASE include \/ spans # {}
    <3>1. PICK stamp :
             call' = [call EXCEPT ![c] = busy(Segment(Trace(t, kept), spans, include, stamp))]
      BY <2>2, <2>5
    <3> DEFINE s2 == busy(Segment(Trace(t, kept), spans, include, stamp))
               sending == {Segment(Trace(t, kept), spans, include, stamp)}
    <3>2. IsState(s2, state.kind, "sending", state.aborted, OtherSpans(t, state.todo),
                  state.new, OtherSpans(t, state.taken), sending)
      BY <2>4
    <3>3. call' = [call EXCEPT ![c] = s2] /\ \E u : sending =
             {Segment(Trace(t, kept), spans, include, u)}
      BY <3>1
    <3> HIDE DEF s2, sending
    <3> QED
      BY <3>2, <3>3, <2>2, <1>3
  <2>6. CASE ~include /\ spans = {}
    <3>1. call' = [call EXCEPT ![c] = idle]
      BY <2>2, <2>6
    <3> QED
      BY <3>1, <2>2, <2>3, <2>6, <1>3
  <2> QED
    BY <2>5, <2>6
<1> QED
  BY <1>1, <1>2, <1>3

\* Turn keeps the invariant, given that it holds with the spans and the envelopes the
\* turn is given and with the call under way.
LEMMA TurnStep ==
    ASSUME NEW log, NEW kept, NEW left, NEW calls, NEW gone, NEW stored,
           Inv(log, kept, left, calls, gone, stored),
           NEW c \in Calls, NEW state, DOMAIN state = Fields, state.sending = {},
           state.aborted \in BOOLEAN,
           IsState(calls[c], state.kind, "looping", state.aborted, state.todo, state.new,
                   state.taken, {}),
           Turn(c, state, left, kept),
           \A s : [call EXCEPT ![c] = s] = [calls EXCEPT ![c] = s]
    PROVE  Inv(log, kept, pending', call', gone, stored)
<1> DEFINE t == TraceOf(First(state.todo))
           spans == SpansOf(t, IF state.kind = "export" THEN left ELSE state.taken)
           include == TakesTrace(state, kept, t)
<1>1. PICK s2 : /\ call' = [call EXCEPT ![c] = s2]
                /\ Outcome(state, left, kept, t, spans, include, s2, pending')
  BY TurnCases
<1>2. call' = [calls EXCEPT ![c] = s2]
  BY <1>1
<1>3. /\ calls[c].kind = state.kind /\ calls[c].phase = "looping"
      /\ calls[c].aborted = state.aborted /\ calls[c].todo = state.todo
      /\ calls[c].new = state.new /\ calls[c].taken = state.taken /\ calls[c].sending = {}
  BY DEF IsState
<1>4. include \in BOOLEAN
  <2>1. CASE state.kind = "export"
    <3>1. include = (t \in state.new)
      BY <2>1, Zenon DEF TakesTrace
    <3> QED
      BY <3>1
  <2>2. CASE state.kind # "export"
    <3>1. include = (t \notin TracesOf(kept))
      BY <2>2, Zenon DEF TakesTrace
    <3> QED
      BY <3>1
  <2> QED
    BY <2>1, <2>2
<1>4a. include = TakesTrace(calls[c], kept, t)
  BY <1>3, Zenon DEF TakesTrace
<1> HIDE DEF t, spans, include
<1>5. ASSUME NEW phase \in {"resolved", "rejected"}, pending' = left,
             phase = "resolved" => state.todo = {},
             IsState(s2, state.kind, phase, state.aborted, state.todo, state.new,
                     state.taken, state.sending)
      PROVE  Inv(log, kept, pending', call', gone, stored)
  <2>1. stored \subseteq SentOf(calls, stored)
    BY DEF SentOf
  <2>2. SettlesTo(calls, stored, c, phase, state.aborted, {}, s2, stored)
    BY <2>1, <1>3, <1>5 DEF SettlesTo
  <2>3. Inv(log, kept, left, call', gone, stored)
    BY <2>2, <1>2, Settles
  <2> QED
    BY <2>3, <1>5
<1>6. ASSUME state.todo # {}, NEW phase, NEW sending,
             pending' = IF state.kind = "export" THEN OtherSpans(t, left) ELSE left,
             \/ phase = "looping" /\ sending = {} /\ spans = {} /\ ~include
             \/ /\ phase = "sending"
                /\ \E stamp : sending = {Segment(Trace(t, kept), spans, include, stamp)},
             IsState(s2, state.kind, phase, state.aborted, OtherSpans(t, state.todo),
                     state.new, OtherSpans(t, state.taken), sending)
      PROVE  Inv(log, kept, pending', call', gone, stored)
  <2>1. t = TraceOf(First(calls[c].todo))
    BY <1>3 DEF t
  <2>2. spans = SpansOf(t, IF calls[c].kind = "export" THEN left ELSE calls[c].taken)
    BY <1>3 DEF spans
  <2>3. TurnsTo(calls[c], t, spans, include, kept, left, phase, sending, s2, pending')
    BY <2>1, <2>2, <1>3, <1>4, <1>4a, <1>6 DEF TurnsTo
  <2> QED
    BY <2>3, <1>2, Turns
<1> QED
  BY <1>1, <1>5, <1>6 DEF Outcome

LEMMA InitInv == Init => IInv
<1> SUFFICES ASSUME Init
             PROVE  Inv(handed, traces, pending, call, forgotten, segments)
  BY DEF IInv
<1>1. /\ handed = <<>> /\ traces = {} /\ pending = {} /\ forgotten = {} /\ segments = {}
      /\ call = [c \in Calls |-> Idle]
  BY DEF Init
<1>2. HandedOf(handed) = {} /\ HandedSpans(handed) = {} /\ handed \in Seq(Range(handed))
  BY <1>1, EmptySeq DEF HandedOf, HandedSpans
<1>3. IsState(Idle, "none", "idle", FALSE, {}, {}, {}, {})
  BY DEF Idle, IsState
<1>4. \A c \in Calls : call[c] = Idle
  BY <1>1
<1>5. SentOf(call, segments) = {}
  BY <1>1, <1>3, <1>4 DEF SentOf, IsState
<1>6. Collections(handed, traces, pending)
  BY <1>1, <1>2 DEF Collections
<1>7. CallStates(handed, call)
  <2>1. IsCall(handed, Idle)
    BY <1>3 DEF IsCall, IsState, TracesOf
  <2> QED
    BY <2>1, <1>1 DEF CallStates
<1>8. /\ NothingLost(handed, pending, call, segments) /\ Remembered(handed, traces, forgotten)
      /\ NothingStays(pending, call)
  BY <1>1, <1>2 DEF NothingLost, Remembered, NothingStays
<1>9. Once(handed, pending, call, forgotten, {})
  BY <1>1, <1>3, <1>4 DEF Once, Apart, TracesHanded, Disjoint, IsState
<1> QED
  BY <1>5, <1>6, <1>7, <1>8, <1>9 DEF Inv

-----------------------------------------------------------------------------
LEMMA ExportStep ==
    ASSUME IInv, NEW c \in Calls, NEW items \in Batches, Export(c, items)
    PROVE  IInv'
<1> DEFINE came == Came(handed, items)
           new == {a \in came : IsTrace(a.item)}
           left == pending \union {a \in came : IsSpan(a.item)}
           kept == Keep(traces, new)
           gone == forgotten \union (TracesOf(traces \union new) \ TracesOf(kept))
           state == [Idle EXCEPT !.kind = "export", !.todo = Ready(new, left),
                                 !.new = TracesOf(new)]
           s1 == [kind |-> "export", phase |-> "looping", aborted |-> FALSE,
                  todo |-> Ready(new, left), new |-> TracesOf(new), taken |-> {},
                  sending |-> {}]
           calls == [call EXCEPT ![c] = s1]
<1>1. Arrivals(items) = came
  BY DEF Arrivals, Came
<1>2. /\ call[c].phase = "idle" /\ Turn(c, state, left, kept)
      /\ traces' = kept /\ forgotten' = gone /\ handed' = handed \o items
      /\ segments' = segments
  BY <1>1 DEF Export
<1>3. items \in Seq(Range(items))
  BY ExporterAssumption
<1>4. kept \subseteq traces \union new
  BY DEF Keep, LastOf
<1> HIDE DEF came, kept
<1>5. Inv(handed, traces, pending, call, forgotten, segments)
  BY DEF IInv
<1>6. Inv(handed \o items, kept, left, calls, gone, segments)
  BY <1>2, <1>3, <1>4, <1>5, Receives DEF came
<1>7. IsState(state, "export", "idle", FALSE, Ready(new, left), TracesOf(new), {}, {})
  BY DEF IsState, Idle
<1>8. CallStates(handed, call)
  BY <1>5 DEF Inv
<1> HIDE DEF new, left, gone, state
<1>9. \A s : [call EXCEPT ![c] = s] = [calls EXCEPT ![c] = s]
  BY <1>8 DEF CallStates
<1>10. IsState(calls[c], "export", "looping", FALSE, Ready(new, left), TracesOf(new), {}, {})
  <2>1. calls[c] = s1
    BY <1>8 DEF CallStates
  <2>2. IsState(s1, "export", "looping", FALSE, Ready(new, left), TracesOf(new), {}, {})
    BY DEF IsState
  <2> QED
    BY <2>1, <2>2
<1> HIDE DEF calls
<1>11. /\ DOMAIN state = Fields /\ state.sending = {} /\ state.aborted \in BOOLEAN
       /\ IsState(calls[c], state.kind, "looping", state.aborted, state.todo, state.new,
                  state.taken, {})
  BY <1>7, <1>10 DEF IsState, Fields
<1>12. Inv(handed \o items, kept, pending', call', gone, segments)
  BY <1>2, <1>6, <1>9, <1>11, TurnStep
<1> QED
  BY <1>2, <1>12 DEF IInv

\* A call of any kind that ends may forget the envelopes.
LEMMA ForgetStep ==
    ASSUME NEW c, Forget(c), handed' = handed,
           Inv(handed, traces, pending', call', forgotten, segments')
    PROVE  IInv'
<1>1. CASE traces' = {} /\ forgotten' = forgotten \union TracesOf(traces)
  BY <1>1, Forgets DEF IInv
<1>2. CASE traces' = traces /\ forgotten' = forgotten
  BY <1>2 DEF IInv
<1> QED
  BY <1>1, <1>2 DEF Forget

LEMMA FlushStep ==
    ASSUME IInv, NEW c \in Calls, NEW kind \in {"flush", "shutdown"}, Flush(c, kind)
    PROVE  IInv'
<1> DEFINE state == [Idle EXCEPT !.kind = kind, !.taken = pending, !.todo = FirstOf(pending)]
           s1 == [kind |-> kind, phase |-> "looping", aborted |-> FALSE,
                  todo |-> FirstOf(pending), new |-> {}, taken |-> pending, sending |-> {}]
           calls == [call EXCEPT ![c] = s1]
<1>1. /\ call[c].phase = "idle" /\ Turn(c, state, {}, traces)
      /\ Forget(c) /\ handed' = handed /\ segments' = segments
  BY DEF Flush
<1>2. Inv(handed, traces, pending, call, forgotten, segments) /\ CallStates(handed, call)
  BY DEF IInv, Inv
<1>3. Inv(handed, traces, {}, calls, forgotten, segments)
  BY <1>1, <1>2, TakesAll
<1>4. IsState(state, kind, "idle", FALSE, FirstOf(pending), {}, pending, {})
  BY DEF IsState, Idle
<1> HIDE DEF state
<1>5. \A s : [call EXCEPT ![c] = s] = [calls EXCEPT ![c] = s]
  BY <1>2 DEF CallStates
<1>6. IsState(calls[c], kind, "looping", FALSE, FirstOf(pending), {}, pending, {})
  <2>1. calls[c] = s1
    BY <1>2 DEF CallStates
  <2>2. IsState(s1, kind, "looping", FALSE, FirstOf(pending), {}, pending, {})
    BY DEF IsState
  <2> QED
    BY <2>1, <2>2
<1> HIDE DEF calls
<1>7. /\ DOMAIN state = Fields /\ state.sending = {} /\ state.aborted \in BOOLEAN
      /\ IsState(calls[c], state.kind, "looping", state.aborted, state.todo, state.new,
                 state.taken, {})
  BY <1>4, <1>6 DEF IsState, Fields
<1>8. Inv(handed, traces, pending', call', forgotten, segments)
  BY <1>1, <1>3, <1>5, <1>7, TurnStep
<1> QED
  BY <1>1, <1>8, ForgetStep

LEMMA LoopStep ==
    ASSUME IInv, NEW c \in Calls, Loop(c)
    PROVE  IInv'
<1>1. /\ call[c].phase = "looping" /\ Turn(c, call[c], pending, traces)
      /\ Forget(c) /\ handed' = handed /\ segments' = segments
  BY DEF Loop
<1>2. /\ Inv(handed, traces, pending, call, forgotten, segments)
      /\ IsCall(handed, call[c])
  BY DEF IInv, Inv, CallStates
<1>3. /\ DOMAIN call[c] = Fields /\ call[c].sending = {} /\ call[c].aborted \in BOOLEAN
      /\ IsState(call[c], call[c].kind, "looping", call[c].aborted, call[c].todo,
                 call[c].new, call[c].taken, {})
  BY <1>1, <1>2 DEF IsCall, IsState, Fields
<1>4. Inv(handed, traces, pending', call', forgotten, segments)
  BY <1>1, <1>2, <1>3, TurnStep
<1> QED
  BY <1>1, <1>4, ForgetStep

\* A call whose state is s2 after a step in which it settles.
LEMMA SettleStep ==
    ASSUME IInv, NEW c \in Calls, NEW phase, NEW aborted, NEW sending, NEW s2,
           SettlesTo(call, segments, c, phase, aborted, sending, s2, segments'),
           call' = [call EXCEPT ![c] = s2], pending' = pending, handed' = handed
    PROVE  Inv(handed, traces, pending', call', forgotten, segments')
<1>1. Inv(handed, traces, pending, call, forgotten, segments)
  BY DEF IInv
<1>2. Inv(handed, traces, pending, call', forgotten, segments')
  BY <1>1, Settles
<1> QED
  BY <1>2

LEMMA StateOfCall ==
    ASSUME IInv, NEW c \in Calls
    PROVE  /\ call = [d \in Calls |-> call[d]]
           /\ DOMAIN call[c] = Fields /\ call[c].aborted \in BOOLEAN
           /\ call[c].phase = "looping" => call[c].sending = {}
           /\ call[c].phase = "sending" => \E g : call[c].sending = {g}
           /\ call[c].sending \subseteq SentOf(call, segments)
           /\ segments \subseteq SentOf(call, segments)
<1>1. CallStates(handed, call)
  BY DEF IInv, Inv
<1>2. IsCall(handed, call[c])
  BY <1>1 DEF CallStates
<1>3. call[c].sending \subseteq SentOf(call, segments) /\ segments \subseteq SentOf(call, segments)
  BY DEF SentOf
<1> QED
  BY <1>1, <1>2, <1>3 DEF CallStates, IsCall, Fields

LEMMA AbortStep ==
    ASSUME IInv, NEW c \in Calls, Abort(c)
    PROVE  IInv'
<1> DEFINE s2 == [call[c] EXCEPT !.aborted = TRUE]
<1>1. /\ call[c].phase \in {"looping", "sending"}
      /\ pending' = pending /\ handed' = handed /\ traces' = traces
      /\ forgotten' = forgotten /\ segments' = segments
  BY DEF Abort
<1>2. call' = [call EXCEPT ![c] = s2]
  BY StateOfCall DEF Abort
<1>3. IsState(s2, call[c].kind, call[c].phase, TRUE, call[c].todo, call[c].new,
              call[c].taken, call[c].sending)
  BY StateOfCall DEF IsState, Fields
<1> HIDE DEF s2
<1>4. SettlesTo(call, segments, c, call[c].phase, TRUE, call[c].sending, s2, segments')
  BY <1>1, <1>3, StateOfCall DEF SettlesTo
<1>5. Inv(handed, traces, pending', call', forgotten, segments')
  BY <1>1, <1>2, <1>4, SettleStep
<1> QED
  BY <1>1, <1>5 DEF IInv

LEMMA CommitStep ==
    ASSUME IInv, NEW c \in Calls, Commit(c)
    PROVE  IInv'
<1> DEFINE s2 == [call[c] EXCEPT !.phase = "looping", !.sending = {}]
<1>1. /\ call[c].phase = "sending"
      /\ pending' = pending /\ handed' = handed /\ traces' = traces
      /\ forgotten' = forgotten
  BY DEF Commit
<1>2. PICK g \in call[c].sending : segments' = segments \union {g}
  BY DEF Commit
<1>3. call' = [call EXCEPT ![c] = s2]
  BY StateOfCall DEF Commit
<1>4. IsState(s2, call[c].kind, "looping", call[c].aborted, call[c].todo, call[c].new,
              call[c].taken, {})
  BY StateOfCall DEF IsState, Fields
<1> HIDE DEF s2
<1>5. call[c].sending = {g}
  BY <1>1, StateOfCall
<1>6. SettlesTo(call, segments, c, "looping", call[c].aborted, {}, s2, segments')
  BY <1>1, <1>2, <1>4, <1>5, StateOfCall DEF SettlesTo
<1>7. Inv(handed, traces, pending', call', forgotten, segments')
  BY <1>1, <1>3, <1>6, SettleStep
<1> QED
  BY <1>1, <1>7 DEF IInv

LEMMA ThrowStep ==
    ASSUME IInv, NEW c \in Calls, Throw(c),
           segments \subseteq segments', segments' \subseteq segments \union call[c].sending
    PROVE  IInv'
<1> DEFINE s2 == [call[c] EXCEPT !.phase = "rejected"]
<1>1. /\ call[c].phase = "sending" /\ Forget(c)
      /\ pending' = pending /\ handed' = handed
  BY DEF Throw
<1>2. call' = [call EXCEPT ![c] = s2]
  BY StateOfCall DEF Throw
<1>3. IsState(s2, call[c].kind, "rejected", call[c].aborted, call[c].todo, call[c].new,
              call[c].taken, call[c].sending)
  BY StateOfCall DEF IsState, Fields
<1> HIDE DEF s2
<1>4. segments' \subseteq SentOf(call, segments)
  BY StateOfCall
<1>5. SettlesTo(call, segments, c, "rejected", call[c].aborted, call[c].sending, s2, segments')
  BY <1>1, <1>3, <1>4, StateOfCall DEF SettlesTo
<1>6. Inv(handed, traces, pending', call', forgotten, segments')
  BY <1>1, <1>2, <1>5, SettleStep
<1> QED
  BY <1>1, <1>6, ForgetStep

LEMMA NextInv == IInv /\ [Next]_vars => IInv'
<1> SUFFICES ASSUME IInv, [Next]_vars
             PROVE  IInv'
  OBVIOUS
<1>1. CASE UNCHANGED vars
  BY <1>1 DEF vars, IInv
<1>2. ASSUME NEW c \in Calls, NEW items \in Batches, Export(c, items)
      PROVE  IInv'
  BY <1>2, ExportStep
<1>3. ASSUME NEW c \in Calls, NEW kind \in {"flush", "shutdown"}, Flush(c, kind)
      PROVE  IInv'
  BY <1>3, FlushStep
<1>4. ASSUME NEW c \in Calls, Loop(c)
      PROVE  IInv'
  BY <1>4, LoopStep
<1>5. ASSUME NEW c \in Calls, Abort(c)
      PROVE  IInv'
  BY <1>5, AbortStep
<1>6. ASSUME NEW c \in Calls, Commit(c)
      PROVE  IInv'
  BY <1>6, CommitStep
<1>7. ASSUME NEW c \in Calls, Refuse(c)
      PROVE  IInv'
  BY <1>7, ThrowStep DEF Refuse
<1>8. ASSUME NEW c \in Calls, Fail(c)
      PROVE  IInv'
  <2>1. Throw(c) /\ segments' \in {segments, segments \union {s \in call[c].sending : Accepts(s)}}
    BY <1>8 DEF Fail
  <2>2. segments \subseteq segments' /\ segments' \subseteq segments \union call[c].sending
    BY <2>1
  <2> QED
    BY <2>1, <2>2, ThrowStep
<1> QED
  BY <1>1, <1>2, <1>3, <1>4, <1>5, <1>6, <1>7, <1>8 DEF Next

\* The invariant holds in every state the exporter and the service can reach.
THEOREM Invariance == Spec => []IInv
<1>1. Init => IInv
  BY InitInv
<1>2. IInv /\ [Next]_vars => IInv'
  BY NextInv
<1> QED
  BY <1>1, <1>2, PTL DEF Spec

-----------------------------------------------------------------------------
\* The properties.

LEMMA HandedIsHandedOf == Handed = HandedOf(handed)
BY DEF Handed, HandedOf

\* A span that was handed over is stored, buffered, or in the hands of a call that is
\* under way or was rejected: at no point of an export, a flush or a shutdown, whose
\* calls overlap and throw at any await, does a span get lost while everybody resolves.
THEOREM NothingIsLostQuietly == Spec => []NothingLostQuietly
<1>1. IInv => NothingLostQuietly
  <2> SUFFICES ASSUME IInv, NEW a \in Handed, IsSpan(a.item), a \notin pending, ~InHistory(a.item)
               PROVE  \E c \in Calls : call[c].phase # "resolved" /\ InHand(c, a)
    BY DEF NothingLostQuietly
  <2>1. ~\E s \in segments : \E r \in Range(s.records) : r.content = a.item
    BY DEF InHistory, RecordsOf
  <2>2. PICK c \in Calls :
           /\ call[c].phase # "resolved"
           /\ \/ a \in call[c].taken
              \/ \E s \in call[c].sending : \E r \in Range(s.records) : r.content = a.item
    BY <2>1, HandedIsHandedOf DEF IInv, Inv, NothingLost
  <2>3. InHand(c, a)
    BY <2>2 DEF InHand, RecordsOf
  <2> QED
    BY <2>2, <2>3
<1> QED
  BY <1>1, Invariance, PTL

\* A span waits in the buffer only for an export that has its trace to do, or that was
\* rejected before it came to it: a span whose trace never comes is sent, not kept.
THEOREM NothingIsHeldBack == Spec => []NothingStaysBuffered
<1>1. IInv => NothingStaysBuffered
  BY DEF IInv, Inv, NothingStays, NothingStaysBuffered, Live
<1> QED
  BY <1>1, Invariance, PTL

\* A span handed over after the one envelope of its trace is stored in the conversation
\* that envelope names, by whichever call, unless the envelope was forgotten.
THEOREM SpansAreFiled == Spec => []SpansFollowTheirTrace
<1>1. IInv => SpansFollowTheirTrace
  <2> SUFFICES ASSUME IInv, NEW s \in segments, NEW r \in Range(s.records),
                      NEW i \in DOMAIN handed, NamesTheGroup(i), handed[i].id \notin forgotten,
                      ~IsTraceRecord(r), r.content.trace = handed[i].id,
                      \A j \in 1..i : handed[j] # r.content
               PROVE  s.conversation = handed[i].group
    BY DEF SpansFollowTheirTrace
  <2>1. Follows(handed, forgotten, s)
    BY DEF IInv, Inv, SentOf
  <2>2. NamesGroup(handed, i)
    BY DEF NamesGroup, NamesTheGroup
  <2> QED
    BY <2>1, <2>2 DEF Follows
<1> QED
  BY <1>1, Invariance, PTL

\* As long as the SDK hands everything over once and in order, and no envelope is
\* forgotten, no record is in two segments, however calls overlap, abort and fail.
THEOREM EachIsStoredOnce == Spec => []StoredOnce
<1>1. IInv => StoredOnce
  <2> SUFFICES ASSUME IInv, Orderly, forgotten = {},
                      NEW s \in segments, NEW u \in segments, s # u
               PROVE  s.id \intersect u.id = {}
    BY DEF StoredOnce
  <2>1. InOrderOnce(handed)
    BY DEF Orderly, InOrderOnce
  <2>2. Disjoint(SentOf(call, segments)) /\ segments \subseteq SentOf(call, segments)
    BY <2>1 DEF IInv, Inv, Once, SentOf
  <2> QED
    BY <2>2 DEF Disjoint
<1> QED
  BY <1>1, Invariance, PTL

=============================================================================
