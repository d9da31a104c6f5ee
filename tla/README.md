# Farfield, specified

TLA+ models of Farfield (`src/`), the TLC runs that check them on small
instances and the theorems TLAPS proves about them for all instances.

Farfield records the history of conversations with AI agents. An object store
(a directory, S3 or GCS) is its only durable authority: records live in
immutable *segments*, larger contents in content-addressed *blobs*, and all the
rest (the conversation list, the search index) is a view that can be thrown
away. Several processes may serve one store without any coordination but the
store's atomic create-if-absent. Clients of three languages send captures over
HTTP, directly or through a background processor.

## 1. Inventory

| Component | State it keeps | Operations | What is hard | What makes it correct |
|---|---|---|---|---|
| History append (`history/segment.go`, `history.go`, `record.go`) | none of its own; blobs, segments and deltas in the store | `Append`, `AppendBatch` | three writes with a crash, a lost reply or another writer between any two; ids and times made up per attempt | a visible segment is complete and never changes; an acknowledgement is true; retries converge on one segment |
| Conversation projection (`history/conversation_projection.go`) | per process: loaded view, applied delta keys, counters, last refresh; in the store: deltas, snapshots | `append`, `conversations` (load, refresh, snapshot), `rebuild` | deltas met twice (own append, LIST, snapshot, rebuild), processes that do not know of each other | every source counted once, own writes seen, other writers' seen eventually, nothing recovered is lost again |
| Search index (`history/search.go` 1-415, 852-986) | per process: documents, marked sources, flags of two goroutines, two mutexes; a cache file | `Search`, `observeSegment`, `refreshAsync`, `RebuildSearchIndex`, `persistAsync` | memory changes between the network steps of a synchronization; crash and restart from the cache file | marks agree with documents; a synchronization leaves nothing out; everything committed gets searchable |
| Search queries (`history/search.go` 417-850) | none | parse, match, score, snippet | boundary cases of pure functions | agreement with a reference definition |
| History reads (`history/history.go`, `query.go`) | none | `ReadRecord`, `ReadContent`, `Query`, `Timeline`, `Verify` | many reads while appends go on; a comparator over times that may be absent | a reader never sees a segment without its contents; one order of records |
| Sealing (`record.go`, `segment.go`, `internal/canonicaljson`) | none | seal, verify hashes | - | a hash is a function of what it seals |
| Storage (`storage/`) | objects | `PutIfAbsent`, `Get`, `List` | concurrent creates, lost replies, crash before a rename | one winner per key, the same bytes again are no conflict |
| HTTP server (`server/`) | none | one handler per endpoint | which failure becomes which status | clients retry what may be retried |
| OTLP ingest (`ingest/otlp/`, `server/otlp.go`) | none | `Export` | partial success of an export, its retry | a retried export stores nothing twice |
| Go processor (`sdk/go/processor.go`) | queue, counters, closed flag, a wake-up channel | `Submit`, worker, `Flush`, `Shutdown` | goroutines over one mutex and two channels | no admitted capture is lost or miscounted, order per conversation, flush is a boundary, everyone returns |
| TypeScript processor (`sdk/typescript/src/processor.ts`) | queue, timer, the drain under way, counters, closed flag | `submit`, the drain, `flush`, `shutdown` | `submit` awaits a hook while everything else goes on; calls that loop over a drain others started | a flush that answers true is a boundary, order per conversation, nothing queued is forgotten, everyone is answered |
| Python processor (`sdk/python/.../_processor.py`) | the same, over a condition variable | the same | the same | the same |
| Clients (`sdk/*/client`) | none | capture, batch, query, with retries | a retry of what was already done | one effect per id |
| OpenAI Agents exporter (`sdk/*/integrations/openai-agents`) | envelopes of traces (a bounded cache), spans not sent, counters | `export`, `flush`, `shutdown` | calls overlap and take each other's spans, which leave the buffer before they are stored; a cache at its limit | no span lost without an error, each in the conversation its trace names, none stored twice |
| Claude hooks (`sdk/*/integrations/claude-agent-sdk`) | none | one capture for a hook call | what the hooks do not say | a session can be read from what they capture |
| Inspector, page (`server/ui/src/app.tsx`) | the list, the selected session, its entries, requests under way | select, refresh, retry | answers in any order, of requests that were superseded | what is shown as a session is that session |
| Inspector, session (`components/trace-inspector.tsx`, `conversation-review.tsx`, `lib/*`) | view, focus, density, query, selected operation | filter, click, keys, suggestions, opening evidence | grouping of records that keep arriving; a query that is being typed | every record once in each view, results with their calls, failures visible, evidence stays open |
| CLI, store selection, examples | none | | | |

How they interact. A client or processor posts a batch; the server calls
`AppendBatch`, which writes blobs, then the segment, then the projection delta,
and hands the segment to the search index of its process. Lists and searches
are answered from memory, refreshed from LIST calls of the store at most once a
second. Nothing in the store is ever changed or deleted by Farfield. Frameworks
reach a client through the integrations, whose records the inspector reads back
over HTTP as one timeline per session and groups again.

PROJECT.json lists the components with their status and, under `hazards`, what
in this code a test would hardly reach, with the properties that watch it.

## 2. Plan

The order is that of importance. Done are 1 to 3, the Go and TypeScript parts
of 4, 5 to 7.

1. **HistoryAppend**, refining **ImmutableHistory**: the write path, the most
   important promise of the system. Proved.
2. **ConversationProjection**: the view each process keeps. Proved.
3. **SearchIndex**: the index each process keeps. Proved.
4. **GoProcessor**, **TsProcessor** (which refines **BackgroundDelivery**; proved),
   then **PyProcessor**.
5. **CaptureDelivery**: a capture from the application through a client with
   retries to a server whose handlers outlive the client's patience. Proved.
6. **OpenAIExporter**: the adapter that keeps state between callbacks.
7. From a captured session to the screen: **ClaudeHooks** and
   **SessionTimeline** (who makes the records), **TraceOperations** (how they are
   grouped), **TimelineFilter** (how they are searched), **HistoryApp** and
   **Inspector** (the page and what its user does).
8. **HistoryReads**, over HistoryAppend: `ReadRecord`, `Query` and `Verify`
   step by step while appends go on.
9. **OtlpExport**: stable ids, partial success and retried exports.
10. **ConditionalPut**, the three adapters' `PutIfAbsent` shown to implement the
    one action HistoryAppend uses.
11. Pure functions: **SearchQuery** (phrases, intersections, filters),
    **RecordOrder** (the comparator of `listRecords` and `Query`, which compares
    sequence numbers only when both records have one; the rest of it, instants and
    then random ids, is `PlacesAt` of SessionTimeline).
12. The Python integrations, which keep the same state under a lock.

## 3. Modules

### HistoryAppend, ImmutableHistory

A *caller* is one logical append with all its retries; `request[c]` is the batch
it sends each time. `pc[c]`, `segment[c]` and `done[c]` are where its current
attempt is; `blobs`, `segments`, `deltas` are the store. Each action is the code
between two store calls:

| Action | Code |
|---|---|
| `Start`, `Reject` | `AppendBatch` up to its first write: checks, ids and times made up, records and segment sealed |
| `PutBlob` | one `PutIfAbsent` of the loop over blobs |
| `PutSegment`, `SegmentConflict` | the segment's `PutIfAbsent`, accepted or refused |
| `AdoptExisting`, `RefuseReuse` | the read after a conflict and `sameBatch` |
| `PutDelta` | `projectSource` and the reply |
| `Interrupt`, `...ReplyLost` | a store error, a cancellation or a crash; a write that took effect although its caller saw an error |

Contents stand for their digests, so equal contents are one blob. A caller's
`External` set is the inline limit of its process: two processes may seal the
same batch differently. Generated ids are fresh (`BatchAssumption`): the code
draws 128 random bits.

ImmutableHistory knows no blobs, attempts or crashes: segments appear complete
and stay, a list mentions committed ones, answers are true. HistoryAppend
implements it under the mapping at its end, where a record whose blob is missing
maps to one no reader can read.

### ConversationProjection

Any number of processes over one store. A view's sums are abstracted to
`tally[p][s]`, how often source *s* is in them; `applied[p]` are the marked
keys, which the code keeps apart, so that the two can disagree. The holder of
the process's mutex moves through `mode[p]`, one store call per step, in the
order of `conversations`: `Read`, `LoadSnapshot` or `LoadNothing`, `ListDeltas`,
`ApplyListed`, `WriteSnapshot`, `Reply`; `Scan` and `InstallScan` are `rebuild`.
Appends write to the store without the mutex and take it to apply their own
delta. A snapshot's name orders it by the number of keys it reduces; among equal
numbers any one may be taken, as clocks of different processes decide. `Tick` is
the passing of the second for which a view counts as fresh. A second refresh
in the same hold of the mutex cannot happen and is not modelled.

### SearchIndex

One process, since indexes never meet; `OtherWriter` is all the others. The
holder of `refreshMu` (a search that opens the index, the refresh goroutine, a
rebuild or the persist goroutine) goes through `list`, `compare`, `wipe`,
`fetch`/`refetch` and `write`; appends and searches run between these steps,
as `mu` is held only for each access. Documents of a source are counted in
`copies[s]`, apart from the mark in `sources`, as in the code, where documents
are appended to a slice. Postings and scores are functions of the documents.

### GoProcessor

Each event has a goroutine that submits it, each waiter calls `Flush` or (chosen
at the start, as the overflow policy is) `Shutdown`. `mu` matters only while a submitter keeps it over a
blocked channel send; every other section under it is one step. `Take` and
`Collected` are the worker's collection (the timer may fire at any time),
`Send`, `Count` and `Notify` one group of `deliver`: `groups[c]` are the events of
conversation *c* in the batch, in their order, which is all that shows of the
order of a batch. Contexts are never done:
what a deadline would do is return an error to one caller. What a capture
contains does not matter, only its conversation.

### TsProcessor, BackgroundDelivery

One event loop, so an action is what runs between two awaits. `submit[e]` is
where the `submit` of event *e* is and then what became of it; `log` is everything
admitted (its length is `stats.enqueued`), `queue` and `batch` are its end;
`left` are the conversations of the batch that are not settled, and `call[w]` is
where a `flush` or `shutdown` is.

| Action | Code |
|---|---|
| `Submit` | `submit` up to its await of `prepareEvent` |
| `Reject`, `DropEvent`, `TurnAway`, `Admit` | what follows it: no conversation, `beforeSend` says no, closed or full meanwhile, queued (`Join`: a full batch is sent at once, else `#schedule`) |
| `TimerFires`, `Drain` | `#schedule`'s timer; `#drain` and `#deliverNext` up to the first request |
| `Deliver`, `FailToDeliver`, `Observed` | one conversation of the batch is stored; is not, and `onError` is awaited; has been |
| `EndDrain` | the `finally` of `#drain` and the calls that awaited it |
| `Flush`, `Shutdown`, `ShutdownAgain`, `Resume` | the calls, and one round of flush's loop |

Continuations run before timers and sockets, hence `Quiet`. Events and calls are
numbered in the order in which they come; which of several preparations ends
first does not show, so they end in order of their numbers.

BackgroundDelivery says what a background processor promises, without queue,
batch or timer: an event is settled once, those of a conversation in order, none
is admitted after the close, and a call that answers true has every event
admitted before it delivered. `owed[w]` is what a call still waits for; no code
keeps it, and TsProcessor carries it only so that the two can be compared.

### OpenAIExporter

A *call* is one `export`, `flush` or `shutdown` of the exporter; its state is
kept in `call[c]` from one await to the next, the exporter's own in `traces` and
`pending`. `Turn` is one round of the loop of `export` or `flush` up to
`commitBatch`; `Commit`, `Refuse` and `Fail` are how that ends, and `Abort` is
the caller's signal. The service is `segments` with `Accepts`, which is what
HistoryAppend makes of a segment whose id is taken. `handed` and `forgotten` are
history: what was handed over, and whose envelope was dropped. A member of
`traces` or `pending` is an *arrival*, the item with the number of its coming:
the Maps and arrays of the code are in the order in which their members came,
so they are sets here (`InOrder`, `FirstOf`, `LastOf` give the order back), and
the eviction of the oldest envelopes, one at a time in the code, is `Keep`. The
payload of an item stands for what a record is made from; the clock gives a stamp to what has
no start time.

### ClaudeHooks, SessionTimeline, TraceOperations

SessionTimeline lets a session be captured record by record by one of three
makers: the hooks (`EventFromHook` of ClaudeHooks), an application that calls the
client as `docs/` shows, or the demo generator. `tools[u]` is what the run *u* of
a tool is doing, which is nobody's state but the agent's; `MaxMissed` hook calls
may capture nothing. `now` is the clock in milliseconds, which may stand still from
one record to the next; `Captured` stamps a record with it before the request is
made, as `prepareEvent` does, and the record is then either in the timeline at once
or `late`, for as long as its request is overtaken by others or repeated, until it
`Arrives`. The timeline is sorted as `listRecordsWithSegments` sorts it: a record
`Lands` at any of `PlacesAt`, between those that happened before and those that
happened after, and anywhere among those of the same instant, since their ids are
random. A batch or segment that becomes visible at once is a special case of its
records landing one after the other, with a property looked at between them. Left out
are instants and sequence numbers given by the application (the hooks and the
documented calls give none), clocks that step back or differ between processes, and
two late records that are alike in every field. The demo makes up its records in
order, each at its own instant. TraceOperations holds the pure functions of
`trace-operations.ts`, `conversation-review.ts` and `history.ts`: an operation
and a block name their records by position, so that the grouping can be compared
with who made the records. The loop over records with its set `consumed` is the
recursive function `Consumed`, whose step is `Looked`; what the code pushes to a list
as it goes is `Places`, the members of a set of positions in their order.

### HistoryApp, Inspector, TimelineFilter

HistoryApp is `app.tsx`: the list, the selected session and the two effects that
fetch. A session is stored as a number of records, and a request is read by the
server (`ListRead`, `TimelineRead`) some time between its start and its answer.
A request that is superseded is aborted and leaves the set of requests; that its
`finally` still clears the loading flag is in `LoadConversations` and
`LoadTimeline`. `Select` and `Refresh` are the user, `Grow` is somebody who
appends.

Inspector adds the inspector of the selected session: `view` is what the URL
keeps, `operationID` the operation clicked, and each control is an action whose
new view is computed from the records that are there. `AppStep` is a step of the
page under it, which may drop the selection or mount a new inspector. `opened`
is history: the record opened from the review. TimelineFilter is
`timeline-filter.ts` with the additions to a query that the inspector makes
(`addFilter`, `applySuggestion`). A text there is a sequence of pieces, so that
quotes, spaces, colons and stars are told apart and words are not spelt.

### CaptureDelivery

A *call* is a capture an application wants, with all the turns in which it calls
the SDK for it. A turn prepares a body once (`Prepared`, `Capture`) and makes
attempts with that body (`Resend`) until it is answered or `MaxRetries` are used
up. `request[c]` is the sequence of all requests sent for the call: each is
handled on its own, so one that its client has given up (`Timeout`) may still be
on its way, or half done, when its successor is answered. A handler is
`Refuse`, `Conflict`, or `Commit` followed by `Project`; `AppendBatch` is modelled
in full by HistoryAppend and is here the two steps between which a failure
leaves a committed segment unlisted. A request that is answered and read, or
lost, becomes `Gone`.

| Action | Code |
|---|---|
| `Capture` | `Capture`, `CapturePreparedBatch` of the clients, up to the first attempt |
| `Receive` | the answer: success, an error, or a status that is worth another attempt |
| `Disconnect`, `Timeout` | the transport error branch, when the request is lost, and when it is not |
| `Truncated` | an answer whose body breaks off: an error at once in Go, another attempt in TypeScript and, after a reset, in Python (`Rereading`) |
| `Cancel` | the caller's context or signal, while an answer or a pause is awaited |
| `StoreFails` | a store call of the handler fails, having taken effect or not |
| `Unavailable`, `Vanish`, `Abandon` | a proxy's answer, a loss, a handler whose context is cancelled |

An id and a time stand for all that the SDK fills in when the application does
not. What the client decides alone (a hook that drops the capture, input it
refuses) sends nothing and is left out. `Status` keeps of `writeDomainError` the
errors an append can end in; that it maps failed writes to 422, which clients do
not send again, is why an application that repeats its call is part of the
model.

The `MC` modules define small instances; every definition that serves as a
planned deviation of the code, used to see that a property can fail, is
introduced by a comment "Mutant of".

## 4. Runs

| Run | Instance | What it shows |
|---|---|---|
| `append` | 2 callers, each choosing among eight batches (one, the same with an id left out, its segment id reused with other contents, a generated segment id, single records, two refused ones); two clock readings, two inline limits, 2 faults | all safety properties, the refinement, and that everyone is answered and committed batches get projected |
| `projection_safety` | 2 processes, 2 sources, threshold 1, 1 failure, 1 crash, 1 rebuild | nothing counted twice or invented, own writes are read |
| `projection_live` | 2 processes, 1 source, 1 of each trouble | external writes appear |
| `search_sync` | 2 segments, 1 client, cache, any 2 troubles (failure, crash, rebuild) | marks and documents agree everywhere, synchronizations are complete; committed gets searchable, searches end |
| `go_processor` | 3 events of 2 conversations, queue 1, batch 2, either overflow policy, a waiter that flushes or shuts down, 1 failed delivery | counters, order, shutdown; flush is a boundary while one conversation is served; a dropping processor answers its waiter |
| `capture_delivery` | 2 calls with one id in common, one without an id, other content, malformed content; 1 retry, 3 turns, 2 clock readings, 2 failures of network or store | answers are true, one segment for a capture, a repeated capture is repaired |
| `ts_processor` | 4 submits of 2 conversations, 2 calls of flush or shutdown, queue 2, batch 2, a hook that may drop, 1 failed delivery | nothing queued is forgotten; BackgroundDelivery; every call is answered |
| `openai_exporter` | 3 overlapping calls over five possible batches of 3 traces and 3 spans, a cache of 2, aborts, drops, 1 failed request | no span lost without a rejected call or left in the buffer, each in its conversation, none stored twice |
| `session_timeline` | 2 runs of one tool and 1 of another, sessions of 4 records, any of them sharing a millisecond, 1 late at a time, 1 missed hook; 3 demo sessions of up to 16 records | every record in one operation and one block, results with their calls unless runs overlap or share an instant, failures visible, pairs stay unless a record is put before the result |
| `inspector` | 2 sessions of 5 and 1 records, each still growing by one, 1 selection or refresh, 1 failed request, 2 steps in the inspector with 4 queries | the last selection wins, opened evidence stays open, a filter of the shown value keeps its operation |

Two more runs, `go_blocked` and `exporter_repeat`, end in a counterexample and
are described in section 6.

The bounds. Two writers of one key are enough for every race on it, since a key
is decided by its first write and a later caller meets the same committed
segment the second one meets; two faults let one caller fail, retry and fail
again, or each fail once. A projection needs two processes for external writes
and for competing snapshots, and two sources for snapshots of different sizes
and for a list that lacks one. Two segments let one be appended while the other
is fetched, and two troubles let a crash follow a failed write of the cache, or
a rebuild follow a crash. For the processor, three events fill a batch of two
and leave one behind, and two conversations are what regroups a batch. For a delivery, one retry and
two failures give a call two requests of which either or both fail, and three
turns let the application outlast both failures, one turn each; its repairs
would otherwise fail only for want of a turn. For the TypeScript processor, a
batch of two leaves two of four events behind it, queued while it is under way,
and two calls let a flush meet a shutdown. The exporter needs three calls for one
of them to lose what another was about to resolve with, and three traces to fill
a cache of two. Four records hold two runs of one tool, complete, or one of each tool
at the same time, and a late one among them can be put anywhere; the theorems about
sessions have neither bound. The demo's sessions, which go through the longer patterns, have up
to sixteen. Two steps in the inspector are one that sets up a view, a query or a
selection and the one that is asked about, with the page refreshed or changed
between or after them; each of the properties is about the last such step. Where a
bound might hide something, the theorems of section 5 have none.

The processor, append and delivery runs stop when all is done, so they allow deadlock; a
submitter stuck for ever is looked for by the liveness properties instead.
So do the exporter, the sessions and the inspector, which only the bounds on
their inputs stop, and the TypeScript processor once every event is settled.
Symmetry is used only in safety runs: in the projection over processes, and over
calls renamed together with the sources they append; in the exporter over calls;
in the sessions over the runs of the same tool. Nothing depends on their names.

Fairness. `HistoryAppend`: a request runs, and a client that saw a failure
sends it again, which the SDKs do and an append without a retry never needs;
faults are bounded and owe nothing. `ConversationProjection` and `SearchIndex`:
goroutines run, Go's mutexes are granted to all who wait (hence strong fairness
of what needs one), a second passes, and somebody keeps listing or searching,
which is what the promise of freshness is conditional on. `GoProcessor`: the
worker, a blocked submitter and a waiter that has begun run on; nobody has to
submit or to call Flush. `TsProcessor`: the event loop runs a timer that is due
and a continuation that is ready, requests and hooks end, and so does `onError`
(which therefore must not await `flush` itself: with a call in `Observers`,
`FlushesEnd` fails). The exporter, the sessions and the inspector are checked for
safety alone and assume no fairness. `CaptureDelivery`: a client goes on, as its timeout and
its pauses end; a request that has arrived is handled, as each has a goroutine
of its own; and an application that is told of a failure calls again, which is
what the promise of repair asks of it. Nothing makes a network or a store fail.

## 5. Theorems

Each proof module is named after the module it is about; all theorems hold for
all constants that meet the named assumptions.

*HistoryAppend.* None of the safety properties is inductive alone: that a
committed segment's blobs exist depends on what the attempt that is about to
commit it has stored. The invariant adds what an attempt in hand guarantees:
its segment was built from its request, the entries it has seen to are
stored, one that is projecting holds the committed segment, each key has one
segment and one delta. From it follow `TypeCorrect`, `ContentIsDurable`,
`ProjectionMatches`, `AckIsDurable`, `AcksAlwaysAgree` and
`ConflictsAreReadable`; `Refinement` maps every
step to a step of ImmutableHistory or to a stutter, using that a committed
segment is readable in full from its first moment and so never changes for a
reader.

*ConversationProjection.* The invariant adds `StoreOrder` (a delta is written
after its segment; what a refresh has in hand is history), `HolderState` (a scan
covers the view it replaces, because applied sources are committed and the mutex
is held from the scan to the install) and `OwnInView` (an acknowledged append is
in the view, or in the list that will be applied before the reply).
`NothingCountedTwice`, `ViewsAreHistory`, `OwnWritesAreRead`, `ViewsGrow` follow.

*SearchIndex.* The invariant is `TypeOK`, `EachAgrees` (a mark and the documents
of its source agree, in memory and in the cache file) and `SyncState`: what a
synchronization has listed is committed, and after the comparison each listed
source is marked or still to be fetched. A step of an append or a search between
two steps of the synchronization can only add marks and documents of committed
sources, which is why `SyncState` survives it. `MarksAreTrue` and
`SynchronizationsAreComplete` follow.

*CaptureDelivery.* A conflict is real only if no body sent for a call can stand in
the way of a later one under a generated id, so the invariant follows ids.
`RequestState` says of each request that its body bears an id of its call, given
or generated in a turn that has begun, and that what it was answered is true of
the store; `StoreState` the same of committed segments, and that an id has one
segment. Bodies with the id generated for the current turn are the body of this
turn, because a turn prepares once and every attempt repeats it (`Latest`); this
is what fails when an attempt makes up an id or a time of its own. `CallState` and
`Outcomes` count the failed attempts. The proof has one lemma for what any
handler's step may change (`ServerChange`) and one for any end of an attempt
(`ClientChange`); each action is shown to be such a step. `AnswersAreTrue`,
`CapturedOnce`, `ConflictsAreReal` and `AttemptsAreMade` follow, for any number of
calls, retries, turns and failures.

*TsProcessor.* What a flush waits for is not in its state: it loops until queue
and drain are empty, and that this covers what was admitted before it needs to
know where every waiting event is. The invariant says so: batch and queue are
the end of the log (`Placed`), what is before them is settled, what is queued is
not, and of the batch exactly the conversations in `left` wait (`Fates`), with the
exception of the one that `onError` is being told of. With that, an empty queue
and no drain mean that nothing waits (`NoneWaiting`), which makes an answer a true
one, and the next conversation of a batch can be settled without overtaking
anything (`SettleRefines`). `FailuresCount` ties the counter that the answer is
computed from to the fates of the events, `PendingCounts` keeps `pending` a
number. `TypeCorrect`, `NothingIsStranded` and `Refinement` (the processor
implements BackgroundDelivery) follow.

*GoProcessor.* The counters and the order of what arrives depend on where each
event is, so the invariant says it: the channel is the end of what was admitted
(`QueueIsTail`); of what has left it, each conversation has what arrived, then
what is being counted, then its group, in the order of admission (`TakenInOrder`,
`SentInOrder`), which neither a cut of a batch nor another order of its groups
can disturb; `pending` counts channel, batch and what is sent, an event once
(`Counted`); and with one conversation the oldest is counted first
(`OldestFirst`), which is why a count of finished captures is then a boundary.
`TypeCorrect`, `StatsAlwaysAddUp`, `OrderIsKept` and `FlushIsABoundary` follow.
`ShutdownHasDrained` adds that a closed channel has no submitter blocked on it,
as `Shutdown` closes it under the mutex that a blocked submitter keeps, so
nothing joins it any more; the worker ends when it finds it closed and empty with
nothing in hand.

*OpenAIExporter.* The invariant is a predicate of six values (`Inv`: the log of what
was handed over, envelopes, buffer, calls, forgotten traces, segments) because an
export and a flush first change the maps and then take the first turn of their
loop, in one step: `Receives` and `TakesAll` show it kept by the first half, `Turns`
by a turn that goes on, `Settles` by whatever ends a request or a call,
`Forgets` by the end of a shutdown. Its parts: a call has still to do the traces of
the spans it has taken (hence nothing is lost before it resolves); each segment,
stored or on its way, is made of what was handed over and goes where its trace says
(`MadeFrom`, `Follows`); a trace whose envelope is not kept was forgotten; and, as
long as everything is handed over once and in order, nobody has a span that somebody
else has or that was sent, and a trace is sent only by the export that brought it
(`Once`), from which two segments have no record in common. The lemmas on sets of
arrivals (`InOrderLists`: a finite set is listed completely; `Earliest`) replace an
induction over the sequences of the code. `NothingIsLostQuietly`,
`NothingIsHeldBack`, `SpansAreFiled` and `EachIsStoredOnce` follow, for any number
of calls, any batches, any size of the cache and any failures.

*Inspector.* `LastSelectionWins`: every request in flight is for the session that
is selected now, because a new selection aborts the request of the old one in the
same step, and as long as none is in flight and none failed the entries are
those of the selection. `EvidenceStaysOpen` adds that there is one request at most,
that it is answered with no fewer records than are shown, and that the record
opened is in the entries and in every answer that may replace them (`Holds`), as
long as the selection stays; when it does not, the step that changes it closes
the record. That an unfiltered view of records has every record in its place is
`OpenedIsShown`.

*SessionTimeline* (in InspectorProofs, for one proof about all that the inspector
shows). The grouping is a loop, so its facts go by induction on the records looked at
(`Reaches`, from the least element of a set of numbers): the loop's set only grows and
only by what lies ahead (`ConsumedGrows`), and all in it is grouped with an earlier
record (`ConsumedAreGrouped`). Hence `Grouping`: a record starts an operation or is
grouped with one that does, never both and with one only; a run of answers needs here
that it has no gap. `RecordsAreShownOnce` follows, with a bijection between calls
and what is counted of them, and `FailuresAreShown`, as a failure that is grouped at
all is an entry of its call. For `PairsAreKept`, the loops over two timelines
that agree up to some record are compared (`ConsumedAgree`): their sets agree up to
there, so that a pair is built from what lies before its end and nothing else
(`PairStays`). `ResultsArePaired` is the one that needs an invariant of the makers
(`TInv`): the timeline is sorted by instants (`Sorted`), which putting a record in its
place preserves (`SortedInserts`), and of the records that have arrived or are late each
use is called once and returns once (`Runs`). When runs are apart by their instants, they
are in order in the timeline (`ApartIsOrderly`); this is where records of one instant,
whose order is random, have to be excluded. A call then takes its own result by strong induction over the calls (`TakesItsOwn`): what an earlier call might
take instead is cut off by the later call of the same tool, and the record right after
a call, which the code takes for its result whatever its tool, has been taken by the
call it belongs to. The assumptions are that a missing status is no failure
(`StatusAssumption`) and that a missing id is not the id of a run (`TimelineAssumption`):
both are `undefined` in the code.

Only model-checked are all liveness, and `FilterKeepsOperation` of Inspector, about the
text of a query taken apart and put together, which would need inductions over texts.

## 6. Where the code and its documentation disagree

Two runs end in a counterexample; PROJECT.json quotes the lines.

- `go_blocked` (`AdmittedGetsCounted`): a blocked submit holds the mutex the
  worker needs.
- `exporter_repeat` (`RepeatIsAccepted`): the record of a trace has no start time
  and is stamped anew each time it is exported, while the id of its segment
  depends on record ids alone; a batch whose reply was lost is refused as a
  conflict when it is exported again, although `docs/integrations.md:202` calls
  repeated batches idempotent.

Seven more promises are stated as formulas beside the model they are about, with
a note that they do not hold; added to the configuration of their module (the
first of them with three sources), each is refuted by TLC.

- `RebuildIsKept` (ConversationProjection, `projection_safety` with the calls of
  `Three`): a source that only a rebuild recovered is lost again when another process, running
  during the rebuild, publishes a larger snapshot.
- `RepairedBySync` (SearchIndex): an append observed during a synchronization is
  indexed twice and never repaired.
- `ReadYourWrites` (SearchIndex): an acknowledged append can be missing from a
  search of the same process.
- `FlushIsBoundary` (GoProcessor): Flush counts, and captures of another
  conversation admitted later can make up its count.
- `RetryWithIDRepairs` (CaptureDelivery): a capture repeated under the
  application's id, but without a time, is refused as a conflict when its segment
  is there, because the SDK stamps it anew; a delta that is missing stays
  missing. `RetryRepairs` is what holds: with id and time given, the repetition
  repairs.
- `ShownIsSelected` (HistoryApp): the `finally` of a request that was aborted
  (`app.tsx:64`) clears the loading flag that the new request has just set, so the
  entries of the session selected before are shown under the name of the new one
  until its own arrive. `SettledIsSelected` is what holds.
- `PairedWithItsResult` (SessionTimeline): when two runs of one tool overlap, the
  result of one is shown in the operation of the other if the records show no
  id: those of the Claude hooks keep it under `content.hook`, where `toolUseID`
  does not look. It is also refuted without any overlap, when a call and its result
  or two runs of the tool share a millisecond, as most records of one `batch()` do:
  their order is that of random ids (`history.go:227`), the pairing looks only forward
  (`trace-operations.ts:98`), and a result that is sorted in before its call is
  never shown with it, with an id or without. And it is refuted while a record is late.
  `PairedWhenApart` is what holds: every result is with its call once all records
  have arrived, if none was missed and runs of one tool are apart by their instants.
  Nor do pairs stay whatever arrives. A record that is stamped earlier and arrives
  later, by a repeated request or a hook overtaken by another, may be a call of the
  same tool that takes over the result of a pair that is already shown, or that comes
  between the two; `PairsStay` is about the pairs before whose end none is sorted in.

Three more divergences can be read off the models without a run of their own. In
HistoryAppend, `Key` takes in the conversation, so a record id used again in
another conversation is accepted with other content, although
`docs/quickstart.md:50` says that reusing an id with different content returns a
conflict; every read of the whole history then fails, which HistoryReads is to
show. In SearchIndex, `OpenCold` marks the index loaded before it lists anything, so a
second search passes `CheckLoaded` and answers from an empty index, although
`docs/design/0006-disposable-indexed-search.md:55` says that an initial cold
search waits. In GoProcessor, `updates` holds one token: two waiters may share
the last one, and the second then waits for ever; `SoleWaiterReturns` says what
is left of the promise.

What else the models show and no document speaks of, for whoever changes this
code. *Exporter*: a span that is exported after the envelope of its trace has left
the cache loses its `group_id` and goes to another conversation; a batch with more
new traces than the cache holds stores made-up envelopes; an event that
`beforeSend` drops fails the whole segment of its trace; a call may resolve while
another call carries its spans, and loses them. *Claude sessions*: the hooks
never emit `agent.turn.completed`, so a session stays "running" once anything in
it has. *Inspector*: an answer in several parts has the status of the first,
also when a later one failed; a block that holds only the records of turns is
hidden in the review, failed or not; a filter added for an operation
that matches only through its result makes it vanish; a value with both a quote
and a space, or one that begins with a comparison, does not match itself; a click
on the run map while a filter is active may select another operation; an
operation that is paired differently after a refresh loses the selection.

## 7. Not modelled

Bytes, hashes, JSON, HTTP framing, authentication headers, logging, the examples.
Of the inspector: the activity chart and the filter of the session list, which
are functions of data already there; the numeric, tag and model fields of the
filter, the suggestions of field names (`trace-inspector.tsx:201-210`) and the `trim`
of the query; the detail pane, the export, and all rendering; the "overview" density as
a view, which no control offers (`Overview` is modelled as a function). `ToolUseID`
stands for the three keys of `trace-operations.ts:86` with one, and ClaudeHooks has
17 of the 31 hooks, the others being more lines of the same two tables. GoProcessor has
one waiter for `Flush`. Of the
integrations: the Python ones, and those of the frameworks that emit OTLP. The
Python processor, OTLP ingest, search queries and the adapters of the stores are
ahead in the plan, and each has its note in PROJECT.json. External writers starving
the freshness of a busy process (`search.go` sets `lastRefresh` on its own
appends) would need an unending stream of appends and is only listed as a
hazard.
