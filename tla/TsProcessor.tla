----------------------------- MODULE TsProcessor -----------------------------
(***************************************************************************)
(* BackgroundProcessor of the TypeScript SDK (sdk/typescript/src/           *)
(* processor.ts), with the part of the client that prepares an event       *)
(* (client.ts).                                                             *)
(*                                                                          *)
(* One event loop runs everything: an action is what runs between two      *)
(* awaits.  Each event has a submit call of its own and each waiter one    *)
(* call of flush or shutdown; at most one drain is under way, and it sends *)
(* the batch it has taken conversation by conversation.                     *)
(***************************************************************************)
EXTENDS Integers, Sequences, FiniteSets

CONSTANTS
    Events,             \* numbers, in the order in which prepareEvent ends
    Conversations,
    NoConversation,     \* the conversation of an event is not settled
    Waiters,            \* numbers, in the order of the calls of flush and shutdown
    Observers,          \* flush calls that the onError callback awaits
    BeforeSend,         \* whether the client has a beforeSend hook
    MaxQueueSize,
    MaxBatchSize,
    MaxFailures         \* BOUND: group deliveries that fail

ASSUME ProcessorAssumption ==
    /\ IsFiniteSet(Events) /\ Events \subseteq Nat /\ Waiters \subseteq Nat
    /\ NoConversation \notin Conversations
    /\ Observers \subseteq Waiters
    /\ BeforeSend \in BOOLEAN
    /\ MaxQueueSize \in Nat \ {0} /\ MaxBatchSize \in Nat \ {0}
    /\ MaxFailures \in Nat

VARIABLES
    submit,     \* submit[e]: where the submit of e is, then what became of e
    topic,      \* topic[e]: the conversation of e
    log,        \* every event admitted, in order; its length is stats.enqueued
    queue,
    timer,      \* a drain is scheduled
    draining,   \* #deliverNext is under way, or has just ended
    batch,      \* the events it took
    left,       \* the conversations of batch that are not settled
    observing,  \* it awaits onError
    closed,
    committed, failed, dropped, pending,    \* stats
    call,       \* call[w]: where the flush or shutdown of w is, then its answer
    owed        \* owed[w]: what was waiting when w was called, and still is

eventVars == <<submit, topic>>
queueVars == <<log, queue>>
drainVars == <<draining, batch, left, observing>>
statVars == <<committed, failed, dropped, pending>>
callVars == <<call, owed>>
vars == <<eventVars, queueVars, timer, drainVars, closed, statVars, callVars>>

-----------------------------------------------------------------------------
Waiting == {e \in Events : submit[e] = "waiting"}

\* groups: the events of a batch by conversation.
GroupAt(c) == {i \in DOMAIN batch : topic[batch[i]] = c}
Group(c) == {batch[i] : i \in GroupAt(c)}

\* The Map keeps the order in which conversations first appear in the batch.
IsNext(c) ==
    \E i \in DOMAIN batch :
        /\ topic[batch[i]] = c /\ c \in left
        /\ \A j \in DOMAIN batch : j < i => topic[batch[j]] \notin left

Init ==
    /\ submit = [e \in Events |-> "new"]
    /\ topic = [e \in Events |-> NoConversation]
    /\ log = <<>> /\ queue = <<>>
    /\ timer = FALSE
    /\ draining = FALSE /\ batch = <<>> /\ left = {} /\ observing = FALSE
    /\ closed = FALSE
    /\ committed = 0 /\ failed = 0 /\ dropped = 0 /\ pending = 0
    /\ call = [w \in Waiters |-> "idle"]
    /\ owed = [w \in Waiters |-> {}]

-----------------------------------------------------------------------------
\* Starting a drain, unless one is under way or there is nothing to send: what
\* #drain and #deliverNext do before their first await, given the queue q
\* and the conversations of the events.

Lesser(m, n) == IF m < n THEN m ELSE n

Drain(q, topics) ==
    IF draining \/ q = <<>>
    THEN queue' = q /\ UNCHANGED drainVars
    ELSE LET n == Lesser(Len(q), MaxBatchSize)
         IN  /\ draining' = TRUE
             /\ batch' = SubSeq(q, 1, n)
             /\ queue' = SubSeq(q, n + 1, Len(q))
             /\ left' = {topics[q[i]] : i \in 1..n}
             /\ UNCHANGED observing

-----------------------------------------------------------------------------
\* submit.

\* The call: a processor that is closed throws, else prepareEvent is awaited.
\* What that reads and writes is the event's own, so that it settles the
\* conversation is left to the step that ends it.
Submit(e) ==
    /\ submit[e] = "new" /\ \A f \in Events : f < e => submit[f] # "new"
    /\ submit' = [submit EXCEPT ![e] = IF closed THEN "refused" ELSE "preparing"]
    /\ UNCHANGED <<topic, queueVars, timer, drainVars, closed, statVars, callVars>>

\* Any of the events under preparation may go on; they do not differ yet, and the
\* numbers are given as they do.
Prepared(e) ==
    submit[e] = "preparing" /\ \A f \in Events : f < e => submit[f] # "preparing"

\* The event has no conversation: prepareEvent throws.
Reject(e) ==
    /\ Prepared(e)
    /\ submit' = [submit EXCEPT ![e] = "refused"]
    /\ UNCHANGED <<topic, queueVars, timer, drainVars, closed, statVars, callVars>>

\* beforeSend drops the event.
DropEvent(e) ==
    /\ BeforeSend
    /\ Prepared(e)
    /\ submit' = [submit EXCEPT ![e] = "dropped"]
    /\ dropped' = dropped + 1
    /\ UNCHANGED <<topic, queueVars, timer, drainVars, closed, committed, failed,
                   pending, callVars>>

\* The processor has been closed meanwhile, or the queue is full.
TurnAway(e) ==
    /\ Prepared(e)
    /\ \/ closed /\ submit' = [submit EXCEPT ![e] = "refused"] /\ UNCHANGED dropped
       \/ /\ ~closed /\ Len(queue) >= MaxQueueSize
          /\ submit' = [submit EXCEPT ![e] = "dropped"] /\ dropped' = dropped + 1
    /\ UNCHANGED <<topic, queueVars, timer, drainVars, closed, committed, failed,
                   pending, callVars>>

\* The event joins the queue; a full batch is sent at once, else a timer is set
\* unless a drain is under way.
Join(e, topics) ==
    IF Len(queue) + 1 >= MaxBatchSize
    THEN timer' = FALSE /\ Drain(Append(queue, e), topics)
    ELSE /\ timer' = (timer \/ ~draining)
         /\ queue' = Append(queue, e)
         /\ UNCHANGED drainVars

Admit(e) ==
    /\ Prepared(e)
    /\ ~closed
    /\ Len(queue) < MaxQueueSize
    /\ submit' = [submit EXCEPT ![e] = "waiting"]
    /\ \E c \in Conversations : topic' = [topic EXCEPT ![e] = c]
    /\ log' = Append(log, e)
    /\ pending' = pending + 1
    /\ Join(e, topic')
    /\ UNCHANGED <<closed, committed, failed, dropped, callVars>>

-----------------------------------------------------------------------------
\* The timer and the drain.

\* Continuations run before the event loop looks at timers and sockets.
Quiet ==
    /\ \A w \in Waiters : call[w] # "looping"
    /\ draining => left # {}

TimerFires ==
    /\ Quiet
    /\ timer
    /\ timer' = FALSE
    /\ Drain(queue, topic)
    /\ UNCHANGED <<eventVars, log, closed, statVars, callVars>>

Settled(c, verdict) ==
    /\ submit' = [e \in Events |-> IF e \in Group(c) THEN verdict ELSE submit[e]]
    /\ owed' = [w \in Waiters |-> owed[w] \ Group(c)]

\* capturePreparedBatch resolves.
Deliver ==
    /\ Quiet
    /\ draining /\ ~observing
    /\ \E c \in left :
          /\ IsNext(c)
          /\ Settled(c, "committed")
          /\ committed' = committed + Cardinality(GroupAt(c))
          /\ pending' = pending - Cardinality(GroupAt(c))
          /\ left' = left \ {c}
    /\ UNCHANGED <<topic, queueVars, timer, draining, batch, observing, closed,
                   failed, dropped, call>>

\* It rejects, and onError is called.
FailToDeliver ==
    /\ Quiet
    /\ draining /\ ~observing
    /\ failed < MaxFailures
    /\ \E c \in left :
          /\ IsNext(c)
          /\ Settled(c, "failed")
          /\ failed' = failed + Cardinality(GroupAt(c))
    /\ observing' = TRUE
    /\ UNCHANGED <<topic, queueVars, timer, draining, batch, left, closed,
                   committed, dropped, pending, call>>

\* onError is done, or throws.
Observed ==
    /\ observing
    /\ \A w \in Observers : call[w] \in {"true", "false"}
    /\ \E c \in left :
          /\ IsNext(c)
          /\ pending' = pending - Cardinality(GroupAt(c))
          /\ left' = left \ {c}
    /\ observing' = FALSE
    /\ UNCHANGED <<eventVars, queueVars, timer, draining, batch, closed,
                   committed, failed, dropped, callVars>>

\* Mutant of EndDrain: the queue is left to the next submit.
EndDrainIdle ==
    /\ draining /\ left = {}
    /\ draining' = FALSE
    /\ batch' = <<>>
    /\ call' = [w \in Waiters |-> IF call[w] = "awaiting" THEN "looping" ELSE call[w]]
    /\ UNCHANGED <<eventVars, queueVars, timer, left, observing, closed, statVars,
                   owed>>

\* Mutant of EndDrain: #draining is not cleared.
EndDrainKept ==
    /\ draining /\ left = {}
    /\ timer' = (timer \/ (queue # <<>> /\ ~closed))
    /\ call' = [w \in Waiters |-> IF call[w] = "awaiting" THEN "looping" ELSE call[w]]
    /\ UNCHANGED <<eventVars, queueVars, draining, batch, left, observing, closed,
                   statVars, owed>>

\* The end of #drain: what has queued up meanwhile is scheduled, and the calls
\* that awaited it go on.
EndDrain ==
    /\ draining /\ left = {}
    /\ draining' = FALSE
    /\ batch' = <<>>
    /\ timer' = (timer \/ (queue # <<>> /\ ~closed))
    /\ call' = [w \in Waiters |-> IF call[w] = "awaiting" THEN "looping" ELSE call[w]]
    /\ UNCHANGED <<eventVars, queueVars, left, observing, closed, statVars, owed>>

-----------------------------------------------------------------------------
\* flush and shutdown.

Answer == IF failed = 0 THEN "true" ELSE "false"

Calls(w) ==
    call[w] = "idle" /\ \A v \in Waiters : v < w => call[v] # "idle"

\* One round of the loop of flush.
Loop(w) ==
    /\ call' = [call EXCEPT ![w] =
          IF queue = <<>> /\ ~draining THEN Answer ELSE "awaiting"]
    /\ Drain(queue, topic)

Flush(w) ==
    /\ Calls(w)
    /\ timer' = FALSE
    /\ Loop(w)
    /\ owed' = [owed EXCEPT ![w] = Waiting]
    /\ UNCHANGED <<eventVars, log, closed, statVars>>

\* The first shutdown closes the processor and flushes it.
Shutdown(w) ==
    /\ Calls(w)
    /\ ~closed
    /\ closed' = TRUE
    /\ timer' = FALSE
    /\ Loop(w)
    /\ owed' = [owed EXCEPT ![w] = Waiting]
    /\ UNCHANGED <<eventVars, log, statVars>>

\* A later one says how things stand.
ShutdownAgain(w) ==
    /\ Calls(w)
    /\ closed
    /\ call' = [call EXCEPT ![w] =
          IF queue = <<>> /\ ~draining THEN Answer ELSE "false"]
    /\ UNCHANGED <<eventVars, queueVars, timer, drainVars, closed, statVars, owed>>

\* Mutant of Resume: flush awaits one drain, and does not look again.
ResumeOnce(w) ==
    /\ call[w] = "looping"
    /\ call' = [call EXCEPT ![w] = Answer]
    /\ UNCHANGED <<eventVars, queueVars, timer, drainVars, closed, statVars, owed>>

Resume(w) ==
    /\ call[w] = "looping"
    /\ Loop(w)
    /\ UNCHANGED <<eventVars, log, timer, closed, statVars, owed>>

-----------------------------------------------------------------------------
Submitting(e) ==
    Reject(e) \/ DropEvent(e) \/ TurnAway(e) \/ Admit(e)

Draining == Deliver \/ FailToDeliver \/ Observed \/ EndDrain

Next ==
    \/ \E e \in Events : Submit(e) \/ Submitting(e)
    \/ TimerFires
    \/ Draining
    \/ \E w \in Waiters : Flush(w) \/ Shutdown(w) \/ ShutdownAgain(w) \/ Resume(w)

Spec == Init /\ [][Next]_vars

\* The event loop runs what is ready, requests and callbacks end; nobody has to
\* submit or flush anything.
FairSpec ==
    /\ Spec
    /\ WF_vars(TimerFires) /\ WF_vars(Draining)
    /\ \A e \in Events : WF_vars(Submitting(e))
    /\ \A w \in Waiters : WF_vars(Resume(w))

-----------------------------------------------------------------------------
\* Types.

\* Every variable has its type.
TypeOK ==
    /\ submit \in [Events -> {"new", "preparing", "waiting", "committed",
                              "failed", "dropped", "refused"}]
    /\ topic \in [Events -> Conversations \union {NoConversation}]
    /\ log \in Seq(Events)
    /\ queue \in Seq(Events) /\ Len(queue) <= MaxQueueSize
    /\ batch \in Seq(Events) /\ Len(batch) <= MaxBatchSize
    /\ left \subseteq Conversations
    /\ timer \in BOOLEAN /\ draining \in BOOLEAN /\ observing \in BOOLEAN
    /\ closed \in BOOLEAN
    /\ committed \in Nat /\ failed \in Nat /\ dropped \in Nat /\ pending \in Nat
    /\ call \in [Waiters -> {"idle", "awaiting", "looping", "true", "false"}]
    /\ owed \in [Waiters -> SUBSET Events]

-----------------------------------------------------------------------------
\* Safety.

\* What is queued is on its way: a drain will look at the queue when it ends, a
\* timer will, or a flush is about to.  (A call that awaits a drain of a closed
\* processor is such a flush: no timer is set any more.)
NothingStranded ==
    queue # <<>> =>
        \/ timer
        \/ draining /\ (closed => \E w \in Waiters : call[w] = "awaiting")
        \/ \E w \in Waiters : call[w] = "looping"

\* "await flush() when every admitted event must have reached Farfield": the
\* processor implements BackgroundDelivery, so a call that answers true has
\* everything admitted before it delivered, no event is settled twice or ahead of
\* an earlier one of its conversation, and a closed processor admits nothing.
Delivery == INSTANCE BackgroundDelivery WITH
    Capacity <- MaxQueueSize + MaxBatchSize,
    fate <- [e \in Events |->
        IF submit[e] = "committed" THEN "delivered"
        ELSE IF submit[e] = "failed" THEN "failed" ELSE "unsent"],
    answer <- [w \in Waiters |->
        IF call[w] = "idle" THEN "none"
        ELSE IF call[w] \in {"awaiting", "looping"} THEN "pending" ELSE call[w]]

ImplementsDelivery == Delivery!Spec

-----------------------------------------------------------------------------
\* Liveness, under FairSpec.

\* Whoever flushes is answered, if the observer does not itself wait for a flush.
FlushesEnd ==
    \A w \in Waiters : call[w] \in {"awaiting", "looping"} ~> call[w] \in {"true", "false"}
=============================================================================
