----------------------------- MODULE GoProcessor -----------------------------
(***************************************************************************)
(* BackgroundProcessor of the Go SDK (sdk/go/processor.go): goroutines     *)
(* submit captures to a bounded channel, one worker collects them into     *)
(* batches and sends each conversation's part, and Flush and Shutdown wait *)
(* for the counters the worker updates.                                     *)
(*                                                                          *)
(* Each event is submitted by a goroutine of its own.  A blocked channel   *)
(* send, a network call and each section under mu are separate steps.      *)
(***************************************************************************)
EXTENDS Naturals, Sequences, FiniteSets, SequencesExt

CONSTANTS
    Events,         \* captures that PrepareCapture lets through
    Conversation,   \* Conversation[e]
    Waiters,        \* goroutines that call Flush, or Shutdown
    QueueSize,      \* MaxQueueSize
    BatchSize,      \* MaxBatchSize
    NoOne,          \* mu is free
    MaxFailures     \* BOUND: batches whose delivery fails

ASSUME ProcessorAssumption ==
    /\ QueueSize \in Nat \ {0} /\ BatchSize \in Nat \ {0}
    /\ NoOne \notin Events
    /\ MaxFailures \in Nat

VARIABLES
    overflow,       \* the processor's policy, "drop" or "block"
    stopping,       \* stopping[w]: w calls Shutdown, and not Flush
    submit,         \* submit[e]: where the Submit of e is
    mu,             \* the submitter that holds mu while it waits for the channel
    queue,          \* the channel
    closed,         \* Shutdown has closed the channel
    admitted,       \* everything the channel took, in order; its length is Enqueued
    worker,         \* where the worker is
    groups,         \* groups[c]: the events of its batch that go to conversation c
    sent,           \* the group it has sent and not counted
    arrived,        \* what each conversation's group deliveries brought, in order
    committed, failed, pending,     \* stats
    updates,        \* tokens in the channel that wakes a waiter
    waiter,         \* waiter[w]: where the Flush or Shutdown of w is
    target          \* target[w]: what Enqueued was when w started to wait

options == <<overflow, stopping>>
chanVars == <<queue, closed, admitted>>
workVars == <<worker, groups, sent, arrived>>
statVars == <<committed, failed, pending>>
waitVars == <<waiter, target>>
vars == <<options, submit, mu, chanVars, workVars, statVars, updates, waitVars>>

-----------------------------------------------------------------------------
Conversations == {Conversation[e] : e \in Events}

\* The events the worker has in hand.  The order of a batch shows only within a
\* conversation, and there it is the order of the group.
Batch == UNION {ToSet(groups[c]) : c \in Conversations}

Init ==
    /\ overflow \in {"drop", "block"}
    /\ stopping \in [Waiters -> BOOLEAN]
    /\ submit = [e \in Events |-> "idle"]
    /\ mu = NoOne
    /\ queue = <<>> /\ closed = FALSE /\ admitted = <<>>
    /\ worker = "receive" /\ sent = <<>>
    /\ groups = [c \in Conversations |-> <<>>]
    /\ arrived = [c \in Conversations |-> <<>>]
    /\ committed = 0 /\ failed = 0 /\ pending = 0
    /\ updates = 0
    /\ waiter = [w \in Waiters |-> "idle"]
    /\ target = [w \in Waiters |-> 0]

-----------------------------------------------------------------------------
\* Submit.

Admit(e) ==
    /\ queue' = Append(queue, e)
    /\ admitted' = Append(admitted, e)
    /\ pending' = pending + 1
    /\ submit' = [submit EXCEPT ![e] = "admitted"]
    /\ mu' = NoOne

\* The processor is closed, or drops what finds the channel full.
Refuse(e) ==
    /\ submit[e] = "idle"
    /\ mu = NoOne
    /\ closed \/ (overflow = "drop" /\ Len(queue) = QueueSize)
    /\ submit' = [submit EXCEPT ![e] = "refused"]
    /\ UNCHANGED <<options, mu, chanVars, workVars, statVars, updates, waitVars>>

\* Mutant of Enter: closed is not looked at.
EnterClosed(e) ==
    /\ submit[e] = "idle"
    /\ mu = NoOne
    /\ Len(queue) < QueueSize
    /\ Admit(e)
    /\ UNCHANGED <<options, closed, workVars, committed, failed, updates, waitVars>>

\* The channel has room.
Enter(e) ==
    /\ submit[e] = "idle"
    /\ mu = NoOne
    /\ ~closed
    /\ Len(queue) < QueueSize
    /\ Admit(e)
    /\ UNCHANGED <<options, closed, workVars, committed, failed, updates, waitVars>>

\* OverflowBlock: the goroutine waits for the channel and keeps mu.
Block(e) ==
    /\ submit[e] = "idle"
    /\ mu = NoOne
    /\ ~closed
    /\ overflow = "block" /\ Len(queue) = QueueSize
    /\ mu' = e
    /\ submit' = [submit EXCEPT ![e] = "blocked"]
    /\ UNCHANGED <<options, chanVars, workVars, statVars, updates, waitVars>>

Unblock(e) ==
    /\ mu = e
    /\ Len(queue) < QueueSize
    /\ Admit(e)
    /\ UNCHANGED <<options, closed, workVars, committed, failed, updates, waitVars>>

-----------------------------------------------------------------------------
\* run and deliver.

\* The worker takes the first event of a batch, or one more.
Take ==
    /\ worker \in {"receive", "collect"}
    /\ queue # <<>>
    /\ Cardinality(Batch) < BatchSize
    /\ groups' = [groups EXCEPT ![Conversation[Head(queue)]] = Append(@, Head(queue))]
    /\ queue' = Tail(queue)
    /\ worker' = "collect"
    /\ UNCHANGED <<options, submit, mu, closed, admitted, sent, arrived,
                   statVars, updates, waitVars>>

\* The batch is full, the timer has fired, or the channel is closed and empty.
Collected ==
    /\ worker = "collect"
    /\ worker' = "deliver"
    /\ UNCHANGED <<options, submit, mu, chanVars, groups, sent, arrived,
                   statVars, updates, waitVars>>

\* Mutant of Send: the events of a group are sent in the order of their arrival,
\* last first.
SendReversed ==
    /\ worker = "deliver"
    /\ \E c \in Conversations :
          /\ groups[c] # <<>>
          /\ sent' = groups[c]
          /\ groups' = [groups EXCEPT ![c] = <<>>]
          /\ arrived' = [arrived EXCEPT ![c] = @ \o Reverse(groups[c])]
          /\ worker' = "count"
    /\ UNCHANGED <<options, submit, mu, chanVars, statVars, updates, waitVars>>

\* The group of some conversation is sent: groups is a map, ranged over in any
\* order.  A delivery that fails may have arrived.
Send ==
    /\ worker = "deliver"
    /\ \E c \in Conversations :
          /\ groups[c] # <<>>
          /\ sent' = groups[c]
          /\ groups' = [groups EXCEPT ![c] = <<>>]
          /\ arrived' \in {arrived, [arrived EXCEPT ![c] = @ \o groups[c]]}
          /\ \/ worker' = "count" /\ arrived' # arrived
             \/ worker' = "fail" /\ failed < MaxFailures
    /\ UNCHANGED <<options, submit, mu, chanVars, statVars, updates, waitVars>>

\* Mutants of Count: what failed stays pending, or is taken off twice.
CountCommitted ==
    /\ worker \in {"count", "fail"}
    /\ mu = NoOne
    /\ IF worker = "count"
       THEN /\ committed' = committed + Len(sent)
            /\ pending' = pending - Len(sent)
            /\ UNCHANGED failed
       ELSE failed' = failed + Len(sent) /\ UNCHANGED <<committed, pending>>
    /\ sent' = <<>>
    /\ worker' = "notify"
    /\ UNCHANGED <<options, submit, mu, chanVars, groups, arrived, updates, waitVars>>

CountFailedTwice ==
    /\ worker \in {"count", "fail"}
    /\ mu = NoOne
    /\ IF worker = "count"
       THEN committed' = committed + Len(sent) /\ UNCHANGED failed
       ELSE failed' = failed + Len(sent) /\ UNCHANGED committed
    /\ pending' = pending - IF worker = "count" THEN Len(sent) ELSE 2 * Len(sent)
    /\ sent' = <<>>
    /\ worker' = "notify"
    /\ UNCHANGED <<options, submit, mu, chanVars, groups, arrived, updates, waitVars>>

\* The outcome is counted under mu.
Count ==
    /\ worker \in {"count", "fail"}
    /\ mu = NoOne
    /\ IF worker = "count"
       THEN committed' = committed + Len(sent) /\ UNCHANGED failed
       ELSE failed' = failed + Len(sent) /\ UNCHANGED committed
    /\ pending' = pending - Len(sent)
    /\ sent' = <<>>
    /\ worker' = "notify"
    /\ UNCHANGED <<options, submit, mu, chanVars, groups, arrived, updates, waitVars>>

\* Mutant of Notify: no token is left after the last group of a batch.
Silent ==
    /\ worker = "notify"
    /\ updates' = IF Batch = {} THEN updates ELSE 1
    /\ worker' = IF Batch = {} THEN "receive" ELSE "deliver"
    /\ UNCHANGED <<options, submit, mu, chanVars, groups, sent, arrived,
                   statVars, waitVars>>

\* After onError: a token is left for a waiter, unless there is one already.
Notify ==
    /\ worker = "notify"
    /\ updates' = 1
    /\ worker' = IF Batch = {} THEN "receive" ELSE "deliver"
    /\ UNCHANGED <<options, submit, mu, chanVars, groups, sent, arrived,
                   statVars, waitVars>>

\* The channel is closed and drained: the worker ends.
Finish ==
    /\ worker = "receive"
    /\ closed /\ queue = <<>>
    /\ worker' = "done"
    /\ UNCHANGED <<options, submit, mu, chanVars, groups, sent, arrived,
                   statVars, updates, waitVars>>

-----------------------------------------------------------------------------
\* Flush and Shutdown, with a context that is never done.

\* Shutdown closes the channel under mu.
Close(w) ==
    /\ waiter[w] = "idle"
    /\ stopping[w]
    /\ mu = NoOne
    /\ closed' = TRUE
    /\ waiter' = [waiter EXCEPT ![w] = "flush"]
    /\ UNCHANGED <<options, submit, mu, queue, admitted, workVars, statVars,
                   updates, target>>

\* Flush reads its target.
Aim(w) ==
    /\ waiter[w] = IF stopping[w] THEN "flush" ELSE "idle"
    /\ mu = NoOne
    /\ target' = [target EXCEPT ![w] = Len(admitted)]
    /\ waiter' = [waiter EXCEPT ![w] = "look"]
    /\ UNCHANGED <<options, submit, mu, chanVars, workVars, statVars, updates>>

\* Mutant of Look: an event that is being sent counts as finished.
LookAhead(w) ==
    /\ waiter[w] = "look"
    /\ mu = NoOne
    /\ waiter' = [waiter EXCEPT ![w] =
          IF committed + failed + Len(sent) < target[w] THEN "wait"
          ELSE IF stopping[w] THEN "join" ELSE "returned"]
    /\ UNCHANGED <<options, submit, mu, chanVars, workVars, statVars, updates,
                   target>>

\* Flush looks at the counters: it is done, or waits for a token.
Look(w) ==
    /\ waiter[w] = "look"
    /\ mu = NoOne
    /\ waiter' = [waiter EXCEPT ![w] =
          IF committed + failed < target[w] THEN "wait"
          ELSE IF stopping[w] THEN "join" ELSE "returned"]
    /\ UNCHANGED <<options, submit, mu, chanVars, workVars, statVars, updates,
                   target>>

Wake(w) ==
    /\ waiter[w] = "wait"
    /\ updates = 1
    /\ updates' = 0
    /\ waiter' = [waiter EXCEPT ![w] = "look"]
    /\ UNCHANGED <<options, submit, mu, chanVars, workVars, statVars, target>>

\* Shutdown waits for the worker to end.
Join(w) ==
    /\ waiter[w] = "join"
    /\ worker = "done"
    /\ waiter' = [waiter EXCEPT ![w] = "returned"]
    /\ UNCHANGED <<options, submit, mu, chanVars, workVars, statVars, updates,
                   target>>

-----------------------------------------------------------------------------
Submitting(e) == Refuse(e) \/ Enter(e) \/ Block(e) \/ Unblock(e)
Working == Take \/ Collected \/ Send \/ Count \/ Notify \/ Finish
Waiting(w) == Aim(w) \/ Look(w) \/ Wake(w) \/ Join(w)

Next ==
    \/ \E e \in Events : Submitting(e)
    \/ Working
    \/ \E w \in Waiters : Close(w) \/ Waiting(w)

Spec == Init /\ [][Next]_vars

\* The worker and the calls that have begun go on; mu and the channels are granted
\* in turn.
FairSpec ==
    /\ Spec
    /\ SF_vars(Working)
    /\ \A e \in Events : SF_vars(Unblock(e))
    /\ \A w \in Waiters : SF_vars(waiter[w] # "idle" /\ Waiting(w))
-----------------------------------------------------------------------------
\* Types.

\* Every variable has its type; Pending is an unsigned number in the code and
\* never goes below zero.
TypeOK ==
    /\ overflow \in {"drop", "block"} /\ stopping \in [Waiters -> BOOLEAN]
    /\ submit \in [Events -> {"idle", "blocked", "admitted", "refused"}]
    /\ mu \in Events \union {NoOne}
    /\ queue \in Seq(Events) /\ Len(queue) <= QueueSize
    /\ closed \in BOOLEAN
    /\ admitted \in Seq(Events)
    /\ worker \in {"receive", "collect", "deliver", "count", "fail", "notify", "done"}
    /\ groups \in [Conversations -> Seq(Events)]
    /\ Cardinality(Batch) <= BatchSize
    /\ sent \in Seq(Events)
    /\ arrived \in [Conversations -> Seq(Events)]
    /\ committed \in Nat /\ failed \in Nat /\ pending \in Nat
    /\ updates \in 0..1
    /\ waiter \in [Waiters -> {"idle", "flush", "look", "wait", "join", "returned"}]
    /\ target \in [Waiters -> Nat]

-----------------------------------------------------------------------------
\* Safety.

\* Events the channel took and whose delivery is not counted yet.
InFlight == ToSet(queue) \union Batch \union ToSet(sent)

\* Stats never lose an event: what was enqueued is committed, failed or pending,
\* and pending is what the channel and the worker hold.
StatsAddUp ==
    /\ Len(admitted) = committed + failed + pending
    /\ pending = Len(queue) + Cardinality(Batch) + Len(sent)
    /\ pending = Cardinality(InFlight)

\* e was admitted before f.
Before(e, f) ==
    \E k, l \in DOMAIN admitted : k < l /\ admitted[k] = e /\ admitted[l] = f

Ordered(seq) == \A i, j \in DOMAIN seq : i < j => Before(seq[i], seq[j])

\* A conversation's events arrive in the order of their admission, none twice and
\* none of another conversation, however batches are cut and groups are ordered.
OrderKept ==
    \A c \in Conversations :
        /\ Ordered(arrived[c])
        /\ \A e \in ToSet(arrived[c]) : Conversation[e] = c /\ ~Before(e, e)

\* "Flush waits until captures admitted before the call have completed delivery."
\* (The code does not keep this promise; README, section 6.)
FlushIsBoundary ==
    \A w \in Waiters : waiter[w] \in {"join", "returned"} =>
        \A i \in 1..target[w] : admitted[i] \notin InFlight

\* Flush of a processor that serves one conversation is that boundary: what is
\* counted is then always the oldest of what was admitted.
FlushOfOneConversation ==
    \A w \in Waiters :
        /\ waiter[w] \in {"join", "returned"}
        /\ \A e, f \in ToSet(admitted) : Conversation[e] = Conversation[f]
        => \A i \in 1..target[w] : admitted[i] \notin InFlight

\* "Shutdown stops admission, drains the queue, and waits for the worker."
ShutdownDrains ==
    \A w \in Waiters : stopping[w] /\ waiter[w] = "returned" =>
        InFlight = {} /\ worker = "done"

-----------------------------------------------------------------------------
\* Liveness, under FairSpec.

\* An admitted event is delivered, or its failure is counted.
\* (The code does not keep this promise; README, section 6.)
AdmittedGetsCounted ==
    \A e \in Events : submit[e] = "admitted" ~> e \notin InFlight

\* With a processor that drops when it is full, a Flush or Shutdown returns, unless
\* another one may take its token.
SoleWaiterReturns ==
    \A w \in Waiters : overflow = "drop" /\ waiter[w] # "idle" ~>
        \/ waiter[w] = "returned"
        \/ \E v \in Waiters \ {w} : waiter[v] # "idle"
=============================================================================
