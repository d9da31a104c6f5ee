--------------------------- MODULE TsProcessorProofs ---------------------------
(***************************************************************************)
(* Theorems about TsProcessor, for any events and conversations, any calls *)
(* of flush and shutdown, any sizes of queue and batch, and any failures.  *)
(***************************************************************************)
EXTENDS TsProcessor, FiniteSetTheorems, TLAPS

\* The batch and the queue are the end of the log, in its order, and no event is
\* in the log twice.
Placed(lg, q, bt) ==
    /\ lg \in Seq(Events) /\ q \in Seq(Events) /\ bt \in Seq(Events)
    /\ Len(bt) + Len(q) <= Len(lg)
    /\ \A i \in 1..Len(q) : q[i] = lg[Len(lg) - Len(q) + i]
    /\ \A i \in 1..Len(bt) : bt[i] = lg[Len(lg) - Len(q) - Len(bt) + i]
    /\ \A i, j \in 1..Len(lg) : lg[i] = lg[j] => i = j

\* IsNext, of a given batch.
NextOf(bt, tp, lf, c) ==
    \E i \in 1..Len(bt) :
        /\ tp[bt[i]] = c /\ c \in lf
        /\ \A j \in 1..Len(bt) : j < i => tp[bt[j]] \notin lf

\* What is before the batch is settled, what is queued is not, and of the batch
\* what is left waits, except what onError is being told of.
Fates(lg, sb, tp, q, bt, lf, obs) ==
    /\ \A e \in Events :
          sb[e] \in {"waiting", "committed", "failed"} <=> \E i \in 1..Len(lg) : lg[i] = e
    /\ \A i \in 1..Len(lg) - Len(q) - Len(bt) : sb[lg[i]] # "waiting"
    /\ \A i \in 1..Len(q) : sb[q[i]] = "waiting"
    /\ \A i \in 1..Len(bt) :
          sb[bt[i]] = "waiting" <=>
             tp[bt[i]] \in lf /\ ~(obs /\ NextOf(bt, tp, lf, tp[bt[i]]))
    /\ \A i \in 1..Len(lg) : tp[lg[i]] \in Conversations

\* A drain has a batch, and awaits onError about something that is left of it.
Drained(dr, tp, bt, lf, obs) ==
    /\ lf \subseteq {tp[bt[i]] : i \in 1..Len(bt)}
    /\ ~dr => bt = <<>>
    /\ obs => lf # {}

Core(lg, sb, tp, q, dr, bt, lf, obs) ==
    Placed(lg, q, bt) /\ Fates(lg, sb, tp, q, bt, lf, obs) /\ Drained(dr, tp, bt, lf, obs)

CoreState == Core(log, submit, topic, queue, draining, batch, left, observing)

\* What is queued, and what is left of the batch.
Load(tp, q, bt, lf) == Len(q) + Cardinality({i \in 1..Len(bt) : tp[bt[i]] \in lf})

PendingCounts == pending = Load(topic, queue, batch, left)

FailuresCount == failed = 0 <=> \A e \in Events : submit[e] # "failed"

\* A call waits for what has not been settled, as long as it waits.
OwedState ==
    \A w \in Waiters :
        /\ owed[w] \subseteq Waiting
        /\ call[w] \notin {"awaiting", "looping"} => owed[w] = {}

ClosedState == closed => ~timer

IInv ==
    /\ TypeOK /\ CoreState /\ PendingCounts /\ FailuresCount /\ OwedState
    /\ ClosedState /\ NothingStranded

-----------------------------------------------------------------------------
\* Lemmas about the operators of the specification.

\* Positions of a sequence are finitely many.
LEMMA IndexSets ==
    ASSUME NEW n \in Nat, NEW S \in SUBSET (1..n)
    PROVE  IsFiniteSet(S) /\ Cardinality(S) \in Nat /\ Cardinality(S) <= n
<1>1. IsFiniteSet(1..n) /\ Cardinality(1..n) = n
  BY FS_Interval
<1> QED
  BY <1>1, FS_Subset, FS_CardinalityType

\* A batch of n events has been taken from q.
Taken(n, q, topics) ==
    /\ n \in 1..Len(q) /\ n <= MaxBatchSize
    /\ ~draining /\ draining' = TRUE /\ observing' = observing
    /\ queue' \in Seq(Events) /\ Len(queue') = Len(q) - n
    /\ \A i \in 1..Len(q) - n : queue'[i] = q[n + i]
    /\ batch' \in Seq(Events) /\ Len(batch') = n
    /\ \A i \in 1..n : batch'[i] = q[i]
    /\ left' = {topics[q[i]] : i \in 1..n}

\* Drain takes a batch, or leaves everything as it is.
LEMMA DrainFacts ==
    ASSUME NEW q \in Seq(Events), NEW topics, Drain(q, topics)
    PROVE  \/ (draining \/ q = <<>>) /\ queue' = q /\ UNCHANGED drainVars
           \/ \E n \in Nat : Taken(n, q, topics)
<1>1. CASE draining \/ q = <<>>
  BY <1>1 DEF Drain
<1>2. CASE ~(draining \/ q = <<>>)
  <2> DEFINE n == Lesser(Len(q), MaxBatchSize)
  <2>1. Len(q) \in Nat \ {0} /\ MaxBatchSize \in Nat \ {0}
    BY <1>2, ProcessorAssumption
  <2>2. n \in 1..Len(q) /\ n <= MaxBatchSize /\ n \in Nat
    BY <2>1 DEF Lesser
  <2>3. /\ draining' = TRUE /\ batch' = SubSeq(q, 1, n)
        /\ queue' = SubSeq(q, n + 1, Len(q))
        /\ left' = {topics[q[i]] : i \in 1..n}
        /\ observing' = observing
    BY <1>2 DEF Drain
  <2> HIDE DEF n
  <2>4. batch' \in Seq(Events) /\ Len(batch') = n /\ \A i \in 1..n : batch'[i] = q[i]
    BY <2>1, <2>2, <2>3
  <2>5. queue' \in Seq(Events) /\ Len(queue') = Len(q) - n
        /\ \A i \in 1..Len(q) - n : queue'[i] = q[n + i]
    BY <2>1, <2>2, <2>3
  <2> QED
    BY <1>2, <2>2, <2>3, <2>4, <2>5 DEF Taken
<1> QED
  BY <1>1, <1>2

\* Only one conversation of a batch is the next.
LEMMA NextUnique ==
    ASSUME NEW bt, Len(bt) \in Nat, NEW tp, NEW lf, NEW c, NEW d,
           NextOf(bt, tp, lf, c), NextOf(bt, tp, lf, d)
    PROVE  c = d
<1>1. PICK i \in 1..Len(bt) :
          tp[bt[i]] = c /\ c \in lf /\ \A j \in 1..Len(bt) : j < i => tp[bt[j]] \notin lf
  BY DEF NextOf
<1>2. PICK k \in 1..Len(bt) :
          tp[bt[k]] = d /\ d \in lf /\ \A j \in 1..Len(bt) : j < k => tp[bt[j]] \notin lf
  BY DEF NextOf
<1>3. i < k \/ k < i \/ i = k
  OBVIOUS
<1> QED
  BY <1>1, <1>2, <1>3

\* IsNext is NextOf the batch.
LEMMA IsNextFacts ==
    ASSUME batch \in Seq(Events), NEW c
    PROVE  IsNext(c) <=> NextOf(batch, topic, left, c)
<1>1. DOMAIN batch = 1..Len(batch)
  OBVIOUS
<1> QED
  BY <1>1 DEF IsNext, NextOf

\* What waits is queued, or in the batch.
LEMMA WaitingPlaces ==
    ASSUME CoreState, NEW e \in Waiting
    PROVE  \/ \E i \in 1..Len(queue) : queue[i] = e
           \/ \E i \in 1..Len(batch) : batch[i] = e /\ topic[e] \in left
<1> USE DEF CoreState, Core, Placed, Fates
<1>1. e \in Events /\ submit[e] = "waiting"
  BY DEF Waiting
<1>2. PICK i \in 1..Len(log) : log[i] = e
  BY <1>1
<1>3. Len(log) \in Nat /\ Len(queue) \in Nat /\ Len(batch) \in Nat
  OBVIOUS
<1>4. CASE i <= Len(log) - Len(queue) - Len(batch)
  BY <1>1, <1>2, <1>3, <1>4
<1>5. CASE i > Len(log) - Len(queue) - Len(batch) /\ i <= Len(log) - Len(queue)
  <2> DEFINE k == i - (Len(log) - Len(queue) - Len(batch))
  <2>1. k \in 1..Len(batch) /\ Len(log) - Len(queue) - Len(batch) + k = i
    BY <1>3, <1>5
  <2>2. batch[k] = e
    BY <1>2, <2>1
  <2>3. topic[batch[k]] \in left
    BY <1>1, <2>1, <2>2
  <2> QED
    BY <2>1, <2>2, <2>3
<1>6. CASE i > Len(log) - Len(queue)
  <2> DEFINE k == i - (Len(log) - Len(queue))
  <2>1. k \in 1..Len(queue) /\ Len(log) - Len(queue) + k = i
    BY <1>3, <1>6
  <2>2. queue[k] = log[Len(log) - Len(queue) + k]
    BY <2>1
  <2> QED
    BY <1>2, <2>1, <2>2
<1> QED
  BY <1>3, <1>4, <1>5, <1>6

\* Nothing waits once the queue is empty and no drain is under way.
LEMMA NoneWaiting ==
    ASSUME CoreState, queue = <<>>, ~draining
    PROVE  Waiting = {}
<1>1. batch = <<>>
  BY DEF CoreState, Core, Drained
<1> QED
  BY <1>1, WaitingPlaces

-----------------------------------------------------------------------------
\* Drains.

\* Taking a batch keeps the log in order and everything waiting accounted for.
LEMMA CoreDrain ==
    ASSUME NEW lg, NEW sb, NEW tp, NEW q,
           Core(lg, sb, tp, q, draining, batch, left, observing), Drain(q, tp)
    PROVE  /\ Core(lg, sb, tp, queue', draining', batch', left', observing')
           /\ Load(tp, queue', batch', left') = Load(tp, q, batch, left)
<1>0. lg \in Seq(Events) /\ q \in Seq(Events) /\ batch \in Seq(Events)
  BY DEF Core, Placed
<1>1. CASE queue' = q /\ UNCHANGED drainVars
  BY <1>1 DEF drainVars
<1>2. ASSUME NEW n \in Nat, Taken(n, q, tp)
      PROVE  /\ Core(lg, sb, tp, queue', draining', batch', left', observing')
             /\ Load(tp, queue', batch', left') = Load(tp, q, batch, left)
  <2>0. Len(lg) \in Nat /\ Len(q) \in Nat /\ n \in 1..Len(q)
    BY <1>0, <1>2 DEF Taken
  <2>1. batch = <<>> /\ left = {} /\ ~observing
    <3>1. batch = <<>>
      BY <1>2 DEF Taken, Core, Drained
    <3>2. 1..Len(batch) = {}
      BY <3>1
    <3>3. left = {}
      BY <3>2 DEF Core, Drained
    <3> QED
      BY <3>1, <3>3 DEF Core, Drained
  <2>2. /\ ~observing' /\ draining'
        /\ queue' \in Seq(Events) /\ Len(queue') = Len(q) - n
        /\ \A i \in 1..Len(q) - n : queue'[i] = q[n + i]
        /\ batch' \in Seq(Events) /\ Len(batch') = n
        /\ \A i \in 1..n : batch'[i] = q[i]
        /\ left' = {tp[q[i]] : i \in 1..n}
    BY <1>2, <2>1 DEF Taken
  <2>3. Len(batch) = 0 /\ Len(q) <= Len(lg)
    BY <2>0, <2>1 DEF Core, Placed
  <2>4. /\ \A i \in 1..Len(q) : q[i] = lg[Len(lg) - Len(q) + i]
        /\ \A i, j \in 1..Len(lg) : lg[i] = lg[j] => i = j
    BY DEF Core, Placed
  <2>5. \A i \in 1..n : i \in 1..Len(q)
    BY <2>0
  <2>6. \A i \in 1..Len(q) - n : n + i \in 1..Len(q)
    BY <2>0
  <2>7. Placed(lg, queue', batch')
    <3>1. \A i \in 1..Len(queue') : queue'[i] = lg[Len(lg) - Len(queue') + i]
      <4> SUFFICES ASSUME NEW i \in 1..Len(q) - n
                   PROVE  queue'[i] = lg[Len(lg) - Len(queue') + i]
        BY <2>2
      <4>1. queue'[i] = q[n + i] /\ q[n + i] = lg[Len(lg) - Len(q) + (n + i)]
        BY <2>2, <2>4, <2>6
      <4>2. Len(lg) - Len(q) + (n + i) = Len(lg) - Len(queue') + i
        BY <2>0, <2>2
      <4> QED
        BY <4>1, <4>2
    <3>2. \A i \in 1..Len(batch') : batch'[i] = lg[Len(lg) - Len(queue') - Len(batch') + i]
      <4>1. Len(lg) - Len(queue') - Len(batch') = Len(lg) - Len(q)
        BY <2>0, <2>2
      <4> QED
        BY <2>2, <2>4, <2>5, <4>1
    <3>3. Len(batch') + Len(queue') <= Len(lg)
      BY <2>0, <2>2, <2>3
    <3> QED
      BY <1>0, <2>2, <2>4, <3>1, <3>2, <3>3 DEF Placed
  <2>8. Fates(lg, sb, tp, queue', batch', left', observing')
    <3>1. Len(lg) - Len(queue') - Len(batch') = Len(lg) - Len(q) - Len(batch)
      BY <2>0, <2>2, <2>3
    <3>2. \A i \in 1..Len(lg) - Len(queue') - Len(batch') : sb[lg[i]] # "waiting"
      BY <3>1 DEF Core, Fates
    <3>3. \A i \in 1..Len(queue') : sb[queue'[i]] = "waiting"
      BY <2>2, <2>6 DEF Core, Fates
    <3>4. \A i \in 1..n : sb[batch'[i]] = "waiting" /\ tp[batch'[i]] \in left'
      BY <2>2, <2>5 DEF Core, Fates
    <3> QED
      BY <2>2, <3>2, <3>3, <3>4 DEF Core, Fates
  <2>9. Drained(draining', tp, batch', left', observing')
    <3>1. \A i \in 1..n : tp[batch'[i]] = tp[q[i]]
      BY <2>2
    <3>2. left' = {tp[batch'[i]] : i \in 1..Len(batch')}
      BY <2>2, <3>1
    <3> QED
      BY <2>2, <3>2 DEF Drained
  <2>10. Load(tp, queue', batch', left') = Load(tp, q, batch, left)
    <3>1. {i \in 1..Len(batch') : tp[batch'[i]] \in left'} = 1..n
      BY <2>2
    <3>2. {i \in 1..Len(batch) : tp[batch[i]] \in left} = {}
      BY <2>3
    <3>3. Cardinality(1..n) = n /\ Cardinality({}) = 0
      BY <2>0, FS_Interval, FS_EmptySet
    <3>4. Load(tp, queue', batch', left') = (Len(q) - n) + n /\ Load(tp, q, batch, left) = Len(q) + 0
      BY <2>2, <3>1, <3>2, <3>3 DEF Load
    <3> QED
      BY <2>0, <3>4
  <2> QED
    BY <2>7, <2>8, <2>9, <2>10 DEF Core
<1> QED
  BY <1>0, <1>1, <1>2, DrainFacts

-----------------------------------------------------------------------------
\* The queue.

\* An event that joins the queue joins the log, and waits.
LEMMA CoreAdmit ==
    ASSUME TypeOK, CoreState, NEW e \in Events, submit[e] = "preparing",
           NEW sb, sb = [submit EXCEPT ![e] = "waiting"],
           NEW c \in Conversations, NEW tp, tp = [topic EXCEPT ![e] = c]
    PROVE  /\ Core(Append(log, e), sb, tp, Append(queue, e), draining, batch, left,
                   observing)
           /\ Load(tp, Append(queue, e), batch, left) = Load(topic, queue, batch, left) + 1
<1> DEFINE lg == Append(log, e)
           q == Append(queue, e)
<1>1. /\ Placed(log, queue, batch) /\ Fates(log, submit, topic, queue, batch, left, observing)
      /\ Drained(draining, topic, batch, left, observing)
  BY DEF CoreState, Core
<1>2. \A i \in 1..Len(log) : log[i] # e
  BY <1>1 DEF Fates
<1>3. /\ log \in Seq(Events) /\ queue \in Seq(Events) /\ batch \in Seq(Events)
      /\ Len(log) \in Nat /\ Len(queue) \in Nat /\ Len(batch) \in Nat
      /\ Len(batch) + Len(queue) <= Len(log)
  BY <1>1 DEF Placed
<1>4. /\ lg \in Seq(Events) /\ Len(lg) = Len(log) + 1 /\ lg[Len(lg)] = e
      /\ \A i \in 1..Len(log) : lg[i] = log[i]
      /\ q \in Seq(Events) /\ Len(q) = Len(queue) + 1 /\ q[Len(q)] = e
      /\ \A i \in 1..Len(queue) : q[i] = queue[i]
  BY <1>3
<1>5. /\ \A i \in 1..Len(queue) : Len(log) - Len(queue) + i \in 1..Len(log)
      /\ \A i \in 1..Len(batch) : Len(log) - Len(queue) - Len(batch) + i \in 1..Len(log)
      /\ Len(lg) - Len(q) = Len(log) - Len(queue)
  BY <1>3, <1>4
<1>6. /\ \A i \in 1..Len(queue) : queue[i] # e
      /\ \A i \in 1..Len(batch) : batch[i] # e
  <2>1. /\ \A i \in 1..Len(queue) : queue[i] = log[Len(log) - Len(queue) + i]
        /\ \A i \in 1..Len(batch) : batch[i] = log[Len(log) - Len(queue) - Len(batch) + i]
    BY <1>1 DEF Placed
  <2> QED
    BY <1>2, <1>5, <2>1
<1>7. \A f \in Events : f # e => sb[f] = submit[f] /\ tp[f] = topic[f]
  BY DEF TypeOK
<1>8. sb[e] = "waiting" /\ tp[e] = c
  BY DEF TypeOK
<1> HIDE DEF lg, q
<1>9. Placed(lg, q, batch)
  <2>1. \A i \in 1..Len(q) : q[i] = lg[Len(lg) - Len(q) + i]
    <3> SUFFICES ASSUME NEW i \in 1..Len(q) PROVE q[i] = lg[Len(lg) - Len(q) + i]
      OBVIOUS
    <3>1. CASE i \in 1..Len(queue)
      <4>1. queue[i] = log[Len(log) - Len(queue) + i]
        BY <1>1, <3>1 DEF Placed
      <4> QED
        BY <1>4, <1>5, <3>1, <4>1
    <3>2. CASE i = Len(q)
      <4>1. Len(lg) - Len(q) + i = Len(lg)
        BY <1>3, <1>4, <3>2
      <4> QED
        BY <1>4, <3>2, <4>1
    <3> QED
      BY <1>3, <1>4, <3>1, <3>2
  <2>2. \A i \in 1..Len(batch) : batch[i] = lg[Len(lg) - Len(q) - Len(batch) + i]
    BY <1>1, <1>4, <1>5 DEF Placed
  <2>3. \A i, j \in 1..Len(lg) : lg[i] = lg[j] => i = j
    <3>1. \A i \in 1..Len(lg) : i \in 1..Len(log) \/ i = Len(lg)
      BY <1>3, <1>4
    <3>2. \A i, j \in 1..Len(log) : log[i] = log[j] => i = j
      BY <1>1 DEF Placed
    <3> QED
      BY <1>2, <1>4, <3>1, <3>2
  <2>4. Len(batch) + Len(q) <= Len(lg)
    BY <1>3, <1>4
  <2> QED
    BY <1>3, <1>4, <2>1, <2>2, <2>3, <2>4 DEF Placed
<1>10. Fates(lg, sb, tp, q, batch, left, observing)
  <2>1. \A f \in Events :
            sb[f] \in {"waiting", "committed", "failed"} <=> \E i \in 1..Len(lg) : lg[i] = f
    <3>0. (\A i \in 1..Len(lg) : i \in 1..Len(log) \/ i = Len(lg)) /\ (\A i \in 1..Len(log) : i \in 1..Len(lg))
      BY <1>3, <1>4
    <3>1. \A f \in Events : f # e => ((\E i \in 1..Len(lg) : lg[i] = f) <=> \E i \in 1..Len(log) : log[i] = f)
      BY <1>4, <3>0
    <3>2. \E i \in 1..Len(lg) : lg[i] = e
      BY <1>3, <1>4
    <3> QED
      BY <1>1, <1>7, <1>8, <3>1, <3>2 DEF Fates
  <2>2. \A i \in 1..Len(lg) - Len(q) - Len(batch) : sb[lg[i]] # "waiting"
    <3>1. \A i \in 1..Len(lg) - Len(q) - Len(batch) :
              i \in 1..Len(log) - Len(queue) - Len(batch) /\ i \in 1..Len(log)
      BY <1>3, <1>4
    <3>2. \A i \in 1..Len(log) : log[i] \in Events /\ sb[log[i]] = submit[log[i]]
      BY <1>2, <1>3, <1>7
    <3>3. \A i \in 1..Len(log) - Len(queue) - Len(batch) : submit[log[i]] # "waiting"
      BY <1>1 DEF Fates
    <3> QED
      BY <1>4, <3>1, <3>2, <3>3
  <2>3. \A i \in 1..Len(q) : sb[q[i]] = "waiting"
    <3>1. \A i \in 1..Len(queue) : queue[i] \in Events /\ submit[queue[i]] = "waiting"
      BY <1>1, <1>3 DEF Fates
    <3>2. \A i \in 1..Len(q) : i \in 1..Len(queue) \/ i = Len(q)
      BY <1>3, <1>4
    <3> QED
      BY <1>4, <1>6, <1>7, <1>8, <3>1, <3>2
  <2>4. \A i \in 1..Len(batch) : batch[i] \in Events /\ sb[batch[i]] = submit[batch[i]]
                                /\ tp[batch[i]] = topic[batch[i]]
    BY <1>3, <1>6, <1>7
  <2>5. \A d : NextOf(batch, tp, left, d) <=> NextOf(batch, topic, left, d)
    BY <2>4 DEF NextOf
  <2>6. \A i \in 1..Len(lg) : tp[lg[i]] \in Conversations
    <3>1. \A i \in 1..Len(lg) : i \in 1..Len(log) \/ i = Len(lg)
      BY <1>3, <1>4
    <3>2. \A i \in 1..Len(log) : log[i] \in Events /\ topic[log[i]] \in Conversations
      BY <1>1, <1>3 DEF Fates
    <3> QED
      BY <1>2, <1>4, <1>7, <1>8, <3>1, <3>2
  <2>7. \A i \in 1..Len(batch) :
            sb[batch[i]] = "waiting" <=>
               tp[batch[i]] \in left /\ ~(observing /\ NextOf(batch, tp, left, tp[batch[i]]))
    BY <1>1, <2>4, <2>5 DEF Fates
  <2> QED
    BY <2>1, <2>2, <2>3, <2>6, <2>7 DEF Fates
<1>11. \A i \in 1..Len(batch) : tp[batch[i]] = topic[batch[i]]
  BY <1>3, <1>6, <1>7
<1>12. Drained(draining, tp, batch, left, observing)
  BY <1>1, <1>11 DEF Drained
<1>13. Load(tp, q, batch, left) = Load(topic, queue, batch, left) + 1
  <2>1. {i \in 1..Len(batch) : tp[batch[i]] \in left} = {i \in 1..Len(batch) : topic[batch[i]] \in left}
    BY <1>11
  <2>2. PICK k \in Nat : k = Cardinality({i \in 1..Len(batch) : topic[batch[i]] \in left})
    BY <1>3, IndexSets
  <2>3. Load(tp, q, batch, left) = Len(queue) + 1 + k /\ Load(topic, queue, batch, left) = Len(queue) + k
    BY <1>4, <2>1, <2>2 DEF Load
  <2> QED
    BY <1>3, <2>2, <2>3
<1> QED
  BY <1>9, <1>10, <1>12, <1>13 DEF Core, lg, q

-----------------------------------------------------------------------------
\* The batch.

\* A conversation that is left has events in the batch.
LEMMA GroupFacts ==
    ASSUME TypeOK, CoreState, NEW c \in left
    PROVE  /\ GroupAt(c) \in SUBSET (1..Len(batch)) /\ GroupAt(c) # {}
           /\ Cardinality(GroupAt(c)) \in Nat \ {0}
           /\ Group(c) # {} /\ Group(c) \subseteq Events
           /\ \A i \in 1..Len(batch) : batch[i] \in Group(c) <=> topic[batch[i]] = c
<1>1. batch \in Seq(Events) /\ DOMAIN batch = 1..Len(batch) /\ Len(batch) \in Nat
  BY DEF TypeOK
<1>2. GroupAt(c) = {i \in 1..Len(batch) : topic[batch[i]] = c}
  BY <1>1 DEF GroupAt
<1>3. left \subseteq {topic[batch[i]] : i \in 1..Len(batch)}
  BY DEF CoreState, Core, Drained
<1>4. GroupAt(c) # {}
  BY <1>2, <1>3
<1>5. IsFiniteSet(GroupAt(c)) /\ Cardinality(GroupAt(c)) \in Nat
  BY <1>1, <1>2, IndexSets
<1>6. Cardinality(GroupAt(c)) # 0
  BY <1>4, <1>5, FS_EmptySet
<1>7. Group(c) # {} /\ Group(c) \subseteq Events
  BY <1>1, <1>2, <1>4 DEF Group
<1>8. \A i \in 1..Len(batch) : batch[i] \in Group(c) <=> topic[batch[i]] = c
  BY <1>2 DEF Group
<1> QED
  BY <1>2, <1>4, <1>5, <1>6, <1>7, <1>8

\* What the settled conversation takes off pending.
LEMMA LoadLess ==
    ASSUME TypeOK, CoreState, NEW c \in left
    PROVE  /\ Load(topic, queue, batch, left \ {c})
                 = Load(topic, queue, batch, left) - Cardinality(GroupAt(c))
           /\ Load(topic, queue, batch, left \ {c}) \in Nat
<1> DEFINE S == {i \in 1..Len(batch) : topic[batch[i]] \in left}
           T == {i \in 1..Len(batch) : topic[batch[i]] \in left \ {c}}
<1>1. batch \in Seq(Events) /\ DOMAIN batch = 1..Len(batch) /\ Len(batch) \in Nat /\ Len(queue) \in Nat
  BY DEF TypeOK
<1>2. T = S \ GroupAt(c) /\ S \cap GroupAt(c) = GroupAt(c)
  BY <1>1 DEF GroupAt
<1>3. IsFiniteSet(S) /\ Cardinality(S) \in Nat
  BY <1>1, IndexSets
<1>4. Cardinality(T) = Cardinality(S) - Cardinality(GroupAt(c))
  BY <1>2, <1>3, FS_Difference
<1>5. Cardinality(T) \in Nat
  BY <1>1, IndexSets
<1>6. Cardinality(GroupAt(c)) \in Nat
  BY GroupFacts
<1>7. /\ Load(topic, queue, batch, left \ {c}) = Len(queue) + Cardinality(T)
      /\ Load(topic, queue, batch, left) = Len(queue) + Cardinality(S)
  BY DEF Load
<1> HIDE DEF S, T
<1> QED
  BY <1>1, <1>3, <1>4, <1>5, <1>6, <1>7

\* Events of the conversation that is next wait, unless onError is told of them.
LEMMA GroupWaits ==
    ASSUME TypeOK, CoreState, ~observing, NEW c \in left
    PROVE  Group(c) \subseteq Waiting
<1>1. DOMAIN batch = 1..Len(batch) /\ \A i \in 1..Len(batch) : batch[i] \in Events
  BY DEF TypeOK
<1>2. \A i \in GroupAt(c) : i \in 1..Len(batch) /\ topic[batch[i]] = c
  BY <1>1 DEF GroupAt
<1>3. \A i \in GroupAt(c) : submit[batch[i]] = "waiting"
  BY <1>2 DEF CoreState, Core, Fates
<1> QED
  BY <1>1, <1>2, <1>3 DEF Group, Waiting

\* The events of the next conversation are settled, and those of the log alone.
LEMMA CoreSettled ==
    ASSUME TypeOK, CoreState, ~observing, NEW c \in left, IsNext(c),
           NEW verdict \in {"committed", "failed"}, NEW sb,
           sb = [e \in Events |-> IF e \in Group(c) THEN verdict ELSE submit[e]]
    PROVE  /\ Core(log, sb, topic, queue, draining, batch, left \ {c}, FALSE)
           /\ Core(log, sb, topic, queue, draining, batch, left, TRUE)
<1>1. /\ Placed(log, queue, batch) /\ Fates(log, submit, topic, queue, batch, left, observing)
      /\ Drained(draining, topic, batch, left, observing)
  BY DEF CoreState, Core
<1>2. /\ log \in Seq(Events) /\ queue \in Seq(Events) /\ batch \in Seq(Events)
      /\ Len(log) \in Nat /\ Len(queue) \in Nat /\ Len(batch) \in Nat
      /\ Len(batch) + Len(queue) <= Len(log)
  BY <1>1 DEF Placed
<1>3. Group(c) \subseteq Waiting /\ Group(c) \subseteq Events
  BY GroupWaits, GroupFacts
<1>4. \A e \in Events : sb[e] = IF e \in Group(c) THEN verdict ELSE submit[e]
  OBVIOUS
<1>5. \A e \in Events : e \in Group(c) => \E i \in 1..Len(batch) : batch[i] = e
  <2>1. DOMAIN batch = 1..Len(batch)
    BY <1>2
  <2> QED
    BY <2>1 DEF Group, GroupAt
<1>6. \A e \in Events :
          sb[e] \in {"waiting", "committed", "failed"} <=> \E i \in 1..Len(log) : log[i] = e
  <2>1. \A e \in Group(c) : submit[e] = "waiting"
    BY <1>3 DEF Waiting
  <2> QED
    BY <1>1, <1>4, <2>1 DEF Fates
<1>7. \A i \in 1..Len(log) - Len(queue) - Len(batch) : sb[log[i]] # "waiting"
  <2>1. \A i \in 1..Len(log) - Len(queue) - Len(batch) : i \in 1..Len(log) /\ log[i] \in Events
    BY <1>2
  <2>2. \A i \in 1..Len(log) - Len(queue) - Len(batch) : submit[log[i]] # "waiting"
    BY <1>1 DEF Fates
  <2> QED
    BY <1>4, <2>1, <2>2
<1>8. \A i \in 1..Len(queue) : sb[queue[i]] = "waiting"
  <2> SUFFICES ASSUME NEW i \in 1..Len(queue) PROVE sb[queue[i]] = "waiting"
    OBVIOUS
  <2>1. submit[queue[i]] = "waiting" /\ queue[i] \in Events
    BY <1>1, <1>2 DEF Fates
  <2>2. ASSUME NEW k \in 1..Len(batch), batch[k] = queue[i] PROVE FALSE
    <3>1. queue[i] = log[Len(log) - Len(queue) + i] /\ batch[k] = log[Len(log) - Len(queue) - Len(batch) + k]
      BY <1>1 DEF Placed
    <3>2. /\ Len(log) - Len(queue) + i \in 1..Len(log)
          /\ Len(log) - Len(queue) - Len(batch) + k \in 1..Len(log)
          /\ Len(log) - Len(queue) + i # Len(log) - Len(queue) - Len(batch) + k
      BY <1>2
    <3> QED
      BY <1>1, <2>2, <3>1, <3>2 DEF Placed
  <2>3. queue[i] \notin Group(c)
    BY <1>5, <2>1, <2>2
  <2> QED
    BY <1>4, <2>1, <2>3
<1>9. \A i \in 1..Len(batch) : sb[batch[i]] = "waiting" <=> topic[batch[i]] \in left \ {c}
  <2> SUFFICES ASSUME NEW i \in 1..Len(batch)
               PROVE  sb[batch[i]] = "waiting" <=> topic[batch[i]] \in left \ {c}
    OBVIOUS
  <2>1. batch[i] \in Events /\ (batch[i] \in Group(c) <=> topic[batch[i]] = c)
    BY <1>2, GroupFacts
  <2>2. submit[batch[i]] = "waiting" <=> topic[batch[i]] \in left
    BY <1>1 DEF Fates
  <2> QED
    BY <1>4, <2>1, <2>2
<1>10. NextOf(batch, topic, left, c)
  BY <1>2, IsNextFacts
<1>11. \A d : NextOf(batch, topic, left, d) <=> d = c
  BY <1>2, <1>10, NextUnique
<1>12. Fates(log, sb, topic, queue, batch, left \ {c}, FALSE)
  BY <1>1, <1>6, <1>7, <1>8, <1>9 DEF Fates
<1>13. Fates(log, sb, topic, queue, batch, left, TRUE)
  BY <1>1, <1>6, <1>7, <1>8, <1>9, <1>11 DEF Fates
<1>14. /\ Drained(draining, topic, batch, left \ {c}, FALSE)
       /\ Drained(draining, topic, batch, left, TRUE)
  BY <1>1 DEF Drained
<1> QED
  BY <1>1, <1>12, <1>13, <1>14 DEF Core

\* onError is done with the next conversation.
LEMMA CoreObserved ==
    ASSUME TypeOK, CoreState, observing, NEW c \in left, IsNext(c)
    PROVE  Core(log, submit, topic, queue, draining, batch, left \ {c}, FALSE)
<1>1. /\ Placed(log, queue, batch) /\ Fates(log, submit, topic, queue, batch, left, observing)
      /\ Drained(draining, topic, batch, left, observing)
  BY DEF CoreState, Core
<1>2. batch \in Seq(Events) /\ Len(batch) \in Nat
  BY DEF TypeOK
<1>3. \A d : NextOf(batch, topic, left, d) <=> d = c
  BY <1>2, IsNextFacts, NextUnique
<1>4. \A i \in 1..Len(batch) : submit[batch[i]] = "waiting" <=> topic[batch[i]] \in left \ {c}
  BY <1>1, <1>3 DEF Fates
<1>5. Fates(log, submit, topic, queue, batch, left \ {c}, FALSE)
  BY <1>1, <1>4 DEF Fates
<1>6. Drained(draining, topic, batch, left \ {c}, FALSE)
  BY <1>1 DEF Drained
<1> QED
  BY <1>1, <1>5, <1>6 DEF Core

\* A drain that ends leaves nothing of its batch waiting.
LEMMA CoreEnded ==
    ASSUME TypeOK, CoreState, left = {}, NEW bt \in Seq(Events), Len(bt) = 0
    PROVE  /\ Core(log, submit, topic, queue, FALSE, bt, left, observing)
           /\ Load(topic, queue, bt, left) = Load(topic, queue, batch, left)
<1>1. /\ Placed(log, queue, batch) /\ Fates(log, submit, topic, queue, batch, left, observing)
      /\ Drained(draining, topic, batch, left, observing)
  BY DEF CoreState, Core
<1>2. /\ log \in Seq(Events) /\ queue \in Seq(Events) /\ batch \in Seq(Events)
      /\ Len(log) \in Nat /\ Len(queue) \in Nat /\ Len(batch) \in Nat
      /\ Len(batch) + Len(queue) <= Len(log)
  BY <1>1 DEF Placed
<1>3. 1..Len(bt) = {}
  OBVIOUS
<1>4. Placed(log, queue, bt)
  BY <1>1, <1>2, <1>3 DEF Placed
<1>5. \A i \in 1..Len(log) - Len(queue) - Len(bt) : submit[log[i]] # "waiting"
  <2>0. Len(log) - Len(queue) - Len(bt) = Len(log) - Len(queue)
    BY <1>2
  <2> SUFFICES ASSUME NEW i \in 1..Len(log) - Len(queue) PROVE submit[log[i]] # "waiting"
    BY <2>0
  <2>1. CASE i <= Len(log) - Len(queue) - Len(batch)
    BY <1>1, <1>2, <2>1 DEF Fates
  <2>2. CASE i > Len(log) - Len(queue) - Len(batch)
    <3> DEFINE k == i - (Len(log) - Len(queue) - Len(batch))
    <3>1. k \in 1..Len(batch) /\ Len(log) - Len(queue) - Len(batch) + k = i
      BY <1>2, <2>2
    <3>2. batch[k] = log[Len(log) - Len(queue) - Len(batch) + k]
      BY <1>1, <3>1 DEF Placed
    <3>3. submit[batch[k]] # "waiting"
      BY <1>1, <3>1 DEF Fates
    <3> QED
      BY <3>1, <3>2, <3>3
  <2> QED
    BY <1>2, <2>1, <2>2
<1>6. Fates(log, submit, topic, queue, bt, left, observing)
  BY <1>1, <1>3, <1>5 DEF Fates
<1>7. Drained(FALSE, topic, bt, left, observing)
  BY <1>1, <1>3 DEF Drained
<1>8. Load(topic, queue, bt, left) = Load(topic, queue, batch, left)
  <2>1. {i \in 1..Len(bt) : topic[bt[i]] \in left} = {i \in 1..Len(batch) : topic[batch[i]] \in left}
    OBVIOUS
  <2> QED
    BY <2>1 DEF Load
<1> QED
  BY <1>4, <1>6, <1>7, <1>8 DEF Core

\* A drain keeps the types, and is under way unless there was nothing to send.
LEMMA DrainTypes ==
    ASSUME TypeOK, NEW lg, NEW sb, NEW tp, NEW q, Len(q) <= MaxQueueSize,
           Core(lg, sb, tp, q, draining, batch, left, observing), Drain(q, tp)
    PROVE  /\ queue' \in Seq(Events) /\ Len(queue') <= MaxQueueSize
           /\ batch' \in Seq(Events) /\ Len(batch') <= MaxBatchSize
           /\ left' \subseteq Conversations
           /\ draining' \in BOOLEAN /\ observing' \in BOOLEAN
           /\ queue' # <<>> => draining'
           /\ draining => draining' /\ queue' = q
<1>0. q \in Seq(Events) /\ Len(q) \in Nat /\ MaxQueueSize \in Nat /\ MaxBatchSize \in Nat
  BY ProcessorAssumption DEF Core, Placed
<1>1. CASE (draining \/ q = <<>>) /\ queue' = q /\ UNCHANGED drainVars
  BY <1>0, <1>1 DEF TypeOK, drainVars
<1>2. ASSUME NEW n \in Nat, Taken(n, q, tp)
      PROVE  /\ queue' \in Seq(Events) /\ Len(queue') <= MaxQueueSize
             /\ batch' \in Seq(Events) /\ Len(batch') <= MaxBatchSize
             /\ left' \subseteq Conversations
             /\ draining' \in BOOLEAN /\ observing' \in BOOLEAN
             /\ draining' /\ ~draining
  <2>1. n \in 1..Len(q) /\ Len(queue') = Len(q) - n /\ Len(batch') = n /\ n <= MaxBatchSize
    BY <1>2 DEF Taken
  <2>2. Len(queue') <= MaxQueueSize
    BY <1>0, <2>1
  <2>3. \A i \in 1..n : tp[q[i]] \in Conversations
    <3>1. Len(lg) \in Nat /\ Len(batch) \in Nat /\ Len(batch) + Len(q) <= Len(lg)
      BY DEF Core, Placed
    <3>2. \A i \in 1..n : i \in 1..Len(q) /\ Len(lg) - Len(q) + i \in 1..Len(lg)
      BY <1>0, <2>1, <3>1
    <3> QED
      BY <3>2 DEF Core, Placed, Fates
  <2> QED
    BY <1>2, <2>1, <2>2, <2>3 DEF Taken, TypeOK
<1> QED
  BY <1>0, <1>1, <1>2, DrainFacts

-----------------------------------------------------------------------------
\* Initially.

LEMMA InitInv == Init => IInv
<1> SUFFICES ASSUME Init PROVE IInv
  OBVIOUS
<1> USE DEF Init
<1>2. Len(log) = 0 /\ Len(queue) = 0 /\ Len(batch) = 0
  OBVIOUS
<1>1. TypeOK
  <2>1. log \in Seq(Events) /\ queue \in Seq(Events) /\ batch \in Seq(Events)
    OBVIOUS
  <2>2. Len(queue) <= MaxQueueSize /\ Len(batch) <= MaxBatchSize
    BY <1>2, ProcessorAssumption
  <2> QED
    BY <2>1, <2>2 DEF TypeOK
<1>3. Placed(log, queue, batch)
  BY <1>1, <1>2 DEF Placed, TypeOK
<1>4. Fates(log, submit, topic, queue, batch, left, observing)
  BY <1>2 DEF Fates
<1>5. Drained(draining, topic, batch, left, observing)
  BY DEF Drained
<1>6. CoreState
  BY <1>3, <1>4, <1>5 DEF CoreState, Core
<1>7. PendingCounts
  <2>1. {i \in 1..Len(batch) : topic[batch[i]] \in left} = {}
    BY <1>2
  <2>2. Cardinality({}) = 0
    BY FS_EmptySet
  <2> QED
    BY <1>2, <2>1, <2>2 DEF PendingCounts, Load
<1>8. FailuresCount /\ OwedState /\ ClosedState /\ NothingStranded
  BY DEF FailuresCount, OwedState, ClosedState, NothingStranded
<1> QED
  BY <1>1, <1>6, <1>7, <1>8 DEF IInv

-----------------------------------------------------------------------------
\* Steps of submit.

\* A submit that begins, or ends without admitting its event.
Aside(e, v) ==
    /\ submit[e] \in {"new", "preparing"}
    /\ submit' = [submit EXCEPT ![e] = v]
    /\ dropped' \in Nat
    /\ UNCHANGED <<topic, queueVars, timer, drainVars, closed, committed, failed,
                   pending, callVars>>

LEMMA AsideStep ==
    ASSUME IInv, NEW e \in Events, NEW v \in {"preparing", "dropped", "refused"}, Aside(e, v)
    PROVE  IInv'
<1> USE DEF Aside, queueVars, drainVars, callVars
<1>0. TypeOK /\ CoreState
  BY DEF IInv
<1>1. TypeOK'
  BY <1>0 DEF TypeOK
<1>2. \A f \in Events : submit'[f] # submit[f] =>
          f = e /\ submit[f] \in {"new", "preparing"}
                /\ submit'[f] \in {"preparing", "dropped", "refused"}
  BY <1>0 DEF TypeOK
<1>3. \A f \in Events : submit[f] \in {"waiting", "committed", "failed"}
                         \/ submit'[f] \in {"waiting", "committed", "failed"} => submit'[f] = submit[f]
  BY <1>2
<1>4. CoreState'
  <2>1. \A i \in 1..Len(log) : log[i] \in Events /\ submit'[log[i]] = submit[log[i]]
    BY <1>0, <1>3 DEF TypeOK, CoreState, Core, Fates
  <2>2. /\ \A i \in 1..Len(log) - Len(queue) - Len(batch) : i \in 1..Len(log)
        /\ \A i \in 1..Len(queue) : queue[i] \in Events /\ submit'[queue[i]] = submit[queue[i]]
        /\ \A i \in 1..Len(batch) : batch[i] \in Events /\ submit'[batch[i]] = submit[batch[i]]
    <3>1. /\ Len(log) \in Nat /\ Len(queue) \in Nat /\ Len(batch) \in Nat
          /\ Len(batch) + Len(queue) <= Len(log)
      BY <1>0 DEF TypeOK, CoreState, Core, Placed
    <3>2. /\ \A i \in 1..Len(queue) : Len(log) - Len(queue) + i \in 1..Len(log)
          /\ \A i \in 1..Len(batch) : Len(log) - Len(queue) - Len(batch) + i \in 1..Len(log)
          /\ \A i \in 1..Len(log) - Len(queue) - Len(batch) : i \in 1..Len(log)
      BY <3>1
    <3>3. /\ \A i \in 1..Len(queue) : queue[i] = log[Len(log) - Len(queue) + i]
          /\ \A i \in 1..Len(batch) : batch[i] = log[Len(log) - Len(queue) - Len(batch) + i]
      BY <1>0 DEF CoreState, Core, Placed
    <3> QED
      BY <2>1, <3>2, <3>3
  <2>3. Fates(log, submit, topic, queue, batch, left, observing)'
    <3>1. \A f \in Events :
              submit'[f] \in {"waiting", "committed", "failed"} <=> \E i \in 1..Len(log) : log[i] = f
      BY <1>0, <1>3 DEF CoreState, Core, Fates
    <3> QED
      BY <1>0, <2>1, <2>2, <3>1 DEF CoreState, Core, Fates, NextOf
  <2> QED
    BY <1>0, <2>3 DEF CoreState, Core, Placed, Drained
<1>5. PendingCounts'
  BY DEF IInv, PendingCounts, Load
<1>6. FailuresCount'
  BY <1>3 DEF IInv, FailuresCount
<1>7. OwedState'
  <2>1. Waiting' = Waiting
    BY <1>3 DEF Waiting
  <2> QED
    BY <2>1 DEF IInv, OwedState
<1>8. ClosedState' /\ NothingStranded'
  BY DEF IInv, ClosedState, NothingStranded
<1> QED
  BY <1>1, <1>4, <1>5, <1>6, <1>7, <1>8 DEF IInv

\* submit admits its event.
LEMMA AdmitStep ==
    ASSUME IInv, NEW e \in Events, Admit(e)
    PROVE  IInv'
<1>0. TypeOK /\ CoreState
  BY DEF IInv
<1>1. submit[e] = "preparing"
  BY DEF Admit, Prepared
<1>2. PICK c \in Conversations : topic' = [topic EXCEPT ![e] = c]
  BY DEF Admit
<1>3. PICK sb, tp : sb = submit' /\ tp = topic'
  OBVIOUS
<1>4. PICK lg, q : lg = Append(log, e) /\ q = Append(queue, e)
  OBVIOUS
<1>5. /\ sb = [submit EXCEPT ![e] = "waiting"] /\ tp = [topic EXCEPT ![e] = c]
      /\ log' = lg /\ pending' = pending + 1
      /\ ~closed /\ Len(queue) < MaxQueueSize
      /\ UNCHANGED <<closed, committed, failed, dropped, callVars>>
  BY <1>2, <1>3, <1>4 DEF Admit
<1>6. /\ Core(lg, sb, tp, q, draining, batch, left, observing)
      /\ Load(tp, q, batch, left) = Load(topic, queue, batch, left) + 1
  BY <1>0, <1>1, <1>4, <1>5, CoreAdmit
<1>7. lg \in Seq(Events) /\ q \in Seq(Events) /\ Len(q) = Len(queue) + 1 /\ Len(q) <= MaxQueueSize
      /\ Len(queue) \in Nat
  BY <1>0, <1>4, <1>5, ProcessorAssumption DEF TypeOK
<1>8. /\ Core(lg, sb, tp, queue', draining', batch', left', observing')
      /\ Load(tp, queue', batch', left') = Load(tp, q, batch, left)
      /\ queue' \in Seq(Events) /\ Len(queue') <= MaxQueueSize
      /\ batch' \in Seq(Events) /\ Len(batch') <= MaxBatchSize
      /\ left' \subseteq Conversations
      /\ draining' \in BOOLEAN /\ observing' \in BOOLEAN
      /\ timer' \in BOOLEAN
      /\ queue' # <<>> => timer' \/ draining'
  <2>1. CASE Len(queue) + 1 >= MaxBatchSize
    <3>1. timer' = FALSE /\ Drain(q, tp)
      BY <1>3, <1>4, <2>1 DEF Admit, Join
    <3> QED
      BY <1>0, <1>6, <1>7, <3>1, CoreDrain, DrainTypes
  <2>2. CASE ~(Len(queue) + 1 >= MaxBatchSize)
    <3>1. timer' = (timer \/ ~draining) /\ queue' = q /\ UNCHANGED drainVars
      BY <1>3, <1>4, <2>2 DEF Admit, Join
    <3> QED
      BY <1>0, <1>6, <1>7, <3>1 DEF drainVars, TypeOK
  <2> QED
    BY <2>1, <2>2
<1>9. TypeOK'
  <2>1. submit' \in [Events -> {"new", "preparing", "waiting", "committed", "failed", "dropped", "refused"}]
        /\ topic' \in [Events -> Conversations \union {NoConversation}]
    BY <1>0, <1>2, <1>3, <1>5 DEF TypeOK
  <2>2. pending' \in Nat /\ log' \in Seq(Events)
    BY <1>0, <1>5, <1>7 DEF TypeOK
  <2> QED
    BY <1>0, <1>5, <1>8, <2>1, <2>2 DEF TypeOK, callVars
<1>10. CoreState'
  BY <1>3, <1>5, <1>8 DEF CoreState
<1>11. PendingCounts'
  BY <1>3, <1>5, <1>6, <1>8 DEF IInv, PendingCounts
<1>12. \A f \in Events : submit'[f] = IF f = e THEN "waiting" ELSE submit[f]
  BY <1>0, <1>3, <1>5 DEF TypeOK
<1>13. FailuresCount'
  BY <1>1, <1>5, <1>12 DEF IInv, FailuresCount
<1>14. OwedState'
  <2>1. Waiting \subseteq Waiting'
    BY <1>12 DEF Waiting
  <2> QED
    BY <1>5, <2>1 DEF IInv, OwedState, callVars
<1>15. ClosedState' /\ NothingStranded'
  BY <1>5, <1>8 DEF ClosedState, NothingStranded
<1> QED
  BY <1>9, <1>10, <1>11, <1>13, <1>14, <1>15 DEF IInv

\* Steps of submit.
LEMMA SubmitSteps ==
    ASSUME IInv, NEW e \in Events, Submit(e) \/ Submitting(e)
    PROVE  IInv'
<1>0. dropped \in Nat
  BY DEF IInv, TypeOK
<1>1. CASE Submit(e)
  <2>1. PICK v \in {"preparing", "dropped", "refused"} : v = IF closed THEN "refused" ELSE "preparing"
    OBVIOUS
  <2>2. Aside(e, v)
    BY <1>0, <1>1, <2>1 DEF Submit, Aside, statVars
  <2> QED
    BY <2>2, AsideStep
<1>2. CASE Reject(e)
  <2>1. Aside(e, "refused")
    BY <1>0, <1>2 DEF Reject, Prepared, Aside, statVars
  <2> QED
    BY <2>1, AsideStep
<1>3. CASE DropEvent(e)
  <2>1. Aside(e, "dropped")
    BY <1>0, <1>3 DEF DropEvent, Prepared, Aside
  <2> QED
    BY <2>1, AsideStep
<1>4. CASE TurnAway(e)
  <2>1. Aside(e, "refused") \/ Aside(e, "dropped")
    BY <1>0, <1>4 DEF TurnAway, Prepared, Aside
  <2> QED
    BY <2>1, AsideStep
<1>5. CASE Admit(e)
  BY <1>5, AdmitStep
<1> QED
  BY <1>1, <1>2, <1>3, <1>4, <1>5 DEF Submitting

-----------------------------------------------------------------------------
\* Steps of the drain.

\* A step that may start a drain, and settles nothing.
LEMMA Drains ==
    ASSUME IInv, Drain(queue, topic), UNCHANGED <<eventVars, log, statVars>>
    PROVE  /\ CoreState' /\ PendingCounts' /\ FailuresCount' /\ Waiting' = Waiting
           /\ queue' \in Seq(Events) /\ Len(queue') <= MaxQueueSize
           /\ batch' \in Seq(Events) /\ Len(batch') <= MaxBatchSize
           /\ left' \subseteq Conversations
           /\ draining' \in BOOLEAN /\ observing' \in BOOLEAN
           /\ queue' # <<>> => draining'
           /\ draining => draining' /\ queue' = queue
<1>1. TypeOK /\ Core(log, submit, topic, queue, draining, batch, left, observing)
  BY DEF IInv, CoreState
<1>2. /\ Core(log, submit, topic, queue', draining', batch', left', observing')
      /\ Load(topic, queue', batch', left') = Load(topic, queue, batch, left)
  BY <1>1, CoreDrain
<1>3. CoreState'
  BY <1>2 DEF CoreState, eventVars
<1>4. PendingCounts'
  BY <1>2 DEF IInv, PendingCounts, eventVars, statVars
<1>5. FailuresCount' /\ Waiting' = Waiting
  BY DEF IInv, FailuresCount, Waiting, eventVars, statVars
<1>6. Len(queue) <= MaxQueueSize
  BY <1>1 DEF TypeOK
<1> QED
  BY <1>1, <1>3, <1>4, <1>5, <1>6, DrainTypes

\* The timer fires.
LEMMA TimerStep == ASSUME IInv, TimerFires PROVE IInv'
<1>1. /\ timer /\ timer' = FALSE /\ Drain(queue, topic)
      /\ UNCHANGED <<eventVars, log, closed, statVars, callVars>>
  BY DEF TimerFires
<1>2. ~closed
  BY <1>1 DEF IInv, ClosedState
<1>3. UNCHANGED <<eventVars, log, statVars>>
  BY <1>1
<1>4. /\ CoreState' /\ PendingCounts' /\ FailuresCount' /\ Waiting' = Waiting
      /\ queue' \in Seq(Events) /\ Len(queue') <= MaxQueueSize
      /\ batch' \in Seq(Events) /\ Len(batch') <= MaxBatchSize
      /\ left' \subseteq Conversations
      /\ draining' \in BOOLEAN /\ observing' \in BOOLEAN
      /\ queue' # <<>> => draining'
  BY <1>1, <1>3, Drains
<1>5. TypeOK'
  BY <1>1, <1>4 DEF IInv, TypeOK, eventVars, statVars, callVars
<1>6. OwedState'
  BY <1>1, <1>4 DEF IInv, OwedState, callVars
<1>7. ClosedState' /\ NothingStranded'
  BY <1>1, <1>2, <1>4 DEF ClosedState, NothingStranded
<1> QED
  BY <1>4, <1>5, <1>6, <1>7 DEF IInv

\* The events of a conversation are settled.
LEMMA SettledFacts ==
    ASSUME IInv, ~observing, NEW c \in left, NEW verdict \in {"committed", "failed"},
           Settled(c, verdict), call' = call
    PROVE  /\ submit' \in [Events -> {"new", "preparing", "waiting", "committed",
                                      "failed", "dropped", "refused"}]
           /\ owed' \in [Waiters -> SUBSET Events]
           /\ OwedState'
           /\ Waiting' = Waiting \ Group(c)
           /\ \A e \in Events : submit'[e] = IF e \in Group(c) THEN verdict ELSE submit[e]
           /\ \A e \in Group(c) : submit[e] = "waiting"
<1>0. TypeOK /\ CoreState
  BY DEF IInv
<1>1. submit' = [e \in Events |-> IF e \in Group(c) THEN verdict ELSE submit[e]]
      /\ owed' = [w \in Waiters |-> owed[w] \ Group(c)]
  BY DEF Settled
<1>2. Group(c) \subseteq Waiting /\ Group(c) \subseteq Events
  BY <1>0, GroupWaits, GroupFacts
<1>3. submit' \in [Events -> {"new", "preparing", "waiting", "committed",
                             "failed", "dropped", "refused"}]
      /\ owed' \in [Waiters -> SUBSET Events]
  BY <1>0, <1>1 DEF TypeOK
<1>4. \A e \in Events : submit'[e] = IF e \in Group(c) THEN verdict ELSE submit[e]
  BY <1>1
<1>5. \A e \in Group(c) : submit[e] = "waiting"
  BY <1>2 DEF Waiting
<1>6. Waiting' = Waiting \ Group(c)
  BY <1>4 DEF Waiting
<1>7. OwedState'
  BY <1>1, <1>6 DEF IInv, OwedState
<1> QED
  BY <1>3, <1>4, <1>5, <1>6, <1>7

LEMMA DeliverStep == ASSUME IInv, Deliver PROVE IInv'
<1>0. TypeOK /\ CoreState
  BY DEF IInv
<1>1. PICK c \in left :
          /\ IsNext(c) /\ Settled(c, "committed")
          /\ committed' = committed + Cardinality(GroupAt(c))
          /\ pending' = pending - Cardinality(GroupAt(c))
          /\ left' = left \ {c}
  BY DEF Deliver
<1>2. /\ draining /\ ~observing
      /\ UNCHANGED <<topic, queueVars, timer, draining, batch, observing, closed,
                     failed, dropped, call>>
  BY DEF Deliver
<1>3. PICK sb : sb = submit'
  OBVIOUS
<1>4. sb = [e \in Events |-> IF e \in Group(c) THEN "committed" ELSE submit[e]]
  BY <1>1, <1>3 DEF Settled
<1>5. Core(log, sb, topic, queue, draining, batch, left \ {c}, FALSE)
  BY <1>0, <1>1, <1>2, <1>4, CoreSettled
<1>6. CoreState'
  BY <1>0, <1>1, <1>2, <1>3, <1>5 DEF CoreState, queueVars, TypeOK
<1>7. /\ submit' \in [Events -> {"new", "preparing", "waiting", "committed",
                                  "failed", "dropped", "refused"}]
      /\ owed' \in [Waiters -> SUBSET Events]
      /\ OwedState'
      /\ \A e \in Events : submit'[e] = IF e \in Group(c) THEN "committed" ELSE submit[e]
      /\ \A e \in Group(c) : submit[e] = "waiting"
  BY <1>1, <1>2, SettledFacts
<1>8. /\ Load(topic, queue, batch, left \ {c})
            = Load(topic, queue, batch, left) - Cardinality(GroupAt(c))
      /\ Load(topic, queue, batch, left \ {c}) \in Nat
  BY <1>0, LoadLess
<1>9. PendingCounts' /\ pending' \in Nat
  BY <1>1, <1>2, <1>8 DEF IInv, PendingCounts, queueVars
<1>10. committed' \in Nat
  <2>1. Cardinality(GroupAt(c)) \in Nat
    BY <1>0, GroupFacts
  <2> QED
    BY <1>0, <1>1, <2>1 DEF TypeOK
<1>11. TypeOK'
  BY <1>0, <1>1, <1>2, <1>7, <1>9, <1>10 DEF TypeOK, queueVars
<1>12. FailuresCount'
  BY <1>2, <1>7 DEF IInv, FailuresCount
<1>13. ClosedState' /\ NothingStranded'
  BY <1>2 DEF IInv, ClosedState, NothingStranded, queueVars
<1> QED
  BY <1>6, <1>7, <1>9, <1>11, <1>12, <1>13 DEF IInv

LEMMA FailStep == ASSUME IInv, FailToDeliver PROVE IInv'
<1>0. TypeOK /\ CoreState
  BY DEF IInv
<1>1. PICK c \in left :
          /\ IsNext(c) /\ Settled(c, "failed")
          /\ failed' = failed + Cardinality(GroupAt(c))
  BY DEF FailToDeliver
<1>2. /\ draining /\ ~observing /\ observing'
      /\ observing' = TRUE
      /\ UNCHANGED <<topic, queueVars, timer, draining, batch, left, closed,
                     committed, dropped, pending, call>>
  BY DEF FailToDeliver
<1>3. PICK sb : sb = submit'
  OBVIOUS
<1>4. sb = [e \in Events |-> IF e \in Group(c) THEN "failed" ELSE submit[e]]
  BY <1>1, <1>3 DEF Settled
<1>5. Core(log, sb, topic, queue, draining, batch, left, TRUE)
  BY <1>0, <1>1, <1>2, <1>4, CoreSettled
<1>6. CoreState'
  BY <1>2, <1>3, <1>5 DEF CoreState, queueVars
<1>7. /\ submit' \in [Events -> {"new", "preparing", "waiting", "committed",
                                  "failed", "dropped", "refused"}]
      /\ owed' \in [Waiters -> SUBSET Events]
      /\ OwedState'
      /\ \A e \in Events : submit'[e] = IF e \in Group(c) THEN "failed" ELSE submit[e]
  BY <1>1, <1>2, SettledFacts
<1>8. Cardinality(GroupAt(c)) \in Nat \ {0} /\ Group(c) # {} /\ Group(c) \subseteq Events
  BY <1>0, GroupFacts
<1>9. PendingCounts'
  BY <1>2 DEF IInv, PendingCounts, Load, queueVars
<1>10. failed' \in Nat \ {0}
  BY <1>0, <1>1, <1>8 DEF TypeOK
<1>11. TypeOK'
  BY <1>0, <1>1, <1>2, <1>7, <1>10 DEF TypeOK, queueVars
<1>12. FailuresCount'
  <2>1. PICK e \in Group(c) : e \in Events
    BY <1>8
  <2>2. submit'[e] = "failed"
    BY <1>7, <2>1
  <2> QED
    BY <1>10, <2>1, <2>2 DEF FailuresCount
<1>13. ClosedState' /\ NothingStranded'
  BY <1>2 DEF IInv, ClosedState, NothingStranded, queueVars
<1> QED
  BY <1>6, <1>7, <1>9, <1>11, <1>12, <1>13 DEF IInv

LEMMA ObservedStep == ASSUME IInv, Observed PROVE IInv'
<1>0. TypeOK /\ CoreState
  BY DEF IInv
<1>1. PICK c \in left :
          /\ IsNext(c)
          /\ pending' = pending - Cardinality(GroupAt(c))
          /\ left' = left \ {c}
  BY DEF Observed
<1>2. /\ observing /\ observing' = FALSE
      /\ UNCHANGED <<eventVars, queueVars, timer, draining, batch, closed,
                     committed, failed, dropped, callVars>>
  BY DEF Observed
<1>3. Core(log, submit, topic, queue, draining, batch, left \ {c}, FALSE)
  BY <1>0, <1>1, <1>2, CoreObserved
<1>4. CoreState'
  BY <1>1, <1>2, <1>3 DEF CoreState, queueVars, eventVars
<1>5. /\ Load(topic, queue, batch, left \ {c})
            = Load(topic, queue, batch, left) - Cardinality(GroupAt(c))
      /\ Load(topic, queue, batch, left \ {c}) \in Nat
  BY <1>0, LoadLess
<1>6. PendingCounts' /\ pending' \in Nat
  BY <1>1, <1>2, <1>5 DEF IInv, PendingCounts, queueVars, eventVars
<1>7. TypeOK'
  BY <1>0, <1>1, <1>2, <1>6 DEF TypeOK, queueVars, eventVars, callVars
<1>8. FailuresCount' /\ OwedState' /\ ClosedState' /\ NothingStranded'
  BY <1>2 DEF IInv, FailuresCount, OwedState, ClosedState, NothingStranded, Waiting,
              queueVars, eventVars, callVars
<1> QED
  BY <1>4, <1>6, <1>7, <1>8 DEF IInv

LEMMA EndDrainStep == ASSUME IInv, EndDrain PROVE IInv'
<1>0. TypeOK /\ CoreState
  BY DEF IInv
<1>1. /\ draining /\ left = {} /\ draining' = FALSE /\ batch' = <<>>
      /\ timer' = (timer \/ (queue # <<>> /\ ~closed))
      /\ call' = [w \in Waiters |-> IF call[w] = "awaiting" THEN "looping" ELSE call[w]]
      /\ UNCHANGED <<eventVars, queueVars, left, observing, closed, statVars, owed>>
  BY DEF EndDrain
<1>2. PICK bt : bt = batch'
  OBVIOUS
<1>3. bt \in Seq(Events) /\ Len(bt) = 0
  BY <1>1, <1>2
<1>4. /\ Core(log, submit, topic, queue, FALSE, bt, left, observing)
      /\ Load(topic, queue, bt, left) = Load(topic, queue, batch, left)
  BY <1>0, <1>1, <1>3, CoreEnded
<1>5. CoreState'
  BY <1>1, <1>2, <1>4 DEF CoreState, queueVars, eventVars
<1>6. PendingCounts'
  BY <1>1, <1>2, <1>4 DEF IInv, PendingCounts, queueVars, eventVars, statVars
<1>7. Len(batch') <= MaxBatchSize /\ batch' \in Seq(Events)
  BY <1>2, <1>3, ProcessorAssumption
<1>8. call' \in [Waiters -> {"idle", "awaiting", "looping", "true", "false"}]
  BY <1>0, <1>1 DEF TypeOK
<1>9. TypeOK'
  BY <1>0, <1>1, <1>7, <1>8 DEF TypeOK, queueVars, eventVars, statVars
<1>10. FailuresCount' /\ ClosedState'
  BY <1>1 DEF IInv, FailuresCount, ClosedState, eventVars, statVars
<1>11. OwedState'
  <2>1. Waiting' = Waiting
    BY <1>1 DEF Waiting, eventVars
  <2>2. \A w \in Waiters : call'[w] \notin {"awaiting", "looping"} => call[w] \notin {"awaiting", "looping"}
    BY <1>1
  <2> QED
    BY <1>1, <2>1, <2>2 DEF IInv, OwedState
<1>12. NothingStranded'
  <2>1. \A w \in Waiters : call[w] \in {"awaiting", "looping"} => call'[w] = "looping"
    BY <1>1
  <2> QED
    BY <1>1, <2>1 DEF IInv, NothingStranded, queueVars
<1> QED
  BY <1>5, <1>6, <1>9, <1>10, <1>11, <1>12 DEF IInv

-----------------------------------------------------------------------------
\* Steps of flush and shutdown.

\* A round of the loop: the call is answered if nothing waits, else it awaits the
\* drain, which is under way.
LEMMA LoopFacts ==
    ASSUME IInv, NEW w \in Waiters, Loop(w)
    PROVE  /\ call' \in [Waiters -> {"idle", "awaiting", "looping", "true", "false"}]
           /\ \A v \in Waiters : v # w => call'[v] = call[v]
           /\ call'[w] \in {"awaiting", Answer}
           /\ call'[w] # "awaiting" => Waiting = {}
           /\ queue' # <<>> => call'[w] = "awaiting"
<1>1. TypeOK /\ CoreState
  BY DEF IInv
<1>2. /\ call' = [call EXCEPT ![w] = IF queue = <<>> /\ ~draining THEN Answer ELSE "awaiting"]
      /\ Drain(queue, topic)
  BY DEF Loop
<1>3. Answer \in {"true", "false"}
  BY DEF Answer
<1>4. call'[w] = IF queue = <<>> /\ ~draining THEN Answer ELSE "awaiting"
  BY <1>1, <1>2 DEF TypeOK
<1>5. queue = <<>> /\ ~draining => queue' = <<>>
  BY <1>2 DEF Drain
<1> QED
  BY <1>1, <1>2, <1>3, <1>4, <1>5, NoneWaiting DEF TypeOK

\* A call of flush, or the first of shutdown, and what follows an await in it.
Round(w) ==
    /\ call[w] \in {"idle", "looping"}
    /\ Loop(w)
    /\ \/ timer' = FALSE /\ closed' \in {closed, TRUE} /\ owed' = [owed EXCEPT ![w] = Waiting]
       \/ UNCHANGED <<timer, closed, owed>>
    /\ UNCHANGED <<eventVars, log, statVars>>

LEMMA RoundStep == ASSUME IInv, NEW w \in Waiters, Round(w) PROVE IInv'
<1>0. TypeOK /\ Loop(w) /\ Drain(queue, topic) /\ UNCHANGED <<eventVars, log, statVars>>
  BY DEF IInv, Round, Loop
<1>1. /\ CoreState' /\ PendingCounts' /\ FailuresCount' /\ Waiting' = Waiting
      /\ queue' \in Seq(Events) /\ Len(queue') <= MaxQueueSize
      /\ batch' \in Seq(Events) /\ Len(batch') <= MaxBatchSize
      /\ left' \subseteq Conversations
      /\ draining' \in BOOLEAN /\ observing' \in BOOLEAN
      /\ queue' # <<>> => draining'
  BY <1>0, Drains
<1>2. /\ call' \in [Waiters -> {"idle", "awaiting", "looping", "true", "false"}]
      /\ \A v \in Waiters : v # w => call'[v] = call[v]
      /\ call'[w] # "awaiting" => Waiting = {}
      /\ queue' # <<>> => call'[w] = "awaiting"
  BY <1>0, LoopFacts
<1>3. /\ timer' \in BOOLEAN /\ closed' \in BOOLEAN /\ owed' \in [Waiters -> SUBSET Events]
      /\ \A v \in Waiters : v # w => owed'[v] = owed[v]
      /\ owed'[w] \in {owed[w], Waiting}
      /\ closed' => ~timer'
  <2>1. timer \in BOOLEAN /\ closed \in BOOLEAN /\ owed \in [Waiters -> SUBSET Events]
        /\ Waiting \subseteq Events /\ (closed => ~timer)
    BY DEF IInv, TypeOK, ClosedState, Waiting
  <2>2. CASE UNCHANGED <<timer, closed, owed>>
    BY <2>1, <2>2
  <2>3. CASE timer' = FALSE /\ closed' \in {closed, TRUE} /\ owed' = [owed EXCEPT ![w] = Waiting]
    BY <2>1, <2>3
  <2> QED
    BY <2>2, <2>3 DEF Round
<1>4. TypeOK'
  BY <1>0, <1>1, <1>2, <1>3 DEF TypeOK, eventVars, statVars
<1>5. OwedState'
  <2> SUFFICES ASSUME NEW v \in Waiters
               PROVE  /\ owed'[v] \subseteq Waiting
                      /\ call'[v] \notin {"awaiting", "looping"} => owed'[v] = {}
    BY <1>1 DEF OwedState
  <2>1. CASE v # w
    BY <1>2, <1>3, <2>1 DEF IInv, OwedState
  <2>2. CASE v = w
    BY <1>2, <1>3, <2>2 DEF IInv, OwedState
  <2> QED
    BY <2>1, <2>2
<1>6. ClosedState' /\ NothingStranded'
  BY <1>1, <1>2, <1>3 DEF ClosedState, NothingStranded
<1> QED
  BY <1>1, <1>4, <1>5, <1>6 DEF IInv

\* A shutdown of a closed processor.
LEMMA AgainStep == ASSUME IInv, NEW w \in Waiters, ShutdownAgain(w) PROVE IInv'
<1>1. /\ call[w] = "idle"
      /\ call' = [call EXCEPT ![w] = IF queue = <<>> /\ ~draining THEN Answer ELSE "false"]
      /\ UNCHANGED <<eventVars, queueVars, timer, drainVars, closed, statVars, owed>>
  BY DEF ShutdownAgain, Calls
<1>2. /\ call' \in [Waiters -> {"idle", "awaiting", "looping", "true", "false"}]
      /\ \A v \in Waiters : v # w => call'[v] = call[v]
      /\ call'[w] \in {"true", "false"}
  BY <1>1 DEF IInv, TypeOK, Answer
<1>3. TypeOK'
  BY <1>1, <1>2 DEF IInv, TypeOK, eventVars, queueVars, drainVars, statVars
<1>4. CoreState' /\ PendingCounts' /\ FailuresCount' /\ ClosedState'
  BY <1>1 DEF IInv, CoreState, PendingCounts, Load, FailuresCount, ClosedState,
              eventVars, queueVars, drainVars, statVars
<1>5. OwedState' /\ NothingStranded'
  BY <1>1, <1>2 DEF IInv, OwedState, NothingStranded, Waiting, eventVars, queueVars, drainVars
<1> QED
  BY <1>3, <1>4, <1>5 DEF IInv

\* Steps of flush and shutdown.
LEMMA CallSteps ==
    ASSUME IInv, NEW w \in Waiters, Flush(w) \/ Shutdown(w) \/ ShutdownAgain(w) \/ Resume(w)
    PROVE  IInv'
<1>1. CASE Flush(w)
  <2>1. Round(w)
    BY <1>1 DEF Flush, Calls, Round
  <2> QED
    BY <2>1, RoundStep
<1>2. CASE Shutdown(w)
  <2>1. Round(w)
    BY <1>2 DEF Shutdown, Calls, Round
  <2> QED
    BY <2>1, RoundStep
<1>3. CASE ShutdownAgain(w)
  BY <1>3, AgainStep
<1>4. CASE Resume(w)
  <2>1. Round(w)
    BY <1>4 DEF Resume, Round
  <2> QED
    BY <2>1, RoundStep
<1> QED
  BY <1>1, <1>2, <1>3, <1>4

-----------------------------------------------------------------------------
\* The invariant.

LEMMA StutterInv == ASSUME IInv, UNCHANGED vars PROVE IInv'
<1>1. UNCHANGED <<submit, topic, log, queue, timer, draining, batch, left, observing,
                  closed, committed, failed, dropped, pending, call, owed>>
  BY DEF vars, eventVars, queueVars, drainVars, statVars, callVars
<1> QED
  BY <1>1 DEF IInv, TypeOK, CoreState, PendingCounts, Load, FailuresCount, OwedState,
              ClosedState, NothingStranded, Waiting

LEMMA NextInv == IInv /\ [Next]_vars => IInv'
<1> SUFFICES ASSUME IInv, [Next]_vars PROVE IInv'
  OBVIOUS
<1>1. ASSUME NEW e \in Events, Submit(e) \/ Submitting(e) PROVE IInv'
  BY <1>1, SubmitSteps
<1>2. CASE TimerFires
  BY <1>2, TimerStep
<1>3. CASE Draining
  BY <1>3, DeliverStep, FailStep, ObservedStep, EndDrainStep DEF Draining
<1>4. ASSUME NEW w \in Waiters, Flush(w) \/ Shutdown(w) \/ ShutdownAgain(w) \/ Resume(w)
      PROVE  IInv'
  BY <1>4, CallSteps
<1>5. CASE UNCHANGED vars
  BY <1>5, StutterInv
<1> QED
  BY <1>1, <1>2, <1>3, <1>4, <1>5 DEF Next

LEMMA Inductive == Spec => []IInv
BY InitInv, NextInv, PTL DEF Spec

\* Every variable of the processor (processor.ts) has its type; pending never goes
\* below zero, and neither the queue nor a batch outgrows its bound.
THEOREM TypeCorrect == Spec => []TypeOK
<1>1. IInv => TypeOK
  BY DEF IInv
<1> QED
  BY <1>1, Inductive, PTL

\* Whatever is queued has a timer, a drain or a flush that will look at the queue
\* (#schedule, #drain, flush).
THEOREM NothingIsStranded == Spec => []NothingStranded
<1>1. IInv => NothingStranded
  BY DEF IInv
<1> QED
  BY <1>1, Inductive, PTL

-----------------------------------------------------------------------------
\* Refinement of BackgroundDelivery.

Fate ==
    [e \in Events |->
        IF submit[e] = "committed" THEN "delivered"
        ELSE IF submit[e] = "failed" THEN "failed" ELSE "unsent"]

Answers ==
    [w \in Waiters |->
        IF call[w] = "idle" THEN "none"
        ELSE IF call[w] \in {"awaiting", "looping"} THEN "pending" ELSE call[w]]

\* What waits is the same in both specifications.
LEMMA SameWaiting ==
    ASSUME IInv
    PROVE  /\ Delivery!Waiting = Waiting
           /\ \A e : e \in Delivery!Logged <=>
                    e \in Events /\ submit[e] \in {"waiting", "committed", "failed"}
<1>1. log \in Seq(Events) /\ DOMAIN log = 1..Len(log)
  BY DEF IInv, TypeOK
<1>2. \A e \in Events :
          submit[e] \in {"waiting", "committed", "failed"} <=> \E i \in 1..Len(log) : log[i] = e
  BY DEF IInv, CoreState, Core, Fates
<1>3. \A e : e \in Delivery!Logged <=>
                    e \in Events /\ submit[e] \in {"waiting", "committed", "failed"}
  BY <1>1, <1>2 DEF Delivery!Logged
<1>4. \A e : e \in Delivery!Waiting <=> e \in Waiting
  BY <1>3 DEF Delivery!Waiting, Waiting
<1> QED
  BY <1>3, <1>4

\* What waits fits the queue and a batch.
LEMMA FewWaiting ==
    ASSUME IInv, Len(queue) < MaxQueueSize
    PROVE  Cardinality(Waiting) < MaxQueueSize + MaxBatchSize
<1>0. TypeOK /\ CoreState
  BY DEF IInv
<1> DEFINE n == Len(queue) + Len(batch)
           at(i) == IF i <= Len(queue) THEN queue[i] ELSE batch[i - Len(queue)]
           f == [i \in 1..n |-> at(i)]
           T == {f[i] : i \in 1..n}
<1>1. Len(queue) \in Nat /\ Len(batch) \in Nat /\ n \in Nat /\ Len(batch) <= MaxBatchSize
      /\ MaxQueueSize \in Nat /\ MaxBatchSize \in Nat
  BY <1>0, ProcessorAssumption DEF TypeOK
<1>2. f \in Surjection(1..n, T)
  BY DEF Surjection
<1>3. ExistsSurjection(1..n, T)
  BY <1>2 DEF ExistsSurjection
<1> HIDE DEF T
<1>4. IsFiniteSet(T) /\ Cardinality(T) <= n
  BY <1>1, <1>3, FS_NatSurjection, FS_SurjCardinalityBound
<1>5. Waiting \subseteq T
  <2> SUFFICES ASSUME NEW e \in Waiting PROVE e \in T
    OBVIOUS
  <2>1. CASE \E i \in 1..Len(queue) : queue[i] = e
    <3>1. PICK i \in 1..Len(queue) : queue[i] = e
      BY <2>1
    <3>2. i \in 1..n /\ f[i] = e
      BY <1>1, <3>1
    <3> QED
      BY <3>2 DEF T
  <2>2. CASE \E i \in 1..Len(batch) : batch[i] = e
    <3>1. PICK i \in 1..Len(batch) : batch[i] = e
      BY <2>2
    <3>2. Len(queue) + i \in 1..n /\ ~(Len(queue) + i <= Len(queue)) /\ (Len(queue) + i) - Len(queue) = i
      BY <1>1
    <3>3. f[Len(queue) + i] = e
      BY <3>1, <3>2
    <3> QED
      BY <3>2, <3>3 DEF T
  <2> QED
    BY <1>0, <2>1, <2>2, WaitingPlaces
<1>6. Cardinality(Waiting) \in Nat /\ Cardinality(Waiting) <= Cardinality(T) /\ Cardinality(T) \in Nat
  BY <1>4, <1>5, FS_Subset, FS_CardinalityType
<1> QED
  BY <1>1, <1>4, <1>6

\* A call is told the truth about failures.
LEMMA TrueAnswer ==
    ASSUME IInv
    PROVE  Answer \in {"true", "false"} /\ (Answer = "true" <=> \A e \in Events : Fate[e] # "failed")
<1>1. \A e \in Events : Fate[e] = "failed" <=> submit[e] = "failed"
  BY DEF Fate
<1> QED
  BY <1>1 DEF IInv, FailuresCount, Answer

LEMMA InitRefines == Init => Delivery!Init
BY DEF Init, Delivery!Init

LEMMA AdmitRefines == ASSUME IInv, NEW e \in Events, Admit(e) PROVE Delivery!Admit(e)
<1>1. /\ submit[e] = "preparing" /\ ~closed /\ Len(queue) < MaxQueueSize
      /\ submit' = [submit EXCEPT ![e] = "waiting"]
      /\ log' = Append(log, e)
      /\ UNCHANGED <<closed, call, owed>>
  BY DEF Admit, Prepared, callVars
<1>2. PICK c : topic' = [topic EXCEPT ![e] = c]
  BY DEF Admit
<1>3. Fate' = Fate
  BY <1>1 DEF IInv, TypeOK, Fate
<1>4. Answers' = Answers
  BY <1>1 DEF Answers
<1>5. e \notin Delivery!Logged
  BY <1>1, SameWaiting
<1>6. Cardinality(Delivery!Waiting) < MaxQueueSize + MaxBatchSize
  BY <1>1, SameWaiting, FewWaiting
<1>7. \A f \in Events \ {e} : topic'[f] = topic[f]
  BY <1>2 DEF IInv, TypeOK
<1>8. UNCHANGED <<Fate, closed, owed, Answers>>
  BY <1>1, <1>3, <1>4
<1>9. Delivery!Cardinality(Delivery!Waiting) = Cardinality(Delivery!Waiting)
  BY DEF Delivery!Cardinality, Cardinality, Delivery!IsFiniteSet, IsFiniteSet
<1> QED
  BY <1>1, <1>5, <1>6, <1>7, <1>8, <1>9 DEF Delivery!Admit, Fate, Answers

\* The events of the next conversation may be settled, as none of them is overtaken.
LEMMA SettleRefines ==
    ASSUME IInv, ~observing, NEW c \in left, NEW verdict \in {"committed", "failed"},
           Settled(c, verdict), UNCHANGED <<topic, log, closed, call>>
    PROVE  Delivery!Settle(Group(c), IF verdict = "committed" THEN "delivered" ELSE "failed")
<1>0. TypeOK /\ CoreState
  BY DEF IInv
<1>1. /\ \A e \in Events : submit'[e] = IF e \in Group(c) THEN verdict ELSE submit[e]
      /\ \A e \in Group(c) : submit[e] = "waiting"
  BY SettledFacts
<1>2. Group(c) # {} /\ Group(c) \subseteq Waiting /\ Group(c) \subseteq Events
      /\ \A i \in 1..Len(batch) : batch[i] \in Group(c) <=> topic[batch[i]] = c
  BY <1>0, GroupFacts, GroupWaits
<1>3. Delivery!Waiting = Waiting
  BY SameWaiting
<1>4. \A e \in Group(c) : topic[e] = c
  BY DEF Group, GroupAt
<1>5. /\ log \in Seq(Events) /\ DOMAIN log = 1..Len(log)
      /\ Len(log) \in Nat /\ Len(queue) \in Nat /\ Len(batch) \in Nat
      /\ Len(batch) + Len(queue) <= Len(log) /\ DOMAIN batch = 1..Len(batch)
      /\ \A i \in 1..Len(batch) : batch[i] = log[Len(log) - Len(queue) - Len(batch) + i]
      /\ \A i, j \in 1..Len(log) : log[i] = log[j] => i = j
  BY <1>0 DEF TypeOK, CoreState, Core, Placed
<1>6. ASSUME NEW i \in 1..Len(log), NEW j \in 1..Len(log), i < j, log[j] \in Group(c),
             topic[log[i]] = topic[log[j]], log[i] \in Waiting
      PROVE  log[i] \in Group(c)
  <2>1. i > Len(log) - Len(queue) - Len(batch)
    <3>1. submit[log[i]] = "waiting"
      BY <1>6 DEF Waiting
    <3>2. \A n \in 1..Len(log) - Len(queue) - Len(batch) : submit[log[n]] # "waiting"
      BY <1>0 DEF CoreState, Core, Fates
    <3> QED
      BY <1>5, <3>1, <3>2
  <2>2. PICK k \in 1..Len(batch) : batch[k] = log[j]
    BY <1>5, <1>6 DEF Group, GroupAt
  <2>3. j = Len(log) - Len(queue) - Len(batch) + k
    <3>1. Len(log) - Len(queue) - Len(batch) + k \in 1..Len(log)
      BY <1>5
    <3> QED
      BY <1>5, <2>2, <3>1
  <2> DEFINE m == i - (Len(log) - Len(queue) - Len(batch))
  <2>4. m \in 1..Len(batch) /\ Len(log) - Len(queue) - Len(batch) + m = i
    BY <1>5, <1>6, <2>1, <2>3
  <2>5. batch[m] = log[i]
    BY <1>5, <2>4
  <2>6. topic[batch[m]] = c
    BY <1>4, <1>6, <2>5
  <2> QED
    BY <1>2, <2>4, <2>5, <2>6
<1>7. Fate' = [e \in Events |-> IF e \in Group(c)
                                THEN IF verdict = "committed" THEN "delivered" ELSE "failed"
                                ELSE Fate[e]]
  <2>1. \A e \in Events : Fate'[e] = IF e \in Group(c)
                                THEN IF verdict = "committed" THEN "delivered" ELSE "failed"
                                ELSE Fate[e]
    BY <1>1 DEF Fate
  <2> QED
    BY <2>1 DEF Fate
<1>8. Answers' = Answers
  BY DEF Answers
<1>9. owed' = [w \in Waiters |-> owed[w] \ Group(c)]
  BY DEF Settled
<1>10. \A e, f \in Group(c) : topic[e] = topic[f]
  BY <1>4
<1>11. \A i, j \in DOMAIN log :
          i < j /\ log[j] \in Group(c) /\ topic[log[i]] = topic[log[j]] /\ log[i] \in Delivery!Waiting
          => log[i] \in Group(c)
  BY <1>3, <1>5, <1>6
<1> QED
  BY <1>2, <1>3, <1>7, <1>8, <1>9, <1>10, <1>11 DEF Delivery!Settle, Fate, Answers

\* A step that settles, admits and answers nothing is a stutter.
LEMMA Unseen ==
    ASSUME IInv, UNCHANGED <<topic, log, closed, callVars>>,
           \A e \in Events : submit'[e] \in {"committed", "failed"} \/ submit[e] \in {"committed", "failed"}
                              => submit'[e] = submit[e]
    PROVE  UNCHANGED Delivery!vars
<1>1. \A e \in Events : Fate'[e] = Fate[e]
  BY DEF Fate
<1>2. Fate' = Fate
  BY <1>1 DEF Fate
<1>3. Answers' = Answers
  BY DEF Answers, callVars
<1>4. UNCHANGED <<log, topic, closed, owed>>
  BY DEF callVars
<1> QED
  BY <1>2, <1>3, <1>4 DEF Delivery!vars, Fate, Answers

LEMMA SubmitUnseen ==
    ASSUME IInv, NEW e \in Events, Submit(e) \/ Reject(e) \/ DropEvent(e) \/ TurnAway(e)
    PROVE  UNCHANGED Delivery!vars
<1>1. submit[e] \in {"new", "preparing"} /\ UNCHANGED <<topic, log, closed, callVars>>
  BY DEF Submit, Reject, DropEvent, TurnAway, Prepared, queueVars
<1>2. PICK v \in {"refused", "preparing", "dropped"} : submit' = [submit EXCEPT ![e] = v]
  BY DEF Submit, Reject, DropEvent, TurnAway
<1>3. \A f \in Events : submit'[f] = IF f = e THEN v ELSE submit[f]
  BY <1>2 DEF IInv, TypeOK
<1>4. \A f \in Events : submit'[f] \in {"committed", "failed"} \/ submit[f] \in {"committed", "failed"}
                              => submit'[f] = submit[f]
  BY <1>1, <1>3
<1> QED
  BY <1>1, <1>4, Unseen

LEMMA DrainUnseen ==
    ASSUME IInv, TimerFires \/ Observed PROVE UNCHANGED Delivery!vars
<1>1. UNCHANGED <<submit, topic, log, closed, callVars>>
  BY DEF TimerFires, Observed, eventVars, queueVars
<1> QED
  BY <1>1, Unseen

LEMMA EndUnseen == ASSUME IInv, EndDrain PROVE UNCHANGED Delivery!vars
<1>1. UNCHANGED <<submit, topic, log, closed, owed>>
      /\ call' = [w \in Waiters |-> IF call[w] = "awaiting" THEN "looping" ELSE call[w]]
  BY DEF EndDrain, eventVars, queueVars
<1>2. \A w \in Waiters : Answers'[w] = Answers[w]
  BY <1>1 DEF Answers
<1>3. Answers' = Answers
  BY <1>2 DEF Answers
<1>4. Fate' = Fate
  BY <1>1 DEF Fate
<1> QED
  BY <1>1, <1>3, <1>4 DEF Delivery!vars, Fate, Answers

LEMMA GroupRefines == ASSUME IInv, Deliver \/ FailToDeliver PROVE Delivery!Next
<1>1. ~observing /\ UNCHANGED <<topic, log, closed, call>>
  BY DEF Deliver, FailToDeliver, queueVars
<1>2. PICK c \in left, verdict \in {"committed", "failed"} : Settled(c, verdict)
  BY DEF Deliver, FailToDeliver
<1>3. Delivery!Settle(Group(c), IF verdict = "committed" THEN "delivered" ELSE "failed")
  BY <1>1, <1>2, SettleRefines
<1>4. Group(c) \in SUBSET Delivery!Waiting
  BY <1>1, GroupWaits, SameWaiting DEF IInv
<1>5. (IF verdict = "committed" THEN "delivered" ELSE "failed") \in {"delivered", "failed"}
  OBVIOUS
<1> QED
  BY <1>3, <1>4, <1>5 DEF Delivery!Next

-----------------------------------------------------------------------------
\* Calls.

\* What a call is told, seen from outside.
LEMMA AnswersChange ==
    ASSUME IInv, NEW w \in Waiters, NEW a,
           \A v \in Waiters : v # w => call'[v] = call[v],
           a = IF call'[w] = "idle" THEN "none"
               ELSE IF call'[w] \in {"awaiting", "looping"} THEN "pending" ELSE call'[w]
    PROVE  Answers' = [Answers EXCEPT ![w] = a]
<1>1. \A v \in Waiters : Answers'[v] = IF v = w THEN a ELSE Answers[v]
  BY DEF Answers
<1> QED
  BY <1>1 DEF Answers

\* A new call of flush or shutdown waits, or has nothing to wait for.
LEMMA AskRefines ==
    ASSUME IInv, NEW w \in Waiters, Flush(w) \/ Shutdown(w) PROVE Delivery!Next
<1>1. /\ call[w] = "idle" /\ Loop(w) /\ closed' \in {closed, TRUE}
      /\ owed' = [owed EXCEPT ![w] = Waiting] /\ UNCHANGED <<submit, topic, log>>
  BY DEF Flush, Shutdown, Calls, eventVars
<1>2. /\ \A v \in Waiters : v # w => call'[v] = call[v]
      /\ call'[w] \in {"awaiting", Answer}
      /\ call'[w] # "awaiting" => Waiting = {}
  BY <1>1, LoopFacts
<1>3. Fate' = Fate
  BY <1>1 DEF Fate
<1>4. Answers[w] = "none"
  BY <1>1 DEF Answers
<1>5. Delivery!Waiting = Waiting
  BY SameWaiting
<1>6. Answer \in {"true", "false"} /\ (Answer = "true" <=> \A e \in Events : Fate[e] # "failed")
  BY TrueAnswer
<1>7. CASE call'[w] = "awaiting"
  <2>1. Answers' = [Answers EXCEPT ![w] = "pending"]
    BY <1>2, <1>7, AnswersChange
  <2>2. Delivery!Ask(w)
    BY <1>1, <1>3, <1>4, <1>5, <2>1 DEF Delivery!Ask, Fate, Answers
  <2> QED
    BY <2>2 DEF Delivery!Next
<1>8. CASE call'[w] # "awaiting"
  <2>1. call'[w] = Answer /\ Waiting = {}
    BY <1>2, <1>8
  <2>2. Answers' = [Answers EXCEPT ![w] = Answer]
    BY <1>2, <1>6, <2>1, AnswersChange
  <2>3. owed' = owed
    <3>1. owed[w] = {} /\ owed \in [Waiters -> SUBSET Events]
      BY <1>1 DEF IInv, TypeOK, OwedState
    <3> QED
      BY <1>1, <2>1, <3>1
  <2>4. Answers'[w] = Answer
    BY <2>2 DEF Answers
  <2>5. Answers' \in {[Answers EXCEPT ![w] = "true"], [Answers EXCEPT ![w] = "false"]}
    BY <1>6, <2>2
  <2>6. Delivery!ReturnAtOnce(w)
    BY <1>1, <1>3, <1>4, <1>5, <1>6, <2>1, <2>3, <2>4, <2>5
    DEF Delivery!ReturnAtOnce, Fate, Answers
  <2> QED
    BY <2>6 DEF Delivery!Next
<1> QED
  BY <1>7, <1>8

LEMMA AgainRefines == ASSUME IInv, NEW w \in Waiters, ShutdownAgain(w) PROVE Delivery!Next
<1>1. /\ call[w] = "idle" /\ closed
      /\ call' = [call EXCEPT ![w] =
             IF queue = <<>> /\ ~draining THEN Answer ELSE "false"]
      /\ UNCHANGED <<submit, topic, log, closed, owed>>
  BY DEF ShutdownAgain, Calls, eventVars, queueVars
<1>2. /\ \A v \in Waiters : v # w => call'[v] = call[v]
      /\ call'[w] = IF queue = <<>> /\ ~draining THEN Answer ELSE "false"
  BY <1>1 DEF IInv, TypeOK
<1>3. Fate' = Fate
  BY <1>1 DEF Fate
<1>4. Answers[w] = "none"
  BY <1>1 DEF Answers
<1>5. Delivery!Waiting = Waiting
  BY SameWaiting
<1>6. Answer \in {"true", "false"} /\ (Answer = "true" <=> \A e \in Events : Fate[e] # "failed")
  BY TrueAnswer
<1>7. CASE queue = <<>> /\ ~draining
  <2>1. call'[w] = Answer /\ Waiting = {}
    BY <1>2, <1>7, NoneWaiting DEF IInv
  <2>2. Answers' = [Answers EXCEPT ![w] = Answer]
    BY <1>2, <1>6, <2>1, AnswersChange
  <2>3. Answers'[w] = Answer
    BY <2>2 DEF Answers
  <2>4. Answers' \in {[Answers EXCEPT ![w] = "true"], [Answers EXCEPT ![w] = "false"]}
    BY <1>6, <2>2
  <2>5. Delivery!ReturnAtOnce(w)
    BY <1>1, <1>3, <1>4, <1>5, <1>6, <2>1, <2>3, <2>4
    DEF Delivery!ReturnAtOnce, Fate, Answers
  <2> QED
    BY <2>5 DEF Delivery!Next
<1>8. CASE ~(queue = <<>> /\ ~draining)
  <2>1. call'[w] = "false"
    BY <1>2, <1>8
  <2>2. Answers' = [Answers EXCEPT ![w] = "false"]
    BY <1>2, <2>1, AnswersChange
  <2>3. Delivery!TurnAway(w)
    BY <1>1, <1>3, <1>4, <2>2 DEF Delivery!TurnAway, Fate, Answers
  <2> QED
    BY <2>3 DEF Delivery!Next
<1> QED
  BY <1>7, <1>8

LEMMA ResumeRefines ==
    ASSUME IInv, NEW w \in Waiters, Resume(w) PROVE [Delivery!Next]_(Delivery!vars)
<1>1. call[w] = "looping" /\ Loop(w) /\ UNCHANGED <<submit, topic, log, closed, owed>>
  BY DEF Resume, eventVars
<1>2. /\ \A v \in Waiters : v # w => call'[v] = call[v]
      /\ call'[w] \in {"awaiting", Answer}
      /\ call'[w] # "awaiting" => Waiting = {}
  BY <1>1, LoopFacts
<1>3. Fate' = Fate
  BY <1>1 DEF Fate
<1>4. Answers[w] = "pending"
  BY <1>1 DEF Answers
<1>5. Answer \in {"true", "false"} /\ (Answer = "true" <=> \A e \in Events : Fate[e] # "failed")
  BY TrueAnswer
<1>6. CASE call'[w] = "awaiting"
  <2>1. Answers' = [Answers EXCEPT ![w] = "pending"]
    BY <1>2, <1>6, AnswersChange
  <2>2. Answers' = Answers
    BY <1>4, <2>1 DEF Answers
  <2>3. UNCHANGED Delivery!vars
    BY <1>1, <1>3, <2>2 DEF Delivery!vars, Fate, Answers
  <2> QED
    BY <2>3
<1>7. CASE call'[w] # "awaiting"
  <2>1. call'[w] = Answer /\ Waiting = {}
    BY <1>2, <1>7
  <2>2. Answers' = [Answers EXCEPT ![w] = Answer]
    BY <1>2, <1>5, <2>1, AnswersChange
  <2>3. owed[w] = {}
    BY <2>1 DEF IInv, OwedState
  <2>4. Answers' = [Answers EXCEPT ![w] = IF Answer = "true" THEN "true" ELSE "false"]
    BY <1>5, <2>2
  <2>5. Delivery!Return(w)
    <3>1. \E yes \in BOOLEAN :
             /\ yes <=> \A e \in Events : Fate[e] # "failed"
             /\ Answers' = [Answers EXCEPT ![w] = IF yes THEN "true" ELSE "false"]
      BY <1>5, <2>4
    <3> QED
      BY <1>1, <1>3, <1>4, <2>3, <3>1 DEF Delivery!Return, Fate, Answers
  <2> QED
    BY <2>5 DEF Delivery!Next
<1> QED
  BY <1>6, <1>7

-----------------------------------------------------------------------------
LEMMA NextRefines == IInv /\ [Next]_vars => [Delivery!Next]_(Delivery!vars)
<1> SUFFICES ASSUME IInv, [Next]_vars PROVE [Delivery!Next]_(Delivery!vars)
  OBVIOUS
<1>1. ASSUME NEW e \in Events, Submit(e) \/ Reject(e) \/ DropEvent(e) \/ TurnAway(e)
      PROVE  UNCHANGED Delivery!vars
  BY <1>1, SubmitUnseen
<1>2. ASSUME NEW e \in Events, Admit(e) PROVE Delivery!Next
  BY <1>2, AdmitRefines DEF Delivery!Next
<1>3. CASE TimerFires \/ Observed
  BY <1>3, DrainUnseen
<1>4. CASE EndDrain
  BY <1>4, EndUnseen
<1>5. CASE Deliver \/ FailToDeliver
  BY <1>5, GroupRefines
<1>6. ASSUME NEW w \in Waiters, Flush(w) \/ Shutdown(w) PROVE Delivery!Next
  BY <1>6, AskRefines
<1>7. ASSUME NEW w \in Waiters, ShutdownAgain(w) PROVE Delivery!Next
  BY <1>7, AgainRefines
<1>8. ASSUME NEW w \in Waiters, Resume(w) PROVE [Delivery!Next]_(Delivery!vars)
  BY <1>8, ResumeRefines
<1>9. CASE UNCHANGED vars
  <2>1. UNCHANGED <<submit, topic, log, closed, callVars>>
    BY <1>9 DEF vars, eventVars, queueVars
  <2> QED
    BY <2>1, Unseen
<1> QED
  BY <1>1, <1>2, <1>3, <1>4, <1>5, <1>6, <1>7, <1>8, <1>9 DEF Next, Submitting, Draining

\* The background processor (processor.ts) implements BackgroundDelivery: a flush or
\* shutdown that answers true has delivered every event admitted before it, events
\* of a conversation are settled once and in order, and none is admitted after close.
THEOREM Refinement == Spec => ImplementsDelivery
<1>1. Init => Delivery!Init
  BY InitRefines
<1>2. IInv /\ [Next]_vars => [Delivery!Next]_(Delivery!vars)
  BY NextRefines
<1> QED
  BY <1>1, <1>2, Inductive, PTL DEF Spec, ImplementsDelivery, Delivery!Spec
=============================================================================
