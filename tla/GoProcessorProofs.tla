--------------------------- MODULE GoProcessorProofs ---------------------------
(***************************************************************************)
(* Theorems about GoProcessor, for any captures, goroutines, conversations *)
(* and sizes of channel and batch, and either overflow policy.             *)
(***************************************************************************)
EXTENDS GoProcessor, FiniteSetTheorems, TLAPS

\* What the worker holds, by where it is.
WorkerState ==
    /\ worker \in {"receive", "done"} => Batch = {}
    /\ worker \notin {"count", "fail"} => sent = <<>>

\* Nothing joins a channel that is closed, as nobody waits for room in it; the
\* worker ends when it is closed and empty.
ClosedState ==
    /\ closed => mu = NoOne
    /\ worker = "done" => closed /\ queue = <<>>

\* A waiter that goes past its wait has seen its target counted, and a shutdown
\* that has returned has waited for the worker.
WaiterState ==
    \A w \in Waiters :
        /\ waiter[w] \in {"join", "returned"} => target[w] <= committed + failed
        /\ stopping[w] /\ waiter[w] = "returned" => worker = "done"

\* An event is admitted once, and is then not blocked.
AdmittedOnce ==
    /\ \A i, j \in DOMAIN admitted : admitted[i] = admitted[j] => i = j
    /\ \A i \in DOMAIN admitted : submit[admitted[i]] = "admitted"
    /\ mu # NoOne => submit[mu] = "blocked"

\* How much of what was admitted has left the channel.
Taken == Len(admitted) - Len(queue)

\* The channel holds the end of what was admitted.
QueueIsTail ==
    /\ Taken >= 0
    /\ \A i \in DOMAIN queue : queue[i] = admitted[Taken + i]

\* What has left the channel is, for each conversation and in the order of admission,
\* what has arrived or failed, what is being counted, and its group.
TakenInOrder ==
    \A c \in Conversations :
        /\ Ordered(arrived[c]) /\ Ordered(groups[c])
        /\ \A i \in DOMAIN arrived[c] :
              /\ Conversation[arrived[c][i]] = c
              /\ \E k \in 1..Taken : arrived[c][i] = admitted[k]
        /\ \A i \in DOMAIN groups[c] :
              /\ Conversation[groups[c][i]] = c
              /\ \E k \in 1..Taken : groups[c][i] = admitted[k]
        /\ \A i \in DOMAIN arrived[c], j \in DOMAIN groups[c] :
              Before(arrived[c][i], groups[c][j])

SentInOrder ==
    /\ Ordered(sent)
    /\ \A i \in DOMAIN sent :
          /\ sent[i] \notin Batch
          /\ \E k \in 1..Taken : sent[i] = admitted[k]

Counted ==
    /\ Len(admitted) = committed + failed + pending
    /\ pending = Len(queue) + Cardinality(Batch) + Len(sent)
    /\ IsFiniteSet(Batch)

OneConversation ==
    \A i, j \in DOMAIN admitted : Conversation[admitted[i]] = Conversation[admitted[j]]

\* With one conversation, what is counted is the oldest of what was admitted, what is
\* being counted comes next, and then the group.
OldestFirst ==
    OneConversation =>
        /\ \A i \in DOMAIN sent : sent[i] = admitted[committed + failed + i]
        /\ \A c \in Conversations : \A i \in DOMAIN groups[c] :
              groups[c][i] = admitted[committed + failed + Len(sent) + i]

IInv ==
    /\ TypeOK /\ WorkerState /\ ClosedState /\ WaiterState
    /\ AdmittedOnce /\ QueueIsTail /\ TakenInOrder /\ SentInOrder
    /\ Counted /\ OldestFirst

-----------------------------------------------------------------------------
\* A sequence without repetitions has as many elements as its length says.
LEMMA DistinctElements ==
    ASSUME NEW S, NEW s \in Seq(S), \A i, j \in DOMAIN s : s[i] = s[j] => i = j
    PROVE  IsFiniteSet(ToSet(s)) /\ Cardinality(ToSet(s)) = Len(s)
<1>1. s \in Bijection(1..Len(s), ToSet(s))
  BY DEF ToSet, Bijection, Injection, Surjection, IsInjective
<1>2. ExistsBijection(1..Len(s), ToSet(s)) /\ Len(s) \in Nat
  BY <1>1 DEF ExistsBijection
<1> QED
  BY <1>2, FS_CountingElements, FS_NatBijection

\* Nothing was admitted before itself.
LEMMA NotBeforeItself == ASSUME IInv, NEW e PROVE ~Before(e, e)
BY DEF IInv, AdmittedOnce, Before, TypeOK

\* So a sequence that is ordered has no repetitions.
LEMMA OrderedIsDistinct ==
    ASSUME IInv, NEW s \in Seq(Events), Ordered(s)
    PROVE  \A i, j \in DOMAIN s : s[i] = s[j] => i = j
<1> SUFFICES ASSUME NEW i \in DOMAIN s, NEW j \in DOMAIN s, i < j, s[i] = s[j] PROVE FALSE
  OBVIOUS
<1> QED
  BY NotBeforeItself DEF Ordered

LEMMA ToSetOf == ASSUME NEW S, NEW s \in Seq(S), NEW e
                 PROVE  e \in ToSet(s) <=> \E i \in DOMAIN s : e = s[i]
BY DEF ToSet

LEMMA InBatch == ASSUME NEW e
                 PROVE  e \in Batch <=> \E c \in Conversations : \E i \in DOMAIN groups[c] : e = groups[c][i]
BY DEF Batch, ToSet

Sizes ==
    /\ committed \in Nat /\ failed \in Nat /\ pending \in Nat
    /\ Len(queue) \in Nat /\ Len(admitted) \in Nat /\ Len(sent) \in Nat
    /\ Cardinality(Batch) \in Nat /\ IsFiniteSet(Batch) /\ Taken \in Nat
    /\ Taken = committed + failed + Cardinality(Batch) + Len(sent)
    /\ Len(admitted) = Taken + Len(queue)
    /\ DOMAIN queue = 1..Len(queue) /\ DOMAIN admitted = 1..Len(admitted)
    /\ DOMAIN sent = 1..Len(sent)

\* A group is no longer than the batch it is from.
Groups ==
    \A c \in Conversations :
        /\ groups[c] \in Seq(Events) /\ arrived[c] \in Seq(Events)
        /\ DOMAIN groups[c] = 1..Len(groups[c]) /\ DOMAIN arrived[c] = 1..Len(arrived[c])
        /\ Len(arrived[c]) \in Nat /\ Len(groups[c]) \in Nat
        /\ ToSet(groups[c]) \subseteq Batch
        /\ IsFiniteSet(ToSet(groups[c])) /\ Cardinality(ToSet(groups[c])) = Len(groups[c])
        /\ Len(groups[c]) <= Cardinality(Batch)

LEMMA Sized == IInv => Sizes
<1> SUFFICES ASSUME IInv PROVE Sizes
  OBVIOUS
<1>1. IsFiniteSet(Batch) /\ Cardinality(Batch) \in Nat
  BY FS_CardinalityType DEF IInv, Counted
<1>2. /\ Len(queue) \in Nat /\ Len(admitted) \in Nat /\ Len(sent) \in Nat
      /\ committed \in Nat /\ failed \in Nat /\ pending \in Nat
      /\ DOMAIN queue = 1..Len(queue) /\ DOMAIN admitted = 1..Len(admitted)
      /\ DOMAIN sent = 1..Len(sent)
  BY DEF IInv, TypeOK
<1>3. /\ Len(admitted) = committed + failed + pending
      /\ pending = Len(queue) + Cardinality(Batch) + Len(sent)
  BY DEF IInv, Counted
<1>4. Taken = committed + failed + Cardinality(Batch) + Len(sent) /\ Len(admitted) = Taken + Len(queue)
  BY <1>1, <1>2, <1>3 DEF Taken
<1> QED
  BY <1>1, <1>2, <1>4 DEF Sizes

LEMMA Grouped == IInv => Groups
<1> SUFFICES ASSUME IInv, NEW c \in Conversations PROVE Groups!(c)
  BY DEF Groups
<1>1. groups[c] \in Seq(Events) /\ arrived[c] \in Seq(Events)
  BY DEF IInv, TypeOK
<1>2. Ordered(groups[c])
  BY DEF IInv, TakenInOrder
<1>3. IsFiniteSet(ToSet(groups[c])) /\ Cardinality(ToSet(groups[c])) = Len(groups[c])
  BY <1>1, <1>2, OrderedIsDistinct, DistinctElements
<1>4. ToSet(groups[c]) \subseteq Batch /\ IsFiniteSet(Batch)
  BY DEF Batch, IInv, Counted
<1>5. Cardinality(ToSet(groups[c])) <= Cardinality(Batch)
  BY <1>4, FS_Subset
<1> QED
  BY <1>1, <1>3, <1>4, <1>5

\* The parts that say nothing of the submitters, the waiters and where the worker is.
DataInv == QueueIsTail /\ TakenInOrder /\ SentInOrder /\ Counted /\ OldestFirst

LEMMA DataFrame ==
    ASSUME IInv, UNCHANGED <<queue, admitted, groups, sent, arrived, statVars>>
    PROVE  DataInv' /\ Batch' = Batch
<1>1. Batch' = Batch
  BY DEF Batch
<1>2. Taken' = Taken /\ OneConversation' = OneConversation
  BY DEF Taken, OneConversation
<1>3. \A e, f : Before(e, f)' = Before(e, f)
  BY DEF Before
<1>4. QueueIsTail'
  BY <1>2 DEF IInv, QueueIsTail
<1>5. TakenInOrder'
  BY <1>2, <1>3 DEF IInv, TakenInOrder, Ordered
<1>6. SentInOrder'
  BY <1>1, <1>2, <1>3 DEF IInv, SentInOrder, Ordered
<1>7. Counted' /\ OldestFirst'
  BY <1>1, <1>2 DEF IInv, Counted, OldestFirst, statVars
<1> QED
  BY <1>1, <1>4, <1>5, <1>6, <1>7 DEF DataInv

-----------------------------------------------------------------------------
LEMMA InitInv == Init => IInv
<1> SUFFICES ASSUME Init PROVE IInv
  OBVIOUS
<1>1. Batch = {}
  BY DEF Init, Batch, ToSet
<1>2. IsFiniteSet(Batch) /\ Cardinality(Batch) = 0
  BY <1>1, FS_EmptySet
<1>3. TypeOK
  <2>1. Cardinality(Batch) <= BatchSize
    BY <1>2, ProcessorAssumption
  <2>2. Len(queue) <= QueueSize
    BY ProcessorAssumption DEF Init
  <2>3. arrived \in [Conversations -> Seq(Events)] /\ groups \in [Conversations -> Seq(Events)]
    BY DEF Init
  <2>4. /\ submit \in [Events -> {"idle", "blocked", "admitted", "refused"}]
        /\ waiter \in [Waiters -> {"idle", "flush", "look", "wait", "join", "returned"}]
        /\ target \in [Waiters -> Nat]
    BY DEF Init
  <2>5. queue \in Seq(Events) /\ admitted \in Seq(Events) /\ sent \in Seq(Events)
    BY DEF Init
  <2>6. committed \in Nat /\ failed \in Nat /\ pending \in Nat /\ updates \in 0..1
    BY DEF Init
  <2>7. /\ overflow \in {"drop", "block"} /\ stopping \in [Waiters -> BOOLEAN]
        /\ mu \in Events \union {NoOne} /\ closed \in BOOLEAN
        /\ worker \in {"receive", "collect", "deliver", "count", "fail", "notify", "done"}
    BY DEF Init
  <2> QED
    BY <2>1, <2>2, <2>3, <2>4, <2>5, <2>6, <2>7 DEF TypeOK
<1>4. DataInv
  BY <1>2 DEF Init, DataInv, QueueIsTail, Taken, TakenInOrder, SentInOrder, Ordered, Counted,
              OldestFirst
<1>5. WorkerState /\ ClosedState /\ WaiterState /\ AdmittedOnce
  BY <1>1 DEF Init, WorkerState, ClosedState, WaiterState, AdmittedOnce
<1> QED
  BY <1>3, <1>4, <1>5 DEF IInv, DataInv

-----------------------------------------------------------------------------
\* Submitters.

LEMMA AdmitData ==
    ASSUME IInv, NEW e \in Events, Admit(e), submit[e] # "admitted",
           UNCHANGED <<workVars, committed, failed>>
    PROVE  DataInv' /\ AdmittedOnce' /\ Batch' = Batch
<1>0. Sizes /\ Groups
  BY Sized, Grouped
<1>1. admitted \in Seq(Events) /\ queue \in Seq(Events)
  BY DEF IInv, TypeOK
<1>2. /\ Len(admitted') = Len(admitted) + 1 /\ Len(queue') = Len(queue) + 1
      /\ DOMAIN admitted' = 1..(Len(admitted) + 1) /\ DOMAIN queue' = 1..(Len(queue) + 1)
      /\ \A i \in DOMAIN admitted : i \in DOMAIN admitted' /\ admitted'[i] = admitted[i]
      /\ \A i \in DOMAIN queue : queue'[i] = queue[i]
      /\ admitted'[Len(admitted) + 1] = e /\ queue'[Len(queue) + 1] = e
  BY <1>1 DEF Admit
<1>3. /\ Batch' = Batch
      /\ UNCHANGED <<groups, sent, arrived, committed, failed>>
  BY DEF Batch, workVars
<1>4. Taken' = Taken
  BY <1>0, <1>2 DEF Sizes, Taken
<1>5. \A k \in 1..Taken : k \in DOMAIN admitted /\ admitted'[k] = admitted[k]
  BY <1>0, <1>2 DEF Sizes
<1>6. QueueIsTail'
  <2> SUFFICES ASSUME NEW i \in DOMAIN queue' PROVE queue'[i] = admitted'[Taken + i]
    BY <1>0, <1>4 DEF Sizes, QueueIsTail
  <2>1. CASE i \in DOMAIN queue
    <3>1. Taken + i \in DOMAIN admitted
      BY <2>1, <1>0 DEF Sizes
    <3> QED
      BY <2>1, <3>1, <1>2 DEF IInv, QueueIsTail
  <2>2. CASE i = Len(queue) + 1
    BY <2>2, <1>0, <1>2 DEF Sizes
  <2> QED
    BY <1>0, <1>2, <2>1, <2>2 DEF Sizes
<1>7. \A d, f : Before(d, f) => Before(d, f)'
  BY <1>2 DEF Before
<1>8. TakenInOrder'
  <2> SUFFICES ASSUME NEW c \in Conversations
               PROVE  TakenInOrder!(c)'
    BY DEF TakenInOrder
  <2>1. TakenInOrder!(c)
    BY DEF IInv, TakenInOrder
  <2>2. Ordered(arrived[c])' /\ Ordered(groups[c])'
    BY <2>1, <1>3, <1>7 DEF Ordered
  <2>3. \A i \in DOMAIN arrived[c] :
              /\ Conversation[arrived[c][i]] = c
              /\ \E k \in 1..Taken : arrived[c][i] = admitted'[k]
    BY <2>1, <1>5
  <2>4. \A i \in DOMAIN groups[c] :
              /\ Conversation[groups[c][i]] = c
              /\ \E k \in 1..Taken : groups[c][i] = admitted'[k]
    BY <2>1, <1>5
  <2>5. \A i \in DOMAIN arrived[c], j \in DOMAIN groups[c] :
              Before(arrived[c][i], groups[c][j])'
    BY <2>1, <1>3, <1>7
  <2> QED
    BY <1>3, <1>4, <2>2, <2>3, <2>4, <2>5
<1>9. SentInOrder'
  <2>1. SentInOrder
    BY DEF IInv
  <2>2. Ordered(sent)'
    BY <2>1, <1>3, <1>7 DEF Ordered, SentInOrder
  <2> QED
    BY <2>1, <2>2, <1>3, <1>4, <1>5 DEF SentInOrder
<1>10. Counted'
  <2>1. pending' = pending + 1
    BY DEF Admit
  <2>2. Len(admitted) = committed + failed + pending
        /\ pending = Len(queue) + Cardinality(Batch) + Len(sent)
    BY DEF IInv, Counted
  <2>3. Cardinality(Batch)' = Cardinality(Batch) /\ IsFiniteSet(Batch)'
    BY <1>0, <1>3 DEF Sizes
  <2>4. /\ committed \in Nat /\ failed \in Nat /\ pending \in Nat
        /\ Len(queue) \in Nat /\ Cardinality(Batch) \in Nat /\ Len(sent) \in Nat
    BY <1>0 DEF Sizes
  <2>5. Len(admitted') = committed' + failed' + pending'
    BY <2>1, <2>2, <2>4, <1>2, <1>3
  <2>6. pending' = Len(queue') + Cardinality(Batch) + Len(sent')
    BY <2>1, <2>2, <2>4, <1>2, <1>3
  <2> QED
    BY <2>3, <2>5, <2>6 DEF Counted
<1>11. OldestFirst'
  <2>1. ASSUME OneConversation', NEW i \in DOMAIN sent
        PROVE  sent[i] = admitted'[committed + failed + i]
    <3>1. OneConversation
      BY <1>2, <2>1 DEF OneConversation
    <3>2. committed + failed + i \in DOMAIN admitted
      BY <1>0, <2>1 DEF Sizes
    <3> QED
      BY <3>1, <3>2, <1>2, <2>1 DEF IInv, OldestFirst
  <2>2. ASSUME OneConversation', NEW c \in Conversations, NEW i \in DOMAIN groups[c]
        PROVE  groups[c][i] = admitted'[committed + failed + Len(sent) + i]
    <3>1. OneConversation
      BY <1>2, <2>2 DEF OneConversation
    <3>2. committed + failed + Len(sent) + i \in DOMAIN admitted
      <4>1. i \in 1..Len(groups[c]) /\ Len(groups[c]) \in Nat /\ Len(groups[c]) <= Cardinality(Batch)
        BY <1>0, <2>2 DEF Groups
      <4>2. /\ committed \in Nat /\ failed \in Nat /\ Cardinality(Batch) \in Nat
            /\ Len(sent) \in Nat /\ Len(queue) \in Nat
            /\ DOMAIN admitted = 1..(committed + failed + Cardinality(Batch) + Len(sent) + Len(queue))
        BY <1>0 DEF Sizes
      <4> QED
        BY <4>1, <4>2
    <3> QED
      BY <3>1, <3>2, <1>2, <2>2 DEF IInv, OldestFirst
  <2> QED
    BY <2>1, <2>2, <1>3 DEF OldestFirst
<1>12. AdmittedOnce'
  <2>0. AdmittedOnce /\ submit \in [Events -> {"idle", "blocked", "admitted", "refused"}]
    BY DEF IInv, TypeOK
  <2>1. \A i \in DOMAIN admitted : admitted[i] # e /\ admitted[i] \in Events
    BY <1>1, <2>0 DEF AdmittedOnce
  <2>2. submit' = [submit EXCEPT ![e] = "admitted"] /\ mu' = NoOne
    BY DEF Admit
  <2>3. /\ submit'[e] = "admitted"
        /\ \A i \in DOMAIN admitted : submit'[admitted[i]] = "admitted"
    BY <2>0, <2>1, <2>2 DEF AdmittedOnce
  <2>4. \A i \in DOMAIN admitted' : i \in DOMAIN admitted \/ i = Len(admitted) + 1
    <3>1. Len(admitted) \in Nat /\ DOMAIN admitted = 1..Len(admitted)
      BY <1>1
    <3> QED
      BY <3>1, <1>2
  <2>5. \A i \in DOMAIN admitted' : submit'[admitted'[i]] = "admitted"
    BY <2>3, <2>4, <1>2
  <2>6. \A i, j \in DOMAIN admitted' : admitted'[i] = admitted'[j] => i = j
    BY <2>0, <2>1, <2>4, <1>2 DEF AdmittedOnce
  <2> QED
    BY <2>2, <2>5, <2>6 DEF AdmittedOnce
<1> QED
  BY <1>3, <1>6, <1>8, <1>9, <1>10, <1>11, <1>12 DEF DataInv

LEMMA SubmitStep == ASSUME IInv, NEW e \in Events, Submitting(e) PROVE IInv'
<1>0. e # NoOne /\ submit \in [Events -> {"idle", "blocked", "admitted", "refused"}]
  BY ProcessorAssumption DEF IInv, TypeOK
<1>1. UNCHANGED <<options, closed, workVars, committed, failed, waitVars, updates>>
  BY DEF Submitting, Refuse, Enter, Block, Unblock, chanVars, statVars
<1>2. CASE Refuse(e) \/ Block(e)
  <2>1. UNCHANGED <<queue, admitted, groups, sent, arrived, statVars>>
    BY <1>2 DEF Refuse, Block, chanVars, workVars
  <2>2. DataInv' /\ Batch' = Batch
    BY <2>1, DataFrame
  <2>3. AdmittedOnce'
    <3>1. submit[e] = "idle" /\ mu = NoOne
      BY <1>2 DEF Refuse, Block
    <3>2. \A i \in DOMAIN admitted : admitted[i] # e /\ admitted[i] \in Events
      BY <3>1 DEF IInv, AdmittedOnce, TypeOK
    <3>3. PICK p \in {"refused", "blocked"} : submit' = [submit EXCEPT ![e] = p]
      BY <1>2 DEF Refuse, Block
    <3>4. \A i \in DOMAIN admitted : submit'[admitted[i]] = submit[admitted[i]]
      BY <3>2, <3>3, <1>0
    <3>5. mu' # NoOne => submit'[mu'] = "blocked"
      BY <1>2, <1>0, <3>1 DEF Refuse, Block
    <3> QED
      BY <3>4, <3>5, <2>1 DEF IInv, AdmittedOnce
  <2>4. TypeOK'
    BY <1>0, <1>1, <1>2, <2>1, <2>2
    DEF IInv, TypeOK, Refuse, Block, options, workVars, waitVars, statVars
  <2>5. ClosedState'
    BY <1>1, <1>2, <2>1 DEF IInv, ClosedState, Refuse, Block, workVars
  <2>6. WorkerState' /\ WaiterState'
    BY <1>1, <2>2 DEF IInv, WorkerState, WaiterState, options, workVars, waitVars
  <2> QED
    BY <2>2, <2>3, <2>4, <2>5, <2>6 DEF IInv, DataInv
<1>3. CASE Enter(e) \/ Unblock(e)
  <2>1. Admit(e) /\ Len(queue) < QueueSize
    BY <1>3 DEF Enter, Unblock
  <2>2. submit[e] # "admitted"
    BY <1>0, <1>3 DEF Enter, Unblock, IInv, AdmittedOnce
  <2>3. DataInv' /\ AdmittedOnce' /\ Batch' = Batch
    BY <1>1, <2>1, <2>2, AdmitData
  <2>4. TypeOK'
    BY <1>0, <1>1, <2>1, <2>3, ProcessorAssumption
    DEF IInv, TypeOK, Admit, options, workVars, waitVars
  <2>5. ~closed /\ mu' = NoOne
    BY <1>3, <1>0 DEF Enter, Unblock, Admit, IInv, ClosedState
  <2>6. ClosedState'
    BY <1>1, <2>5 DEF IInv, ClosedState, workVars
  <2>7. WorkerState' /\ WaiterState'
    BY <1>1, <2>3 DEF IInv, WorkerState, WaiterState, options, workVars, waitVars
  <2> QED
    BY <2>3, <2>4, <2>6, <2>7 DEF IInv, DataInv
<1> QED
  BY <1>2, <1>3 DEF Submitting

-----------------------------------------------------------------------------
\* The worker.

LEMMA TakeStep == ASSUME IInv, Take PROVE IInv'
<1>0. Sizes /\ Groups
  BY Sized, Grouped
<1> DEFINE e == Head(queue)
           d == Conversation[e]
<1>1. queue \in Seq(Events) /\ queue # <<>> /\ admitted \in Seq(Events)
  BY DEF IInv, TypeOK, Take
<1>2. /\ e = queue[1] /\ e \in Events /\ Len(queue) >= 1
      /\ queue' \in Seq(Events) /\ Len(queue') = Len(queue) - 1
      /\ DOMAIN queue' = 1..(Len(queue) - 1)
      /\ \A i \in DOMAIN queue' : queue'[i] = queue[i + 1]
  BY <1>1 DEF Take
<1>3. d \in Conversations /\ d = Conversation[e]
  BY <1>2 DEF Conversations
<1>4. /\ groups' = [groups EXCEPT ![d] = Append(groups[d], e)]
      /\ groups \in [Conversations -> Seq(Events)]
      /\ UNCHANGED <<options, submit, mu, closed, admitted, sent, arrived, committed, failed,
                     pending, updates, waitVars>>
      /\ worker \in {"receive", "collect"} /\ worker' = "collect"
  BY <1>3 DEF Take, statVars, IInv, TypeOK
<1> HIDE DEF e, d
<1>5. /\ groups' \in [Conversations -> Seq(Events)]
      /\ \A c \in Conversations \ {d} : groups'[c] = groups[c]
      /\ groups'[d] = Append(groups[d], e)
  BY <1>2, <1>3, <1>4
<1>6. /\ DOMAIN groups'[d] = 1..(Len(groups[d]) + 1) /\ Len(groups[d]) \in Nat
      /\ \A i \in 1..Len(groups[d]) : groups'[d][i] = groups[d][i] /\ i \in DOMAIN groups[d]
      /\ groups'[d][Len(groups[d]) + 1] = e
  BY <1>2, <1>3, <1>4, <1>5
<1>7. Taken' = Taken + 1 /\ Taken \in Nat /\ Taken + 1 \in DOMAIN admitted
  <2>1. Len(queue) \in Nat /\ Len(admitted) = Taken + Len(queue) /\ Taken \in Nat
        /\ DOMAIN admitted = 1..Len(admitted)
    BY <1>0 DEF Sizes
  <2> QED
    BY <2>1, <1>2, <1>4 DEF Taken
<1>8. e = admitted[Taken + 1]
  <2>1. 1 \in DOMAIN queue
    BY <1>1
  <2> QED
    BY <2>1, <1>2 DEF IInv, QueueIsTail
<1>9. \A k \in 1..Taken : k \in DOMAIN admitted /\ k < Taken + 1 /\ admitted[k] # e
  <2>1. DOMAIN admitted = 1..Len(admitted) /\ Len(admitted) \in Nat
    BY <1>1
  <2>2. \A k \in 1..Taken : k \in DOMAIN admitted /\ k < Taken + 1
    BY <2>1, <1>7
  <2> QED
    BY <2>2, <1>7, <1>8 DEF IInv, AdmittedOnce
<1>10. \A k \in 1..Taken : Before(admitted[k], e)
  BY <1>7, <1>8, <1>9 DEF Before
<1>11. e \notin Batch
  <2> SUFFICES ASSUME NEW c \in Conversations, NEW i \in DOMAIN groups[c], groups[c][i] = e
               PROVE  FALSE
    BY DEF Batch, ToSet
  <2> QED
    BY <1>9 DEF IInv, TakenInOrder
<1>12. Batch' = Batch \union {e}
  <2>1. ToSet(groups'[d]) = ToSet(groups[d]) \union {e}
    <3>1. DOMAIN groups[d] = 1..Len(groups[d])
      BY <1>0, <1>3 DEF Groups
    <3>2. \A i : i \in DOMAIN groups'[d] <=> i \in DOMAIN groups[d] \/ i = Len(groups[d]) + 1
      BY <3>1, <1>6
    <3>3. \A i \in DOMAIN groups[d] : groups'[d][i] = groups[d][i]
      BY <3>1, <1>6
    <3> QED
      BY <3>2, <3>3, <1>6 DEF ToSet
  <2>2. \A c \in Conversations \ {d} : ToSet(groups'[c]) = ToSet(groups[c])
    BY <1>5
  <2> QED
    BY <2>1, <2>2, <1>3 DEF Batch
<1>13. IsFiniteSet(Batch') /\ Cardinality(Batch') = Cardinality(Batch) + 1
  BY <1>0, <1>11, <1>12, FS_AddElement DEF Sizes
<1>14. Before(e, e) = FALSE /\ \A f, g : Before(f, g)' = Before(f, g)
  BY <1>4, NotBeforeItself DEF Before
<1>15. QueueIsTail'
  <2> SUFFICES ASSUME NEW i \in DOMAIN queue' PROVE queue'[i] = admitted[Taken' + i]
    BY <1>4, <1>7 DEF QueueIsTail
  <2>1. i \in Nat /\ i + 1 \in DOMAIN queue /\ Taken' + i = Taken + (i + 1)
    <3>1. DOMAIN queue = 1..Len(queue) /\ Len(queue) \in Nat /\ i \in 1..(Len(queue) - 1)
      BY <1>1, <1>2
    <3> QED
      BY <3>1, <1>7
  <2> QED
    BY <2>1, <1>2 DEF IInv, QueueIsTail
<1>16. \A k \in 1..Taken : k \in 1..Taken'
  BY <1>7
<1>17. TakenInOrder'
  <2> SUFFICES ASSUME NEW c \in Conversations PROVE TakenInOrder!(c)'
    BY DEF TakenInOrder
  <2>1. TakenInOrder!(c)
    BY DEF IInv, TakenInOrder
  <2>2. Ordered(arrived[c])'
    BY <2>1, <1>4, <1>14 DEF Ordered
  <2>3. \A i \in DOMAIN arrived[c] :
           Conversation[arrived[c][i]] = c /\ \E k \in 1..Taken' : arrived[c][i] = admitted[k]
    BY <2>1, <1>16
  <2>4. CASE c # d
    <3>1. groups'[c] = groups[c]
      BY <2>4, <1>5
    <3>2. Ordered(groups[c])'
      BY <2>1, <3>1, <1>14 DEF Ordered
    <3>3. \A i \in DOMAIN groups[c] :
             Conversation[groups[c][i]] = c /\ \E k \in 1..Taken' : groups[c][i] = admitted[k]
      BY <2>1, <1>16
    <3>4. (\A i \in DOMAIN arrived[c], j \in DOMAIN groups[c] : Before(arrived[c][i], groups[c][j]))'
      BY <2>1, <3>1, <1>4 DEF Before
    <3> QED
      BY <1>4, <2>2, <2>3, <3>1, <3>2, <3>3, <3>4
  <2>5. CASE c = d
    <3>1. \A i \in DOMAIN groups[c] : Before(groups[c][i], e)
      BY <2>1, <1>10
    <3>2. \A i \in DOMAIN arrived[c] : Before(arrived[c][i], e)
      BY <2>1, <1>10
    <3>3. \A i \in DOMAIN groups'[c] : i \in DOMAIN groups[c] \/ i = Len(groups[c]) + 1
      BY <2>5, <1>6
    <3>4. \A i, j \in DOMAIN groups'[c] : i < j => Before(groups'[c][i], groups'[c][j])
      <4> SUFFICES ASSUME NEW i \in DOMAIN groups'[c], NEW j \in DOMAIN groups'[c], i < j
                   PROVE  Before(groups'[c][i], groups'[c][j])
        OBVIOUS
      <4>1. i \in 1..Len(groups[c]) /\ groups'[c][i] = groups[c][i] /\ i \in DOMAIN groups[c]
        BY <2>5, <1>6
      <4>2. CASE j = Len(groups[c]) + 1
        BY <4>1, <4>2, <3>1, <2>5, <1>6
      <4>3. CASE j \in 1..Len(groups[c])
        BY <4>1, <4>3, <2>1, <2>5, <1>6 DEF Ordered
      <4> QED
        BY <4>2, <4>3, <2>5, <1>6
    <3>5. \A i \in DOMAIN groups'[c] :
             Conversation[groups'[c][i]] = c /\ \E k \in 1..Taken' : groups'[c][i] = admitted[k]
      <4> SUFFICES ASSUME NEW i \in DOMAIN groups'[c]
                   PROVE  Conversation[groups'[c][i]] = c
                          /\ \E k \in 1..Taken' : groups'[c][i] = admitted[k]
        OBVIOUS
      <4>1. CASE i = Len(groups[c]) + 1
        <5>1. groups'[c][i] = e /\ Taken + 1 \in 1..Taken'
          BY <4>1, <2>5, <1>6, <1>7
        <5> QED
          BY <5>1, <1>3, <1>8, <2>5
      <4>2. CASE i \in 1..Len(groups[c])
        <5>1. groups'[c][i] = groups[c][i] /\ i \in DOMAIN groups[c]
          BY <4>2, <2>5, <1>6
        <5> QED
          BY <5>1, <2>1, <1>16
      <4> QED
        BY <4>1, <4>2, <2>5, <1>6
    <3>6. \A i \in DOMAIN arrived[c], j \in DOMAIN groups'[c] : Before(arrived[c][i], groups'[c][j])
      <4> SUFFICES ASSUME NEW i \in DOMAIN arrived[c], NEW j \in DOMAIN groups'[c]
                   PROVE  Before(arrived[c][i], groups'[c][j])
        OBVIOUS
      <4>1. CASE j = Len(groups[c]) + 1
        BY <4>1, <3>2, <2>5, <1>6
      <4>2. CASE j \in 1..Len(groups[c])
        BY <4>2, <2>1, <2>5, <1>6
      <4> QED
        BY <4>1, <4>2, <2>5, <1>6
    <3>7. Ordered(groups[c])'
      BY <3>4, <1>14 DEF Ordered
    <3>8. (\A i \in DOMAIN arrived[c], j \in DOMAIN groups[c] : Before(arrived[c][i], groups[c][j]))'
      <4>1. arrived' = arrived
        BY <1>4
      <4> QED
        BY <3>6, <4>1, <1>14
    <3> QED
      BY <1>4, <2>2, <2>3, <3>5, <3>7, <3>8
  <2> QED
    BY <2>4, <2>5
<1>18. sent = <<>>
  BY <1>4 DEF IInv, WorkerState
<1>19. SentInOrder'
  BY <1>4, <1>18 DEF SentInOrder, Ordered
<1>20. Counted'
  <2>1. /\ committed \in Nat /\ failed \in Nat /\ pending \in Nat
        /\ Len(queue) \in Nat /\ Cardinality(Batch) \in Nat /\ Len(sent) \in Nat
    BY <1>0 DEF Sizes
  <2>2. Len(admitted) = committed + failed + pending
        /\ pending = Len(queue) + Cardinality(Batch) + Len(sent)
    BY DEF IInv, Counted
  <2>3. pending = Len(queue') + Cardinality(Batch') + Len(sent)
    BY <2>1, <2>2, <1>2, <1>13
  <2> QED
    BY <2>2, <2>3, <1>4, <1>13 DEF Counted
<1>21. OldestFirst'
  <2> SUFFICES ASSUME OneConversation, NEW c \in Conversations, NEW i \in DOMAIN groups'[c]
               PROVE  groups'[c][i] = admitted[committed + failed + Len(sent) + i]
    BY <1>4, <1>18 DEF OldestFirst, OneConversation
  <2>1. \A b \in Conversations : groups[b] # <<>> => b = d
    <3> SUFFICES ASSUME NEW b \in Conversations, groups[b] # <<>> PROVE b = d
      OBVIOUS
    <3>1. 1 \in DOMAIN groups[b]
      BY <1>0 DEF Groups
    <3>2. PICK k \in 1..Taken : groups[b][1] = admitted[k] /\ Conversation[groups[b][1]] = b
      BY <3>1 DEF IInv, TakenInOrder
    <3> QED
      BY <3>2, <1>3, <1>7, <1>8, <1>9 DEF OneConversation
  <2>2. c = d
    BY <2>1, <1>5, <1>0 DEF Groups
  <2>3. Cardinality(Batch) = Len(groups[d])
    <3>1. Batch = ToSet(groups[d])
      BY <2>1, <1>3 DEF Batch, ToSet
    <3> QED
      BY <3>1, <1>0, <1>3 DEF Groups
  <2>4. CASE i \in 1..Len(groups[d])
    BY <2>2, <2>4, <1>3, <1>6 DEF IInv, OldestFirst
  <2>5. CASE i = Len(groups[d]) + 1
    <3>1. /\ committed \in Nat /\ failed \in Nat /\ Len(sent) \in Nat /\ Cardinality(Batch) \in Nat
          /\ Taken = committed + failed + Cardinality(Batch) + Len(sent)
      BY <1>0 DEF Sizes
    <3>2. i = Cardinality(Batch) + 1
      BY <2>3, <2>5, Zenon
    <3>3. committed + failed + Len(sent) + i = Taken + 1
      BY <3>1, <3>2
    <3> QED
      BY <3>3, <2>2, <2>5, <1>6, <1>8
  <2> QED
    BY <2>2, <2>4, <2>5, <1>6
<1>22. TypeOK'
  <2>1. Cardinality(Batch) < BatchSize /\ Cardinality(Batch) \in Nat /\ Len(queue) <= QueueSize
        /\ Len(queue) \in Nat
    BY <1>0 DEF Take, Sizes, IInv, TypeOK
  <2>2. Cardinality(Batch') <= BatchSize /\ Len(queue') <= QueueSize
    BY <2>1, <1>2, <1>13, ProcessorAssumption
  <2> QED
    BY <2>2, <1>2, <1>4, <1>5 DEF IInv, TypeOK, options, waitVars, Conversations
<1>23. WorkerState' /\ ClosedState' /\ WaiterState' /\ AdmittedOnce'
  BY <1>4, <1>18 DEF IInv, WorkerState, ClosedState, WaiterState, AdmittedOnce, options, waitVars
<1> QED
  BY <1>15, <1>17, <1>19, <1>20, <1>21, <1>22, <1>23 DEF IInv

\* What has arrived, followed by the group, is still in the order of admission.
LEMMA ArrivedInOrder ==
    ASSUME IInv, NEW c \in Conversations
    PROVE  \A s : s = arrived[c] \o groups[c] =>
              /\ Ordered(s)
              /\ \A i \in DOMAIN s :
                    Conversation[s[i]] = c /\ \E k \in 1..Taken : s[i] = admitted[k]
<1> SUFFICES ASSUME NEW s, s = arrived[c] \o groups[c]
             PROVE  /\ Ordered(s)
                    /\ \A i \in DOMAIN s :
                          Conversation[s[i]] = c /\ \E k \in 1..Taken : s[i] = admitted[k]
  OBVIOUS
<1>0. Groups
  BY Grouped
<1> DEFINE a == arrived[c]
           g == groups[c]
<1>1. TakenInOrder!(c)
  BY DEF IInv, TakenInOrder
<1>2. /\ a \in Seq(Events) /\ g \in Seq(Events)
      /\ Ordered(a) /\ Ordered(g)
      /\ \A i \in DOMAIN a : Conversation[a[i]] = c /\ \E k \in 1..Taken : a[i] = admitted[k]
      /\ \A i \in DOMAIN g : Conversation[g[i]] = c /\ \E k \in 1..Taken : g[i] = admitted[k]
      /\ \A i \in DOMAIN a, j \in DOMAIN g : Before(a[i], g[j])
      /\ s = a \o g
  BY <1>0, <1>1 DEF Groups
<1> HIDE DEF a, g
<1>3. /\ Len(a) \in Nat /\ Len(g) \in Nat
      /\ DOMAIN a = 1..Len(a) /\ DOMAIN g = 1..Len(g) /\ DOMAIN s = 1..(Len(a) + Len(g))
  BY <1>2
<1>4. \A i \in 1..Len(a) : s[i] = a[i]
  BY <1>2
<1>5. \A i \in (Len(a) + 1)..(Len(a) + Len(g)) : s[i] = g[i - Len(a)] /\ i - Len(a) \in DOMAIN g
  BY <1>2, <1>3
<1>6. \A i \in DOMAIN s : i \in 1..Len(a) \/ i \in (Len(a) + 1)..(Len(a) + Len(g))
  BY <1>3
<1>7. \A i \in DOMAIN s : Conversation[s[i]] = c /\ \E k \in 1..Taken : s[i] = admitted[k]
  <2> SUFFICES ASSUME NEW i \in DOMAIN s
               PROVE  Conversation[s[i]] = c /\ \E k \in 1..Taken : s[i] = admitted[k]
    OBVIOUS
  <2>1. CASE i \in 1..Len(a)
    BY <2>1, <1>2, <1>3, <1>4
  <2>2. CASE i \in (Len(a) + 1)..(Len(a) + Len(g))
    <3>1. i - Len(a) \in DOMAIN g /\ s[i] = g[i - Len(a)]
      BY <2>2, <1>5
    <3> QED
      BY <3>1, <1>2
  <2> QED
    BY <1>6, <2>1, <2>2
<1>8. Ordered(s)
  <2> SUFFICES ASSUME NEW i \in DOMAIN s, NEW j \in DOMAIN s, i < j PROVE Before(s[i], s[j])
    BY DEF Ordered
  <2>1. CASE i \in 1..Len(a) /\ j \in 1..Len(a)
    BY <2>1, <1>2, <1>3, <1>4 DEF Ordered
  <2>2. CASE i \in 1..Len(a) /\ j \in (Len(a) + 1)..(Len(a) + Len(g))
    BY <2>2, <1>2, <1>3, <1>4, <1>5
  <2>3. CASE i \in (Len(a) + 1)..(Len(a) + Len(g)) /\ j \in (Len(a) + 1)..(Len(a) + Len(g))
    <3>1. i - Len(a) < j - Len(a)
      BY <2>3, <1>3
    <3> QED
      BY <2>3, <3>1, <1>2, <1>5 DEF Ordered
  <2> QED
    <3>1. ~(i \in (Len(a) + 1)..(Len(a) + Len(g)) /\ j \in 1..Len(a))
      BY <1>3
    <3> QED
      BY <1>6, <2>1, <2>2, <2>3, <3>1
<1> QED
  BY <1>7, <1>8

LEMMA SendStep == ASSUME IInv, Send PROVE IInv'
<1>0. Sizes /\ Groups
  BY Sized, Grouped
<1>1. PICK c \in Conversations :
          /\ groups[c] # <<>>
          /\ sent' = groups[c]
          /\ groups' = [groups EXCEPT ![c] = <<>>]
          /\ arrived' \in {arrived, [arrived EXCEPT ![c] = arrived[c] \o groups[c]]}
          /\ worker' \in {"count", "fail"}
  BY DEF Send
<1>2. /\ UNCHANGED <<options, submit, mu, queue, closed, admitted, committed, failed, pending,
                     updates, waitVars>>
      /\ worker = "deliver" /\ sent = <<>>
  BY DEF Send, chanVars, statVars, IInv, WorkerState
<1>3. /\ groups \in [Conversations -> Seq(Events)] /\ arrived \in [Conversations -> Seq(Events)]
      /\ groups[c] \in Seq(Events)
  BY DEF IInv, TypeOK
<1>4. /\ groups' \in [Conversations -> Seq(Events)] /\ groups'[c] = <<>>
      /\ \A d \in Conversations \ {c} : groups'[d] = groups[d]
  BY <1>1, <1>3
<1>5. \A d \in Conversations \ {c} : ToSet(groups[d]) \intersect ToSet(groups[c]) = {}
  BY DEF IInv, TakenInOrder, ToSet
<1>6. Batch' = Batch \ ToSet(groups[c])
  <2>1. ToSet(groups'[c]) = {}
    BY <1>4 DEF ToSet
  <2>2. \A d \in Conversations \ {c} : ToSet(groups'[d]) = ToSet(groups[d]) \ ToSet(groups[c])
    BY <1>4, <1>5
  <2> QED
    BY <2>1, <2>2 DEF Batch
<1>7. /\ IsFiniteSet(Batch') /\ Cardinality(Batch') \in Nat
      /\ Cardinality(Batch) = Cardinality(Batch') + Len(groups[c])
  <2>1. ToSet(groups[c]) \subseteq Batch /\ Cardinality(ToSet(groups[c])) = Len(groups[c])
        /\ IsFiniteSet(Batch) /\ Cardinality(Batch) \in Nat /\ Len(groups[c]) \in Nat
    BY <1>0 DEF Sizes, Groups
  <2>2. Batch \intersect ToSet(groups[c]) = ToSet(groups[c])
    BY <2>1
  <2>3. IsFiniteSet(Batch') /\ Cardinality(Batch') = Cardinality(Batch) - Cardinality(ToSet(groups[c]))
    <3>1. /\ IsFiniteSet(Batch \ ToSet(groups[c]))
          /\ Cardinality(Batch \ ToSet(groups[c]))
                = Cardinality(Batch) - Cardinality(Batch \intersect ToSet(groups[c]))
      BY <2>1, FS_Difference
    <3> QED
      BY <3>1, <2>2, <1>6
  <2>4. Cardinality(Batch') \in Nat
    BY <2>3, FS_CardinalityType
  <2> QED
    BY <2>1, <2>3, <2>4
<1>8. Taken' = Taken
  BY <1>2 DEF Taken
<1>9. \A f, g : Before(f, g)' = Before(f, g)
  BY <1>2 DEF Before
<1>10. QueueIsTail'
  BY <1>2, <1>8 DEF IInv, QueueIsTail
<1>11. TakenInOrder!(c)
  BY DEF IInv, TakenInOrder
<1>12. arrived' \in [Conversations -> Seq(Events)]
  <2>1. arrived[c] \o groups[c] \in Seq(Events)
    BY <1>3
  <2> QED
    BY <1>1, <1>3, <2>1
<1>13. TakenInOrder'
  <2> SUFFICES ASSUME NEW d \in Conversations PROVE TakenInOrder!(d)'
    BY DEF TakenInOrder
  <2>1. TakenInOrder!(d)
    BY DEF IInv, TakenInOrder
  <2>2. /\ Ordered(arrived'[d])
        /\ \A i \in DOMAIN arrived'[d] :
              Conversation[arrived'[d][i]] = d /\ \E k \in 1..Taken : arrived'[d][i] = admitted[k]
    <3>1. CASE arrived'[d] = arrived[d]
      BY <2>1, <3>1
    <3>2. CASE d = c /\ arrived'[c] = arrived[c] \o groups[c]
      <4>1. arrived'[d] = arrived[d] \o groups[d]
        BY <3>2
      <4>2. \A s : s = arrived[d] \o groups[d] =>
               /\ Ordered(s)
               /\ \A i \in DOMAIN s :
                     Conversation[s[i]] = d /\ \E k \in 1..Taken : s[i] = admitted[k]
        BY ArrivedInOrder
      <4> QED
        BY <4>1, <4>2
    <3> QED
      BY <1>1, <1>3, <3>1, <3>2
  <2>3. CASE d = c
    <3>1. DOMAIN groups'[d] = {}
      BY <2>3, <1>4
    <3>2. Ordered(groups[d])'
      BY <3>1 DEF Ordered
    <3>3. Ordered(arrived[d])'
      BY <2>2, <1>9 DEF Ordered
    <3> QED
      BY <2>2, <3>1, <3>2, <3>3, <1>2, <1>8
  <2>4. CASE d # c
    <3>1. groups'[d] = groups[d] /\ arrived'[d] = arrived[d]
      BY <2>4, <1>1, <1>3, <1>4
    <3>2. Ordered(groups[d])' /\ Ordered(arrived[d])'
      BY <2>1, <3>1, <1>9 DEF Ordered
    <3>3. (\A i \in DOMAIN arrived[d], j \in DOMAIN groups[d] : Before(arrived[d][i], groups[d][j]))'
      BY <2>1, <3>1, <1>2 DEF Before
    <3> QED
      BY <2>1, <2>2, <3>1, <3>2, <3>3, <1>2, <1>8
  <2> QED
    BY <2>3, <2>4
<1>14. SentInOrder'
  <2>1. Ordered(sent)'
    BY <1>1, <1>9, <1>11 DEF Ordered
  <2>2. \A i \in DOMAIN groups[c] : groups[c][i] \notin Batch'
    BY <1>6 DEF ToSet
  <2> QED
    BY <2>1, <2>2, <1>1, <1>2, <1>8, <1>11 DEF SentInOrder
<1>15. Counted'
  <2>1. /\ committed \in Nat /\ failed \in Nat /\ pending \in Nat
        /\ Len(queue) \in Nat /\ Cardinality(Batch) \in Nat
    BY <1>0 DEF Sizes
  <2>2. Len(admitted) = committed + failed + pending
        /\ pending = Len(queue) + Cardinality(Batch) + Len(sent)
    BY DEF IInv, Counted
  <2>3. Len(sent) = 0 /\ Len(sent') \in Nat /\ Cardinality(Batch) = Cardinality(Batch') + Len(sent')
    BY <1>1, <1>2, <1>3, <1>7
  <2>4. pending = Len(queue) + Cardinality(Batch') + Len(sent')
    BY <2>1, <2>2, <2>3, <1>7
  <2> QED
    BY <2>2, <2>4, <1>2, <1>7 DEF Counted
<1>16. OldestFirst'
  <2> SUFFICES ASSUME OneConversation
               PROVE  OldestFirst!2'
    BY <1>2 DEF OldestFirst, OneConversation
  <2>1. \A d \in Conversations : groups'[d] = <<>>
    <3> SUFFICES ASSUME NEW d \in Conversations, d # c, groups[d] # <<>> PROVE FALSE
      BY <1>4
    <3>1. 1 \in DOMAIN groups[d] /\ 1 \in DOMAIN groups[c]
      BY <1>0, <1>1 DEF Groups
    <3>2. PICK k \in 1..Taken : groups[d][1] = admitted[k] /\ Conversation[groups[d][1]] = d
      BY <3>1 DEF IInv, TakenInOrder
    <3>3. PICK l \in 1..Taken : groups[c][1] = admitted[l] /\ Conversation[groups[c][1]] = c
      BY <3>1 DEF IInv, TakenInOrder
    <3>4. k \in DOMAIN admitted /\ l \in DOMAIN admitted
      BY <1>0 DEF Sizes
    <3> QED
      BY <3>2, <3>3, <3>4 DEF OneConversation
  <2>2. Len(sent) = 0 /\ committed \in Nat /\ failed \in Nat
    BY <1>0, <1>2 DEF Sizes
  <2>3. \A i \in DOMAIN sent' : sent'[i] = admitted[committed + failed + i]
    <3>1. \A i \in DOMAIN groups[c] : groups[c][i] = admitted[committed + failed + Len(sent) + i]
      BY DEF IInv, OldestFirst
    <3>2. committed + failed + Len(sent) = committed + failed
      BY <2>2
    <3> QED
      BY <3>1, <3>2, <1>1
  <2> QED
    BY <2>1, <2>3, <1>2
<1>17. TypeOK'
  <2>1. Cardinality(Batch') <= BatchSize
    <3>1. Cardinality(Batch) <= BatchSize /\ Len(groups[c]) \in Nat /\ Cardinality(Batch) \in Nat
      BY <1>0 DEF Sizes, Groups, IInv, TypeOK
    <3> QED
      BY <3>1, <1>7, ProcessorAssumption
  <2> QED
    BY <2>1, <1>1, <1>2, <1>3, <1>4, <1>12 DEF IInv, TypeOK, options, waitVars
<1>18. WorkerState' /\ ClosedState' /\ WaiterState' /\ AdmittedOnce'
  BY <1>1, <1>2 DEF IInv, WorkerState, ClosedState, WaiterState, AdmittedOnce, options, waitVars
<1> QED
  BY <1>10, <1>13, <1>14, <1>15, <1>16, <1>17, <1>18 DEF IInv

LEMMA CountStep == ASSUME IInv, Count PROVE IInv'
<1>0. Sizes /\ Groups
  BY Sized, Grouped
<1>1. /\ UNCHANGED <<options, submit, mu, queue, closed, admitted, groups, arrived, updates, waitVars>>
      /\ sent' = <<>> /\ worker' = "notify" /\ worker \in {"count", "fail"}
      /\ pending' = pending - Len(sent)
      /\ \/ committed' = committed + Len(sent) /\ failed' = failed
         \/ failed' = failed + Len(sent) /\ committed' = committed
  BY DEF Count, chanVars
<1>2. Batch' = Batch
  BY <1>1 DEF Batch
<1>3. /\ committed \in Nat /\ failed \in Nat /\ pending \in Nat
      /\ Len(queue) \in Nat /\ Cardinality(Batch) \in Nat /\ Len(sent) \in Nat
  BY <1>0 DEF Sizes
<1>4. Len(admitted) = committed + failed + pending
      /\ pending = Len(queue) + Cardinality(Batch) + Len(sent)
  BY DEF IInv, Counted
<1>5. /\ committed' \in Nat /\ failed' \in Nat /\ pending' \in Nat
      /\ committed' + failed' = committed + failed + Len(sent)
      /\ committed' + failed' >= committed + failed
      /\ Len(admitted) = committed' + failed' + pending'
      /\ pending' = Len(queue) + Cardinality(Batch)
  <2>1. pending' = Len(queue) + Cardinality(Batch) /\ pending' \in Nat
    BY <1>1, <1>3, <1>4
  <2>2. /\ committed' \in Nat /\ failed' \in Nat
        /\ committed' + failed' = committed + failed + Len(sent)
    BY <1>1, <1>3
  <2>3. Len(admitted) = committed + failed + (Len(sent) + pending')
    BY <1>3, <1>4, <2>1
  <2>4. Len(admitted) = committed' + failed' + pending'
    BY <1>3, <2>1, <2>2, <2>3
  <2>5. \A a, b, n \in Nat : a + b + n >= a + b
    OBVIOUS
  <2>6. committed + failed + Len(sent) >= committed + failed
    BY <1>3, <2>5, Zenon
  <2>7. committed' + failed' >= committed + failed
    BY <2>2, <2>6, Zenon
  <2> QED
    BY <2>1, <2>2, <2>4, <2>7
<1>6. Taken' = Taken /\ OneConversation' = OneConversation
  BY <1>1 DEF Taken, OneConversation
<1>7. \A f, g : Before(f, g)' = Before(f, g)
  BY <1>1 DEF Before
<1>8. QueueIsTail'
  BY <1>1, <1>6 DEF IInv, QueueIsTail
<1>9. TakenInOrder'
  BY <1>1, <1>6, <1>7 DEF IInv, TakenInOrder, Ordered
<1>10. SentInOrder'
  BY <1>1 DEF SentInOrder, Ordered
<1>11. Counted'
  <2>1. Len(sent') = 0
    BY <1>1
  <2>2. pending' = Len(queue) + Cardinality(Batch) + Len(sent')
    BY <2>1, <1>3, <1>5
  <2>3. IsFiniteSet(Batch)
    BY <1>0 DEF Sizes
  <2> QED
    BY <2>2, <2>3, <1>1, <1>2, <1>5 DEF Counted
<1>12. OldestFirst'
  <2> SUFFICES ASSUME OneConversation, NEW c \in Conversations, NEW i \in DOMAIN groups[c]
               PROVE  groups[c][i] = admitted[committed' + failed' + 0 + i]
    BY <1>1, <1>6 DEF OldestFirst
  <2>1. groups[c][i] = admitted[committed + failed + Len(sent) + i]
    BY DEF IInv, OldestFirst
  <2>2. i \in Nat
    BY <1>0 DEF Groups
  <2>3. committed' + failed' + 0 + i = committed + failed + Len(sent) + i
    BY <2>2, <1>3, <1>5
  <2> QED
    BY <2>1, <2>3
<1>13. TypeOK'
  <2>1. sent' \in Seq(Events)
    BY <1>1
  <2>2. worker' \in {"receive", "collect", "deliver", "count", "fail", "notify", "done"}
    BY <1>1
  <2>3. committed' \in Nat /\ failed' \in Nat /\ pending' \in Nat
    BY <1>5
  <2> QED
    BY <2>1, <2>2, <2>3, <1>1, <1>2 DEF IInv, TypeOK, options, waitVars
<1>14. WaiterState'
  <2> SUFFICES ASSUME NEW w \in Waiters, waiter[w] \in {"join", "returned"}
               PROVE  /\ target[w] <= committed' + failed'
                      /\ stopping[w] /\ waiter[w] = "returned" => worker' = "done"
    BY <1>1 DEF WaiterState, options, waitVars
  <2>1. /\ target[w] <= committed + failed /\ target[w] \in Nat
        /\ stopping[w] /\ waiter[w] = "returned" => worker = "done"
    BY DEF IInv, WaiterState, TypeOK
  <2>2. \A a, b, n, t \in Nat : t <= a + b => t <= a + b + n
    OBVIOUS
  <2>3. target[w] <= committed' + failed'
    <3>1. target[w] <= committed + failed + Len(sent)
      BY <2>1, <2>2, <1>3, Zenon
    <3> QED
      BY <3>1, <1>5, Zenon
  <2>4. ~(stopping[w] /\ waiter[w] = "returned")
    BY <2>1, <1>1
  <2> QED
    BY <2>3, <2>4
<1>15. WorkerState' /\ ClosedState' /\ AdmittedOnce'
  BY <1>1 DEF IInv, WorkerState, ClosedState, AdmittedOnce
<1> QED
  BY <1>8, <1>9, <1>10, <1>11, <1>12, <1>13, <1>14, <1>15 DEF IInv

\* The worker goes from one phase to the next.
LEMMA PhaseStep == ASSUME IInv, Collected \/ Notify \/ Finish PROVE IInv'
<1>1. UNCHANGED <<options, submit, mu, chanVars, groups, sent, arrived, statVars, waitVars>>
  BY DEF Collected, Notify, Finish
<1>2. DataInv' /\ Batch' = Batch
  BY <1>1, DataFrame DEF chanVars
<1>3. /\ worker' \in {"receive", "deliver", "done"} /\ updates' \in {0, 1}
      /\ worker \notin {"count", "fail", "done"}
      /\ worker' \in {"receive", "done"} => Batch = {}
      /\ worker' = "done" => closed /\ queue = <<>>
  BY DEF Collected, Notify, Finish, IInv, WorkerState, TypeOK
<1>4. TypeOK'
  BY <1>1, <1>2, <1>3 DEF IInv, TypeOK, options, chanVars, statVars, waitVars
<1>5. WorkerState'
  BY <1>1, <1>2, <1>3 DEF IInv, WorkerState
<1>6. ClosedState' /\ AdmittedOnce'
  BY <1>1, <1>3 DEF IInv, ClosedState, AdmittedOnce, chanVars
<1>7. WaiterState'
  BY <1>1, <1>3 DEF IInv, WaiterState, options, statVars, waitVars
<1> QED
  BY <1>2, <1>4, <1>5, <1>6, <1>7 DEF IInv, DataInv

-----------------------------------------------------------------------------
\* A waiter passes its wait when its target is counted, and returns from a shutdown
\* when the worker has ended.
LEMMA WaitStep == ASSUME IInv, NEW w \in Waiters, Close(w) \/ Waiting(w) PROVE IInv'
<1>1. UNCHANGED <<options, submit, mu, queue, admitted, workVars, statVars>>
  BY DEF Waiting, Close, Aim, Look, Wake, Join, chanVars
<1>2. DataInv' /\ Batch' = Batch
  BY <1>1, DataFrame DEF workVars
<1>3. /\ waiter \in [Waiters -> {"idle", "flush", "look", "wait", "join", "returned"}]
      /\ target \in [Waiters -> Nat] /\ Len(admitted) \in Nat
      /\ committed \in Nat /\ failed \in Nat
  BY DEF IInv, TypeOK
<1>4. PICK p \in {"flush", "look", "wait", "join", "returned"} : waiter' = [waiter EXCEPT ![w] = p]
  BY DEF Waiting, Close, Aim, Look, Wake, Join
<1>5. p \in {"join", "returned"} => target[w] <= committed + failed /\ target' = target
  <2>1. CASE Close(w) \/ Aim(w) \/ Wake(w)
    BY <2>1, <1>3, <1>4 DEF Close, Aim, Wake
  <2>2. CASE Look(w)
    BY <2>2, <1>3, <1>4 DEF Look
  <2>3. CASE Join(w)
    BY <2>3, <1>3, <1>4 DEF Join, IInv, WaiterState
  <2> QED
    BY <2>1, <2>2, <2>3 DEF Waiting
<1>6. p = "returned" /\ stopping[w] => worker = "done"
  BY <1>3, <1>4 DEF Waiting, Close, Aim, Look, Wake, Join
<1>7. \A v \in Waiters \ {w} : target'[v] = target[v]
  BY <1>3 DEF Waiting, Close, Aim, Look, Wake, Join
<1>8. target' \in [Waiters -> Nat] /\ updates' \in 0..1 /\ closed' \in BOOLEAN
  <2>1. target' \in [Waiters -> Nat]
    BY <1>3 DEF Waiting, Close, Aim, Look, Wake, Join
  <2>2. updates' \in {0, updates} /\ closed' \in {TRUE, closed}
    BY DEF Waiting, Close, Aim, Look, Wake, Join, chanVars
  <2>3. updates \in 0..1 /\ closed \in BOOLEAN
    BY DEF IInv, TypeOK
  <2>4. updates' \in 0..1
    BY <2>2, <2>3
  <2>5. closed' \in BOOLEAN
    BY <2>2, <2>3
  <2> QED
    BY <2>1, <2>4, <2>5
<1>9. waiter' \in [Waiters -> {"idle", "flush", "look", "wait", "join", "returned"}]
  BY <1>3, <1>4
<1>10. TypeOK'
  BY <1>1, <1>2, <1>8, <1>9 DEF IInv, TypeOK, options, workVars, statVars
<1>11. WaiterState'
  <2> SUFFICES ASSUME NEW v \in Waiters
               PROVE  /\ waiter'[v] \in {"join", "returned"} => target'[v] <= committed + failed
                      /\ stopping[v] /\ waiter'[v] = "returned" => worker = "done"
    BY <1>1 DEF WaiterState, options, workVars, statVars
  <2>1. CASE v = w
    BY <2>1, <1>3, <1>4, <1>5, <1>6
  <2>2. CASE v # w
    BY <2>2, <1>3, <1>4, <1>7 DEF IInv, WaiterState
  <2> QED
    BY <2>1, <2>2
<1>12. ClosedState'
  BY <1>1 DEF IInv, ClosedState, Waiting, Close, Aim, Look, Wake, Join, chanVars, workVars
<1>13. WorkerState' /\ AdmittedOnce'
  BY <1>1, <1>2 DEF IInv, WorkerState, AdmittedOnce, workVars
<1> QED
  BY <1>2, <1>10, <1>11, <1>12, <1>13 DEF IInv, DataInv

LEMMA NextInv == IInv /\ [Next]_vars => IInv'
<1>1. ASSUME IInv, UNCHANGED vars PROVE IInv'
  <2>1. DataInv' /\ Batch' = Batch
    BY <1>1, DataFrame DEF vars, chanVars, workVars
  <2>2. TypeOK'
    BY <1>1, <2>1 DEF IInv, TypeOK, vars, options, chanVars, workVars, statVars, waitVars
  <2>3. WorkerState' /\ ClosedState' /\ WaiterState' /\ AdmittedOnce'
    BY <1>1, <2>1 DEF IInv, WorkerState, ClosedState, WaiterState, AdmittedOnce, vars, options,
                      chanVars, workVars, statVars, waitVars
  <2> QED
    BY <2>1, <2>2, <2>3 DEF IInv, DataInv
<1> QED
  BY <1>1, SubmitStep, TakeStep, SendStep, CountStep, PhaseStep, WaitStep DEF Next, Working

LEMMA Invariance == Spec => []IInv
BY InitInv, NextInv, PTL DEF Spec

-----------------------------------------------------------------------------
\* Every variable of the processor (processor.go) keeps its type: the channel and the
\* batch their bounds, the counters the natural numbers, as Pending, an unsigned
\* number, never goes below zero.
THEOREM TypeCorrect == Spec => []TypeOK
<1>1. IInv => TypeOK
  BY DEF IInv
<1> QED
  BY <1>1, Invariance, PTL

\* Stats (processor.go) never lose an event and count none twice: what was enqueued is
\* committed, failed or pending, and pending is what the channel and the worker hold.
THEOREM StatsAlwaysAddUp == Spec => []StatsAddUp
<1>1. IInv => StatsAddUp
  <2> SUFFICES ASSUME IInv PROVE StatsAddUp
    OBVIOUS
  <2>0. Sizes
    BY Sized
  <2>1. /\ Len(admitted) = committed + failed + pending
        /\ pending = Len(queue) + Cardinality(Batch) + Len(sent)
        /\ IsFiniteSet(Batch) /\ Cardinality(Batch) \in Nat
        /\ Len(queue) \in Nat /\ Len(sent) \in Nat
    BY <2>0 DEF IInv, Counted, Sizes
  <2>2. queue \in Seq(Events) /\ sent \in Seq(Events)
    BY DEF IInv, TypeOK
  <2>3. IsFiniteSet(ToSet(queue)) /\ Cardinality(ToSet(queue)) = Len(queue)
    <3>1. \A i \in DOMAIN queue : Taken + i \in DOMAIN admitted /\ queue[i] = admitted[Taken + i]
      BY <2>0 DEF Sizes, IInv, QueueIsTail
    <3>2. \A i, j \in DOMAIN queue : queue[i] = queue[j] => Taken + i = Taken + j
      BY <3>1 DEF IInv, AdmittedOnce
    <3>3. \A i, j \in DOMAIN queue : Taken + i = Taken + j => i = j
      BY <2>0 DEF Sizes
    <3> QED
      BY <3>2, <3>3, <2>2, DistinctElements
  <2>4. IsFiniteSet(ToSet(sent)) /\ Cardinality(ToSet(sent)) = Len(sent)
    BY <2>2, OrderedIsDistinct, DistinctElements DEF IInv, SentInOrder
  <2>5. ToSet(sent) \intersect Batch = {}
    BY <2>2, ToSetOf DEF IInv, SentInOrder
  <2>6. ToSet(queue) \intersect (Batch \union ToSet(sent)) = {}
    <3> SUFFICES ASSUME NEW i \in DOMAIN queue, queue[i] \in Batch \union ToSet(sent) PROVE FALSE
      BY DEF ToSet
    <3>1. PICK k \in 1..Taken : queue[i] = admitted[k]
      <4>1. CASE queue[i] \in Batch
        BY <4>1, InBatch DEF IInv, TakenInOrder
      <4>2. CASE queue[i] \in ToSet(sent)
        BY <4>2 DEF ToSet, IInv, SentInOrder
      <4> QED
        BY <4>1, <4>2
    <3>2. queue[i] = admitted[Taken + i]
      BY DEF IInv, QueueIsTail
    <3>3. k \in DOMAIN admitted /\ Taken + i \in DOMAIN admitted /\ k # Taken + i
      BY <2>0 DEF Sizes
    <3> QED
      BY <3>1, <3>2, <3>3 DEF IInv, AdmittedOnce
  <2>7. IsFiniteSet(Batch \union ToSet(sent))
        /\ Cardinality(Batch \union ToSet(sent)) = Cardinality(Batch) + Len(sent)
    <3>1. /\ IsFiniteSet(Batch \union ToSet(sent))
          /\ Cardinality(Batch \union ToSet(sent))
                = Cardinality(Batch) + Cardinality(ToSet(sent)) - Cardinality(Batch \intersect ToSet(sent))
      BY <2>1, <2>4, FS_Union
    <3>2. Cardinality(Batch \intersect ToSet(sent)) = 0
      BY <2>5, FS_EmptySet
    <3> QED
      BY <2>1, <2>4, <3>1, <3>2
  <2>8. Cardinality(ToSet(queue) \union (Batch \union ToSet(sent)))
           = Len(queue) + (Cardinality(Batch) + Len(sent))
    <3> DEFINE rest == Batch \union ToSet(sent)
    <3>1. Cardinality(ToSet(queue) \union rest)
             = Cardinality(ToSet(queue)) + Cardinality(rest) - Cardinality(ToSet(queue) \intersect rest)
      BY <2>3, <2>7, FS_Union
    <3>2. Cardinality(ToSet(queue) \intersect rest) = 0
      BY <2>6, FS_EmptySet
    <3> QED
      BY <2>1, <2>3, <2>7, <3>1, <3>2
  <2>9. InFlight = ToSet(queue) \union (Batch \union ToSet(sent))
    BY DEF InFlight
  <2> QED
    BY <2>1, <2>8, <2>9 DEF StatsAddUp
<1> QED
  BY <1>1, Invariance, PTL

\* The events of a conversation reach the history in the order in which Submit
\* (processor.go) admitted them, none twice and none of another conversation,
\* wherever batches are cut and in whatever order deliver ranges over its groups.
THEOREM OrderIsKept == Spec => []OrderKept
<1>1. IInv => OrderKept
  BY NotBeforeItself DEF IInv, TakenInOrder, OrderKept, ToSet
<1> QED
  BY <1>1, Invariance, PTL

\* Flush (processor.go) of a processor that serves one conversation returns when
\* everything admitted before the call has been counted, and not merely as many.
THEOREM FlushIsABoundary == Spec => []FlushOfOneConversation
<1>1. IInv => FlushOfOneConversation
  <2> SUFFICES ASSUME IInv, NEW w \in Waiters, waiter[w] \in {"join", "returned"},
                      \A e, f \in ToSet(admitted) : Conversation[e] = Conversation[f],
                      NEW i \in 1..target[w], admitted[i] \in InFlight
               PROVE  FALSE
    BY DEF FlushOfOneConversation
  <2>0. Sizes /\ Groups
    BY Sized, Grouped
  <2>1. OneConversation
    BY DEF OneConversation, ToSet
  <2>2. target[w] \in Nat /\ target[w] <= committed + failed
    BY DEF IInv, TypeOK, WaiterState
  <2>3. /\ committed \in Nat /\ failed \in Nat /\ Len(queue) \in Nat /\ Len(sent) \in Nat
        /\ Cardinality(Batch) \in Nat /\ Taken \in Nat
        /\ Taken = committed + failed + Cardinality(Batch) + Len(sent)
        /\ DOMAIN admitted = 1..Len(admitted) /\ Len(admitted) = Taken + Len(queue)
    BY <2>0 DEF Sizes
  <2>4. i \in Nat /\ i <= committed + failed /\ i \in DOMAIN admitted
    BY <2>2, <2>3
  <2>5. \A k \in DOMAIN admitted : admitted[k] = admitted[i] => k <= committed + failed
    BY <2>4 DEF IInv, AdmittedOnce
  <2>6. CASE admitted[i] \in ToSet(queue)
    <3>1. PICK j \in DOMAIN queue : queue[j] = admitted[i]
      BY <2>6 DEF ToSet
    <3>2. queue[j] = admitted[Taken + j] /\ j \in 1..Len(queue)
      BY <2>0 DEF IInv, QueueIsTail, Sizes
    <3>3. Taken + j \in DOMAIN admitted /\ Taken + j > committed + failed
      BY <2>3, <3>2
    <3> QED
      BY <2>3, <2>5, <3>1, <3>2, <3>3
  <2>7. CASE admitted[i] \in ToSet(sent)
    <3>1. PICK j \in DOMAIN sent : sent[j] = admitted[i]
      BY <2>7 DEF ToSet
    <3>2. sent[j] = admitted[committed + failed + j] /\ j \in 1..Len(sent)
      BY <2>0, <2>1 DEF IInv, OldestFirst, Sizes
    <3>3. committed + failed + j \in DOMAIN admitted /\ committed + failed + j > committed + failed
      BY <2>3, <3>2
    <3> QED
      BY <2>3, <2>5, <3>1, <3>2, <3>3
  <2>8. CASE admitted[i] \in Batch
    <3>1. PICK c \in Conversations : admitted[i] \in ToSet(groups[c])
      BY <2>8 DEF Batch
    <3>2. PICK j \in DOMAIN groups[c] : groups[c][j] = admitted[i]
      BY <3>1 DEF ToSet
    <3>3. groups[c][j] = admitted[committed + failed + Len(sent) + j]
      BY <2>1 DEF IInv, OldestFirst
    <3>4. j \in Nat \ {0} /\ j <= Cardinality(Batch)
      <4>1. j \in 1..Len(groups[c]) /\ Len(groups[c]) \in Nat /\ Len(groups[c]) <= Cardinality(Batch)
        BY <2>0 DEF Groups
      <4> QED
        BY <4>1, <2>3
    <3>5. /\ committed + failed + Len(sent) + j \in DOMAIN admitted
          /\ committed + failed + Len(sent) + j > committed + failed
      BY <2>3, <3>4
    <3> QED
      BY <2>3, <2>5, <3>2, <3>3, <3>5
  <2> QED
    BY <2>6, <2>7, <2>8 DEF InFlight
<1> QED
  BY <1>1, Invariance, PTL

\* When a Shutdown (processor.go) has returned, nothing that was admitted is still
\* queued or in the hands of the worker, which has ended: whoever was blocked on a
\* full channel, whatever was submitted meanwhile and whichever deliveries failed.
THEOREM ShutdownHasDrained == Spec => []ShutdownDrains
<1>1. IInv => ShutdownDrains
  <2> SUFFICES ASSUME IInv, NEW w \in Waiters, stopping[w], waiter[w] = "returned"
               PROVE  InFlight = {} /\ worker = "done"
    BY DEF ShutdownDrains
  <2>1. worker = "done"
    BY DEF IInv, WaiterState
  <2>2. queue = <<>> /\ Batch = {} /\ sent = <<>>
    BY <2>1 DEF IInv, WorkerState, ClosedState
  <2>3. ToSet(<<>>) = {}
    BY DEF ToSet
  <2> QED
    BY <2>1, <2>2, <2>3 DEF InFlight
<1> QED
  BY <1>1, Invariance, PTL
=============================================================================
