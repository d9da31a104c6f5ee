--------------------- MODULE ConversationProjectionProofs ---------------------
(***************************************************************************)
(* Theorems about ConversationProjection, for every number of processes,   *)
(* appends and sources and every threshold.                                 *)
(***************************************************************************)
EXTENDS ConversationProjection, FiniteSetTheorems, TLAPS

\* An append that got so far left its traces in the store, and what a refresh
\* or a scan has in hand is part of the history.
StoreOrder ==
    /\ deltas \subseteq committed
    /\ IsFiniteSet(snapshots)
    /\ \A p \in Procs : listed[p] \subseteq committed
    /\ \A c \in Calls : stage[c] # "idle" => Source[c] \in committed
    /\ \A c \in Calls : stage[c] \in {"stored", "ok"} => Source[c] \in deltas

\* What the holder of the mutex relies on: a first load has no view to lose, a
\* refresh under way leaves the view stale, a scan covers the view it replaces.
HolderState ==
    \A p \in Procs :
        /\ mode[p] = "load" => ~loaded[p]
        /\ mode[p] \in {"list", "apply"} => stale[p]
        /\ mode[p] = "scanned" => applied[p] \subseteq listed[p]

\* The own appends of a process are in the view it may answer from, or in the
\* refresh that precedes the answer.
OwnInView ==
    \A p \in Procs : \A c \in Calls : stage[c] = "ok" /\ at[c] = p =>
        /\ mode[p] = "apply" => Source[c] \in listed[p]
        /\ mode[p] \in {"publish", "reply"} => Source[c] \in applied[p]
        /\ mode[p] \notin {"list", "apply"} /\ loaded[p] /\ ~stale[p]
              => Source[c] \in applied[p]

IInv == TypeOK /\ CountedOnce /\ ViewIsHistory /\ StoreOrder /\ HolderState /\ OwnInView

-----------------------------------------------------------------------------
\* Lemmas about the operators of the specification.

LEMMA OnceType == ASSUME NEW set PROVE Once(set) \in [Sources -> Nat]
BY DEF Once

LEMMA OnceOfUnion ==
    ASSUME NEW S, NEW T
    PROVE  [s \in Sources |-> Once(S)[s] + Once(T \ S)[s]] = Once(S \union (T \ S))
BY DEF Once

LEMMA CountOfSources ==
    ASSUME NEW set, set \subseteq Sources
    PROVE  Cardinality(set) \in Nat
BY ProjectionAssumption, FS_Subset, FS_CardinalityType

\* apply adds each unseen source to the sums and to the marked keys.
LEMMA ApplyEffect ==
    ASSUME TypeOK, CountedOnce, NEW p \in Procs, NEW set, set \subseteq Sources, Apply(p, set)
    PROVE  /\ applied' = [applied EXCEPT ![p] = @ \union set]
           /\ applied' \in [Procs -> SUBSET Sources]
           /\ tally' \in [Procs -> [Sources -> Nat]]
           /\ pending' \in [Procs -> Nat]
           /\ \A q \in Procs : tally'[q] = Once(applied'[q])
<1> DEFINE unseen == set \ applied[p]
<1>1. applied[p] \union unseen = applied[p] \union set
  OBVIOUS
<1>2. applied' = [applied EXCEPT ![p] = applied[p] \union unseen]
  BY DEF Apply
<1>3. applied' = [applied EXCEPT ![p] = @ \union set] /\ applied' \in [Procs -> SUBSET Sources]
  BY <1>1, <1>2 DEF TypeOK
<1>4. Cardinality(unseen) \in Nat
  BY CountOfSources
<1>5. pending' = [pending EXCEPT ![p] = pending[p] + Cardinality(unseen)]
  BY DEF Apply
<1>6. pending' \in [Procs -> Nat]
  BY <1>4, <1>5 DEF TypeOK
<1>7. tally' = [tally EXCEPT ![p] = [s \in Sources |-> tally[p][s] + Once(unseen)[s]]]
  BY DEF Apply
<1>8. tally[p] = Once(applied[p])
  BY DEF CountedOnce
<1>9. [s \in Sources |-> tally[p][s] + Once(unseen)[s]] = Once(applied[p] \union unseen)
  BY <1>8, OnceOfUnion
<1>10. tally' = [tally EXCEPT ![p] = Once(applied[p] \union unseen)]
  BY <1>7, <1>9
<1>11. tally' \in [Procs -> [Sources -> Nat]]
  BY <1>10, OnceType DEF TypeOK
<1>12. \A q \in Procs : tally'[q] = Once(applied'[q])
  BY <1>2, <1>10 DEF TypeOK, CountedOnce
<1> QED
  BY <1>3, <1>6, <1>11, <1>12

-----------------------------------------------------------------------------
LEMMA InitIInv == Init => IInv
<1> SUFFICES ASSUME Init PROVE IInv
  OBVIOUS
<1> USE ProjectionAssumption, OnceType DEF Init
<1>1. TypeOK
  BY DEF TypeOK, Stages, Modes
<1>2. CountedOnce /\ ViewIsHistory /\ HolderState /\ OwnInView
  BY DEF CountedOnce, ViewIsHistory, HolderState, OwnInView
<1>3. StoreOrder
  BY FS_EmptySet DEF StoreOrder
<1> QED
  BY <1>1, <1>2, <1>3 DEF IInv

LEMMA SourceInSources == ASSUME NEW c \in Calls PROVE Source[c] \in Sources
BY DEF Sources

\* Appends.
LEMMA CommitSourceStep ==
    ASSUME IInv, NEW c \in Calls, NEW p \in Procs, CommitSource(c, p) PROVE IInv'
<1> USE DEF CommitSource, storeVars, viewVars, bounds
<1>1. TypeOK'
  BY SourceInSources DEF IInv, TypeOK, Stages
<1>2. CountedOnce' /\ ViewIsHistory' /\ HolderState'
  BY DEF IInv, CountedOnce, ViewIsHistory, HolderState
<1>3. StoreOrder'
  BY DEF IInv, StoreOrder, TypeOK
<1>4. OwnInView'
  BY DEF IInv, OwnInView, TypeOK
<1> QED
  BY <1>1, <1>2, <1>3, <1>4 DEF IInv

LEMMA PutDeltaStep ==
    ASSUME IInv, NEW c \in Calls, PutDelta(c) PROVE IInv'
<1> USE DEF PutDelta, viewVars, bounds
<1>1. TypeOK'
  BY SourceInSources DEF IInv, TypeOK, Stages
<1>2. CountedOnce' /\ ViewIsHistory' /\ HolderState'
  BY DEF IInv, CountedOnce, ViewIsHistory, HolderState
<1>3. StoreOrder'
  BY DEF IInv, StoreOrder, TypeOK
<1>4. OwnInView'
  BY DEF IInv, OwnInView, TypeOK
<1> QED
  BY <1>1, <1>2, <1>3, <1>4 DEF IInv

LEMMA CallFailsStep ==
    ASSUME IInv, NEW c \in Calls, CallFails(c) PROVE IInv'
<1> USE DEF CallFails, CanFail, viewVars
<1>1. TypeOK'
  BY ProjectionAssumption, SourceInSources DEF IInv, TypeOK, Stages
<1>2. CountedOnce' /\ ViewIsHistory' /\ HolderState'
  BY DEF IInv, CountedOnce, ViewIsHistory, HolderState
<1>3. StoreOrder'
  BY DEF IInv, StoreOrder, TypeOK
<1>4. OwnInView'
  BY DEF IInv, OwnInView, TypeOK
<1> QED
  BY <1>1, <1>2, <1>3, <1>4 DEF IInv

LEMMA ApplyOwnStep ==
    ASSUME IInv, NEW c \in Calls, ApplyOwn(c) PROVE IInv'
<1> DEFINE p == at[c]
<1>p. p \in Procs
  BY DEF IInv, TypeOK
<1>0. /\ stage[c] = "stored" /\ mode[p] = "free"
      /\ stage' = [stage EXCEPT ![c] = "ok"]
      /\ UNCHANGED <<storeVars, at, loaded, stale, mode, listed, publish, bounds>>
  BY DEF ApplyOwn, Unlocked
<1> USE <1>0 DEF storeVars, bounds
<1>1. CASE loaded[p]
  <2>1. Apply(p, {Source[c]})
    BY <1>1 DEF ApplyOwn
  <2>2. /\ applied' = [applied EXCEPT ![p] = @ \union {Source[c]}]
        /\ applied' \in [Procs -> SUBSET Sources]
        /\ tally' \in [Procs -> [Sources -> Nat]]
        /\ pending' \in [Procs -> Nat]
        /\ \A q \in Procs : tally'[q] = Once(applied'[q])
    BY <1>p, <2>1, ApplyEffect, SourceInSources DEF IInv
  <2>3. Source[c] \in committed
    BY DEF IInv, StoreOrder
  <2> HIDE DEF p
  <2>4. TypeOK'
    BY <2>2 DEF IInv, TypeOK, Stages
  <2>5. CountedOnce'
    BY <2>2 DEF IInv, CountedOnce
  <2>6. ViewIsHistory'
    BY <1>p, <2>2, <2>3 DEF IInv, ViewIsHistory, TypeOK
  <2>7. StoreOrder'
    BY DEF IInv, StoreOrder, TypeOK
  <2>8. HolderState'
    BY <1>p, <2>2 DEF IInv, HolderState, TypeOK
  <2>9. OwnInView'
    BY <1>p, <2>2 DEF IInv, OwnInView, TypeOK, p
  <2> QED
    BY <2>4, <2>5, <2>6, <2>7, <2>8, <2>9 DEF IInv
<1>2. CASE ~loaded[p]
  <2>1. UNCHANGED <<applied, tally, pending>>
    BY <1>2 DEF ApplyOwn
  <2>2. TypeOK'
    BY <2>1 DEF IInv, TypeOK, Stages
  <2>3. CountedOnce' /\ ViewIsHistory' /\ HolderState'
    BY <2>1 DEF IInv, CountedOnce, ViewIsHistory, HolderState
  <2>4. StoreOrder'
    BY <2>1 DEF IInv, StoreOrder, TypeOK
  <2>5. OwnInView'
    BY <1>2, <2>1 DEF IInv, OwnInView, TypeOK
  <2> QED
    BY <2>2, <2>3, <2>4, <2>5 DEF IInv
<1> QED
  BY <1>1, <1>2

-----------------------------------------------------------------------------
\* The holder of the mutex.
LEMMA ReadStep ==
    ASSUME IInv, NEW p \in Procs, Read(p) PROVE IInv'
<1> USE DEF Read, Unlocked, AfterRefresh, storeVars, callVars, viewVars, bounds
<1>1. TypeOK'
  BY ProjectionAssumption DEF IInv, TypeOK, Stages, Modes
<1>2. CountedOnce' /\ ViewIsHistory'
  BY DEF IInv, CountedOnce, ViewIsHistory, TypeOK
<1>3. StoreOrder'
  BY DEF IInv, StoreOrder, TypeOK
<1>4. HolderState'
  BY DEF IInv, HolderState, ViewIsHistory, TypeOK
<1>5. OwnInView'
  BY DEF IInv, OwnInView, HolderState, StoreOrder, TypeOK
<1> QED
  BY <1>1, <1>2, <1>3, <1>4, <1>5 DEF IInv

LEMMA ListDeltasStep ==
    ASSUME IInv, NEW p \in Procs, ListDeltas(p) PROVE IInv'
<1> USE DEF ListDeltas, storeVars, callVars, viewVars, bounds
<1>1. TypeOK'
  BY ProjectionAssumption DEF IInv, TypeOK, Stages, Modes
<1>2. CountedOnce' /\ ViewIsHistory'
  BY DEF IInv, CountedOnce, ViewIsHistory, TypeOK
<1>3. StoreOrder'
  BY DEF IInv, StoreOrder, TypeOK
<1>4. HolderState'
  BY DEF IInv, HolderState, ViewIsHistory, TypeOK
<1>5. OwnInView'
  BY DEF IInv, OwnInView, HolderState, StoreOrder, TypeOK
<1> QED
  BY <1>1, <1>2, <1>3, <1>4, <1>5 DEF IInv

LEMMA ReplyStep ==
    ASSUME IInv, NEW p \in Procs, Reply(p) PROVE IInv'
<1> USE DEF Reply, storeVars, callVars, viewVars, bounds
<1>1. TypeOK'
  BY ProjectionAssumption DEF IInv, TypeOK, Stages, Modes
<1>2. CountedOnce' /\ ViewIsHistory'
  BY DEF IInv, CountedOnce, ViewIsHistory, TypeOK
<1>3. StoreOrder'
  BY DEF IInv, StoreOrder, TypeOK
<1>4. HolderState'
  BY DEF IInv, HolderState, ViewIsHistory, TypeOK
<1>5. OwnInView'
  BY DEF IInv, OwnInView, HolderState, StoreOrder, TypeOK
<1> QED
  BY <1>1, <1>2, <1>3, <1>4, <1>5 DEF IInv

LEMMA ScanStep ==
    ASSUME IInv, NEW p \in Procs, Scan(p) PROVE IInv'
<1> USE DEF Scan, Unlocked, storeVars, callVars, viewVars
<1>1. TypeOK'
  BY ProjectionAssumption DEF IInv, TypeOK, Stages, Modes
<1>2. CountedOnce' /\ ViewIsHistory'
  BY DEF IInv, CountedOnce, ViewIsHistory, TypeOK
<1>3. StoreOrder'
  BY DEF IInv, StoreOrder, TypeOK
<1>4. HolderState'
  BY DEF IInv, HolderState, ViewIsHistory, TypeOK
<1>5. OwnInView'
  BY DEF IInv, OwnInView, HolderState, StoreOrder, TypeOK
<1> QED
  BY <1>1, <1>2, <1>3, <1>4, <1>5 DEF IInv

LEMMA TickStep ==
    ASSUME IInv, NEW p \in Procs, Tick(p) PROVE IInv'
<1> USE DEF Tick, storeVars, callVars, viewVars, bounds
<1>1. TypeOK'
  BY ProjectionAssumption DEF IInv, TypeOK, Stages, Modes
<1>2. CountedOnce' /\ ViewIsHistory'
  BY DEF IInv, CountedOnce, ViewIsHistory, TypeOK
<1>3. StoreOrder'
  BY DEF IInv, StoreOrder, TypeOK
<1>4. HolderState'
  BY DEF IInv, HolderState, ViewIsHistory, TypeOK
<1>5. OwnInView'
  BY DEF IInv, OwnInView, HolderState, StoreOrder, TypeOK
<1> QED
  BY <1>1, <1>2, <1>3, <1>4, <1>5 DEF IInv

LEMMA LoadNothingStep ==
    ASSUME IInv, NEW p \in Procs, LoadNothing(p) PROVE IInv'
<1> USE DEF LoadNothing, Install, storeVars, callVars, bounds
<1>1. TypeOK'
  BY OnceType DEF IInv, TypeOK, Stages, Modes
<1>2. CountedOnce' /\ ViewIsHistory'
  BY DEF IInv, CountedOnce, ViewIsHistory, TypeOK
<1>3. StoreOrder'
  BY DEF IInv, StoreOrder, TypeOK
<1>4. HolderState'
  BY DEF IInv, HolderState, ViewIsHistory, TypeOK
<1>5. OwnInView'
  BY DEF IInv, OwnInView, HolderState, StoreOrder, TypeOK
<1> QED
  BY <1>1, <1>2, <1>3, <1>4, <1>5 DEF IInv

LEMMA InstallScanStep ==
    ASSUME IInv, NEW p \in Procs, InstallScan(p) PROVE IInv'
<1> USE DEF InstallScan, Install, storeVars, callVars, bounds
<1>1. TypeOK'
  BY OnceType DEF IInv, TypeOK, Stages, Modes
<1>2. CountedOnce' /\ ViewIsHistory'
  BY DEF IInv, CountedOnce, ViewIsHistory, StoreOrder, TypeOK
<1>3. StoreOrder'
  BY DEF IInv, StoreOrder, TypeOK
<1>4. HolderState'
  BY DEF IInv, HolderState, ViewIsHistory, TypeOK
<1>5. OwnInView'
  BY DEF IInv, OwnInView, HolderState, StoreOrder, TypeOK
<1> QED
  BY <1>1, <1>2, <1>3, <1>4, <1>5 DEF IInv

LEMMA LoadSnapshotStep ==
    ASSUME IInv, NEW p \in Procs, LoadSnapshot(p) PROVE IInv'
<1> USE DEF storeVars, callVars, Install
<1>1. PICK t \in snapshots :
          /\ faults' = faults + Cardinality(Newer(t))
          /\ faults' <= MaxFaults
          /\ Install(p, t.applied, t.tally)
  BY DEF LoadSnapshot
<1>2. /\ mode[p] = "load"
      /\ pending' = [pending EXCEPT ![p] = 0]
      /\ UNCHANGED <<storeVars, callVars, listed, publish, restarts, rebuilds>>
  BY DEF LoadSnapshot
<1>3. Cardinality(Newer(t)) \in Nat
  <2>1. Newer(t) \subseteq snapshots
    BY DEF Newer
  <2> QED
    BY <2>1, FS_Subset, FS_CardinalityType DEF IInv, StoreOrder
<1>4. /\ t.applied \subseteq committed /\ t.applied \subseteq Sources
      /\ t.tally = Once(t.applied) /\ t.tally \in [Sources -> Nat]
  BY DEF IInv, TypeOK, Snapshot, CountedOnce, ViewIsHistory
<1>5. faults' \in 0..MaxFaults
  BY <1>1, <1>3, ProjectionAssumption DEF IInv, TypeOK
<1>6. TypeOK'
  BY <1>1, <1>2, <1>4, <1>5 DEF IInv, TypeOK, Stages, Modes
<1>7. CountedOnce' /\ ViewIsHistory'
  BY <1>1, <1>2, <1>4 DEF IInv, CountedOnce, ViewIsHistory, TypeOK
<1>8. StoreOrder'
  BY <1>2 DEF IInv, StoreOrder, TypeOK
<1>9. HolderState' /\ OwnInView'
  BY <1>1, <1>2 DEF IInv, HolderState, OwnInView, TypeOK
<1> QED
  BY <1>6, <1>7, <1>8, <1>9 DEF IInv

LEMMA ApplyListedStep ==
    ASSUME IInv, NEW p \in Procs, ApplyListed(p) PROVE IInv'
<1> USE DEF storeVars, callVars, bounds
<1>1. /\ mode[p] = "apply"
      /\ stale' = [stale EXCEPT ![p] = FALSE]
      /\ mode' = [mode EXCEPT ![p] = AfterRefresh(p, pending'[p])]
      /\ listed' = [listed EXCEPT ![p] = {}]
      /\ UNCHANGED <<storeVars, callVars, loaded, publish, bounds>>
  BY DEF ApplyListed
<1>2. Apply(p, listed[p])
  BY DEF ApplyListed
<1>3. /\ applied' = [applied EXCEPT ![p] = @ \union listed[p]]
      /\ applied' \in [Procs -> SUBSET Sources]
      /\ tally' \in [Procs -> [Sources -> Nat]]
      /\ pending' \in [Procs -> Nat]
      /\ \A q \in Procs : tally'[q] = Once(applied'[q])
  BY <1>2, ApplyEffect DEF IInv, TypeOK
<1>4. mode'[p] \in {"publish", "reply"}
  BY <1>1 DEF AfterRefresh, IInv, TypeOK
<1>5. TypeOK'
  BY <1>1, <1>3, <1>4 DEF IInv, TypeOK, Stages, Modes
<1>6. CountedOnce'
  BY <1>1, <1>3 DEF IInv, CountedOnce
<1>7. ViewIsHistory'
  BY <1>1, <1>3 DEF IInv, ViewIsHistory, StoreOrder, TypeOK
<1>8. StoreOrder'
  BY <1>1 DEF IInv, StoreOrder, TypeOK
<1>9. HolderState'
  BY <1>1, <1>3, <1>4 DEF IInv, HolderState, TypeOK
<1>10. OwnInView'
  BY <1>1, <1>3, <1>4 DEF IInv, OwnInView, TypeOK
<1> QED
  BY <1>5, <1>6, <1>7, <1>8, <1>9, <1>10 DEF IInv

\* A snapshot of the view is as good as the view.
LEMMA ViewAdded ==
    ASSUME IInv, NEW p \in Procs,
           UNCHANGED <<applied, tally, committed>>,
           snapshots' \in {snapshots, snapshots \union {View(p)}}
    PROVE  /\ snapshots' \subseteq Snapshot
           /\ IsFiniteSet(snapshots')
           /\ CountedOnce' /\ ViewIsHistory'
<1>1. View(p) \in Snapshot
  BY DEF View, Snapshot, IInv, TypeOK
<1>2. IsFiniteSet(snapshots')
  BY FS_AddElement DEF IInv, StoreOrder
<1>3. CountedOnce' /\ ViewIsHistory'
  BY DEF View, IInv, CountedOnce, ViewIsHistory
<1> QED
  BY <1>1, <1>2, <1>3 DEF IInv, TypeOK

LEMMA WriteSnapshotStep ==
    ASSUME IInv, NEW p \in Procs, WriteSnapshot(p) PROVE IInv'
<1> USE DEF WriteSnapshot, callVars, bounds
<1>1. /\ snapshots' \subseteq Snapshot
      /\ IsFiniteSet(snapshots')
      /\ CountedOnce' /\ ViewIsHistory'
  BY ViewAdded
<1>2. TypeOK'
  BY <1>1 DEF IInv, TypeOK, Stages, Modes
<1>3. StoreOrder'
  BY <1>1 DEF IInv, StoreOrder, TypeOK
<1>4. HolderState' /\ OwnInView'
  BY DEF IInv, HolderState, OwnInView, TypeOK
<1> QED
  BY <1>1, <1>2, <1>3, <1>4 DEF IInv

LEMMA AbortStep ==
    ASSUME IInv, NEW p \in Procs, Abort(p) PROVE IInv'
<1> USE DEF Abort, CanFail, callVars, viewVars
<1>1. /\ snapshots' \subseteq Snapshot
      /\ IsFiniteSet(snapshots')
      /\ CountedOnce' /\ ViewIsHistory'
  BY ViewAdded
<1>2. TypeOK'
  BY <1>1, ProjectionAssumption DEF IInv, TypeOK, Stages, Modes
<1>3. StoreOrder'
  BY <1>1 DEF IInv, StoreOrder, TypeOK
<1>4. HolderState' /\ OwnInView'
  BY DEF IInv, HolderState, OwnInView, TypeOK
<1> QED
  BY <1>1, <1>2, <1>3, <1>4 DEF IInv

LEMMA RestartStep ==
    ASSUME IInv, NEW p \in Procs, Restart(p) PROVE IInv'
<1> USE DEF Restart, storeVars
<1>1. TypeOK'
  BY OnceType, ProjectionAssumption DEF IInv, TypeOK, Stages, Modes
<1>2. CountedOnce' /\ ViewIsHistory'
  BY DEF IInv, CountedOnce, ViewIsHistory, TypeOK
<1>3. StoreOrder'
  BY DEF IInv, StoreOrder, TypeOK
<1>4. HolderState' /\ OwnInView'
  BY DEF IInv, HolderState, OwnInView, TypeOK
<1> QED
  BY <1>1, <1>2, <1>3, <1>4 DEF IInv

-----------------------------------------------------------------------------
LEMMA NextIInv == IInv /\ [Next]_vars => IInv'
<1> SUFFICES ASSUME IInv, [Next]_vars PROVE IInv'
  OBVIOUS
<1>1. CASE UNCHANGED vars
  BY <1>1 DEF vars, storeVars, callVars, viewVars, bounds, IInv, TypeOK, CountedOnce,
     ViewIsHistory, StoreOrder, HolderState, OwnInView
<1>2. ASSUME NEW c \in Calls, NEW p \in Procs, CommitSource(c, p) PROVE IInv'
  BY <1>2, CommitSourceStep
<1>3. ASSUME NEW c \in Calls, Append(c) \/ CallFails(c) PROVE IInv'
  BY <1>3, PutDeltaStep, ApplyOwnStep, CallFailsStep DEF Append
<1>4. ASSUME NEW p \in Procs, Holder(p) PROVE IInv'
  BY <1>4, LoadNothingStep, LoadSnapshotStep, ListDeltasStep, ApplyListedStep,
     WriteSnapshotStep, ReplyStep, InstallScanStep DEF Holder
<1>5. ASSUME NEW p \in Procs, Read(p) \/ Scan(p) \/ Tick(p) \/ Abort(p) \/ Restart(p)
      PROVE  IInv'
  BY <1>5, ReadStep, ScanStep, TickStep, AbortStep, RestartStep
<1> QED
  BY <1>1, <1>2, <1>3, <1>4, <1>5 DEF Next

\* The strengthening is an invariant, whatever process, append, refresh,
\* rebuild, failure or crash takes the next step.
THEOREM Inductive == Spec => []IInv
<1>1. Init => IInv
  BY InitIInv
<1>2. IInv /\ [Next]_vars => IInv'
  BY NextIInv
<1> QED
  BY <1>1, <1>2, PTL DEF Spec

\* Every variable of the projection keeps its type.
THEOREM TypeCorrect == Spec => []TypeOK
<1>1. IInv => TypeOK
  BY DEF IInv
<1> QED
  BY <1>1, Inductive, PTL

\* No view and no snapshot counts a source twice or loses one it has marked.
THEOREM NothingCountedTwice == Spec => []CountedOnce
<1>1. IInv => CountedOnce
  BY DEF IInv
<1> QED
  BY <1>1, Inductive, PTL

\* Views and snapshots count committed segments only.
THEOREM ViewsAreHistory == Spec => []ViewIsHistory
<1>1. IInv => ViewIsHistory
  BY DEF IInv
<1> QED
  BY <1>1, Inductive, PTL

\* A process answers a list with every append it acknowledged.
THEOREM OwnWritesAreRead == Spec => []ReadYourWrites
<1>1. IInv => ReadYourWrites
  BY DEF IInv, OwnInView, ReadYourWrites
<1> QED
  BY <1>1, Inductive, PTL

\* No step takes a source out of the view of a running process.
THEOREM ViewsGrow == Spec => ViewGrows
<1> DEFINE Grows == \A p \in Procs : loaded[p] /\ loaded'[p] => applied[p] \subseteq applied'[p]
<1>1. IInv /\ [Next]_vars => [Grows]_vars
  <2> SUFFICES ASSUME IInv, [Next]_vars PROVE [Grows]_vars
    OBVIOUS
  <2> USE DEF Grows, IInv, TypeOK
  <2>1. CASE UNCHANGED vars
    BY <2>1
  <2>2. ASSUME NEW c \in Calls, NEW p \in Procs, CommitSource(c, p) PROVE Grows
    BY <2>2 DEF CommitSource, viewVars
  <2>3. ASSUME NEW c \in Calls, PutDelta(c) \/ CallFails(c) PROVE Grows
    BY <2>3 DEF PutDelta, CallFails, viewVars
  <2>4. ASSUME NEW c \in Calls, ApplyOwn(c) PROVE Grows
    <3>1. at[c] \in Procs
      OBVIOUS
    <3>2. CASE loaded[at[c]]
      <4>1. Apply(at[c], {Source[c]})
        BY <2>4, <3>2 DEF ApplyOwn
      <4>2. applied' = [applied EXCEPT ![at[c]] = @ \union {Source[c]}]
        BY <3>1, <4>1, ApplyEffect, SourceInSources
      <4> QED
        BY <3>1, <4>2
    <3>3. CASE ~loaded[at[c]]
      BY <2>4, <3>3 DEF ApplyOwn
    <3> QED
      BY <3>2, <3>3
  <2>5. ASSUME NEW p \in Procs, ApplyListed(p) PROVE Grows
    BY <2>5 DEF ApplyListed, Apply
  <2>6. ASSUME NEW p \in Procs, LoadNothing(p) \/ LoadSnapshot(p) PROVE Grows
    <3>1. ~loaded[p] /\ \A q \in Procs : q # p => applied'[q] = applied[q]
      BY <2>6 DEF LoadNothing, LoadSnapshot, Install, HolderState
    <3> QED
      BY <3>1
  <2>7. ASSUME NEW p \in Procs, InstallScan(p) PROVE Grows
    BY <2>7 DEF InstallScan, Install, HolderState
  <2>8. ASSUME NEW p \in Procs, Restart(p) PROVE Grows
    BY <2>8 DEF Restart
  <2>9. ASSUME NEW p \in Procs,
               ListDeltas(p) \/ WriteSnapshot(p) \/ Reply(p) \/ Read(p) \/ Scan(p)
                  \/ Tick(p) \/ Abort(p)
        PROVE  Grows
    BY <2>9 DEF ListDeltas, WriteSnapshot, Reply, Read, Scan, Tick, Abort, viewVars
  <2> QED
    BY <2>1, <2>2, <2>3, <2>4, <2>5, <2>6, <2>7, <2>8, <2>9 DEF Next, Append, Holder
<1> QED
  BY <1>1, Inductive, PTL DEF Spec, ViewGrows
=============================================================================
