-------------------------- MODULE SearchIndexProofs --------------------------
(***************************************************************************)
(* Theorems about SearchIndex, for every set of segments and searches,     *)
(* with a cache file or without, and any number of failures, crashes and   *)
(* rebuilds.                                                                *)
(***************************************************************************)
EXTENDS SearchIndex, TLAPS

\* An append that got so far, and what a synchronization has in hand, is part of
\* the history; what was listed is marked or about to be fetched, and whatever is
\* appended meanwhile only adds to the marks.
SyncState ==
    /\ \A s \in Sources : append[s] # "idle" => s \in committed
    /\ keys \subseteq committed
    /\ missing \subseteq committed
    /\ step = "fetch" => keys \subseteq sources \union missing
    /\ step \in {"wipe", "refetch"} => keys \subseteq missing

\* The marks and the documents of an index agree.
Agrees(i) ==
    /\ i.sources \subseteq committed
    /\ \A s \in Sources : s \in i.sources <=> i.copies[s] > 0

\* MarkedIsIndexed, one index at a time.
EachAgrees ==
    /\ Agrees(Index)
    /\ disk # NoFile => Agrees(disk)
    /\ cache # NoFile => Agrees(cache)

IInv == TypeOK /\ EachAgrees /\ SyncState

-----------------------------------------------------------------------------
\* Lemmas about the operators of the specification.

LEMMA NothingFacts ==
    /\ Nothing \in [Sources -> Nat]
    /\ \A s \in Sources : Nothing[s] = 0
BY DEF Nothing

LEMMA AddedFacts ==
    ASSUME copies \in [Sources -> Nat], NEW set
    PROVE  /\ Added(set) \in [Sources -> Nat]
           /\ \A s \in Sources : Added(set)[s] = copies[s] + IF s \in set THEN 1 ELSE 0
BY DEF Added

\* Segments whose documents are added are marked in the same step.
LEMMA AddedAgrees ==
    ASSUME IInv, NEW set, set \subseteq committed, committed \subseteq Sources
    PROVE  /\ Added(set) \in [Sources -> Nat]
           /\ \A s \in Sources : s \in sources \union set <=> Added(set)[s] > 0
<1>1. \A s \in Sources : s \in sources <=> copies[s] > 0
  BY DEF IInv, EachAgrees, Agrees, Index
<1>2. copies \in [Sources -> Nat]
  BY DEF IInv, TypeOK
<1>3. \A s \in Sources : Added(set)[s] = copies[s] + IF s \in set THEN 1 ELSE 0
  BY <1>2, AddedFacts
<1> QED
  BY <1>1, <1>2, <1>3, AddedFacts

LEMMA AgreementSuffices == ASSUME IInv PROVE MarkedIsIndexed
BY DEF IInv, EachAgrees, Agrees, MarkedIsIndexed, Indexes

-----------------------------------------------------------------------------
\* Steps.

LEMMA OtherWriterStep ==
    ASSUME IInv, NEW s \in Sources, OtherWriter(s) PROVE IInv'
<1> USE DEF OtherWriter, storeVars, indexVars, syncVars
<1>1. TypeOK'
  BY DEF IInv, TypeOK
<1>2. EachAgrees'
  BY DEF IInv, EachAgrees, Agrees, Index
<1>3. SyncState'
  BY DEF IInv, SyncState
<1> QED
  BY <1>1, <1>2, <1>3 DEF IInv

LEMMA CommitSegmentStep ==
    ASSUME IInv, NEW s \in Sources, CommitSegment(s) PROVE IInv'
<1> USE DEF CommitSegment, storeVars, indexVars, syncVars
<1>1. TypeOK'
  BY DEF IInv, TypeOK
<1>2. EachAgrees'
  BY DEF IInv, EachAgrees, Agrees, Index
<1>3. SyncState'
  BY DEF IInv, SyncState
<1> QED
  BY <1>1, <1>2, <1>3 DEF IInv

LEMMA ObserveStep ==
    ASSUME IInv, NEW s \in Sources, Observe(s) PROVE IInv'
<1> USE DEF Observe, Trouble, storeVars, indexVars, syncVars
<1>1. TypeOK'
  BY SearchAssumption DEF IInv, TypeOK
<1>2. EachAgrees'
  BY DEF IInv, EachAgrees, Agrees, Index
<1>3. SyncState'
  BY DEF IInv, SyncState, TypeOK
<1> QED
  BY <1>1, <1>2, <1>3 DEF IInv

LEMMA AddDocumentsStep ==
    ASSUME IInv, NEW s \in Sources, AddDocuments(s) PROVE IInv'
<1> USE DEF AddDocuments, PersistAsync, storeVars, indexVars, syncVars
<1>1. TypeOK'
  <2>1. copies' \in [Sources -> Nat] /\ sources' \subseteq Sources
    BY AddedFacts DEF IInv, TypeOK
  <2>2. append' \in [Sources -> {"idle", "committed", "built", "ok"}]
    BY DEF IInv, TypeOK
  <2>3. stale' \in BOOLEAN /\ persist' \in Goroutine
    BY DEF IInv, TypeOK, Goroutine
  <2> QED
    BY <2>1, <2>2, <2>3 DEF IInv, TypeOK
<1>2. EachAgrees'
  BY AddedAgrees DEF IInv, EachAgrees, Agrees, Index, TypeOK, SyncState
<1>3. SyncState'
  BY DEF IInv, SyncState
<1> QED
  BY <1>1, <1>2, <1>3 DEF IInv

LEMMA SearchStep ==
    ASSUME IInv, NEW q \in Queries, Search(q) PROVE IInv'
<1> USE DEF Search, storeVars, indexVars, syncVars
<1>1. TypeOK'
  BY DEF IInv, TypeOK
<1>2. EachAgrees'
  BY DEF IInv, EachAgrees, Agrees, Index
<1>3. SyncState'
  BY DEF IInv, SyncState
<1> QED
  BY <1>1, <1>2, <1>3 DEF IInv

LEMMA CheckLoadedStep ==
    ASSUME IInv, NEW q \in Queries, CheckLoaded(q) PROVE IInv'
<1> USE DEF CheckLoaded, storeVars, indexVars, syncVars
<1>1. TypeOK'
  BY DEF IInv, TypeOK
<1>2. EachAgrees'
  BY DEF IInv, EachAgrees, Agrees, Index
<1>3. SyncState'
  BY DEF IInv, SyncState
<1> QED
  BY <1>1, <1>2, <1>3 DEF IInv

LEMMA OpenCachedStep ==
    ASSUME IInv, NEW q \in Queries, OpenCached(q) PROVE IInv'
<1> USE DEF OpenCached, storeVars, indexVars, syncVars
<1>1. TypeOK'
  <2>1. sources' \subseteq Sources /\ copies' \in [Sources -> Nat] /\ loaded' \in BOOLEAN
    BY DEF IInv, TypeOK, IndexType
  <2>2. stale' \in BOOLEAN
    BY DEF IInv, TypeOK
  <2>3. query' \in [Queries -> {"idle", "check", "wait", "syncing", "fresh", "execute",
                               "answered", "failed"}]
    BY DEF IInv, TypeOK
  <2> QED
    BY <2>1, <2>2, <2>3 DEF IInv, TypeOK
<1>2. EachAgrees'
  BY DEF IInv, EachAgrees, Agrees, Index
<1>3. SyncState'
  BY DEF IInv, SyncState, TypeOK
<1> QED
  BY <1>1, <1>2, <1>3 DEF IInv

LEMMA OpenColdStep ==
    ASSUME IInv, NEW q \in Queries, OpenCold(q) PROVE IInv'
<1> USE DEF OpenCold, Empty, Trouble, storeVars, indexVars, syncVars
<1>1. TypeOK'
  BY SearchAssumption, NothingFacts DEF IInv, TypeOK
<1>2. EachAgrees'
  BY NothingFacts DEF IInv, EachAgrees, Agrees, Index
<1>3. SyncState'
  BY DEF IInv, SyncState
<1> QED
  BY <1>1, <1>2, <1>3 DEF IInv

LEMMA RefreshAsyncStep ==
    ASSUME IInv, NEW q \in Queries, RefreshAsync(q) PROVE IInv'
<1> USE DEF RefreshAsync, storeVars, indexVars, syncVars
<1>1. TypeOK'
  BY DEF IInv, TypeOK, Goroutine
<1>2. EachAgrees'
  BY DEF IInv, EachAgrees, Agrees, Index
<1>3. SyncState'
  BY DEF IInv, SyncState
<1> QED
  BY <1>1, <1>2, <1>3 DEF IInv

LEMMA ExecuteStep ==
    ASSUME IInv, NEW q \in Queries, Execute(q) PROVE IInv'
<1> USE DEF Execute, storeVars, indexVars, syncVars
<1>1. TypeOK'
  BY DEF IInv, TypeOK
<1>2. EachAgrees'
  BY DEF IInv, EachAgrees, Agrees, Index
<1>3. SyncState'
  BY DEF IInv, SyncState
<1> QED
  BY <1>1, <1>2, <1>3 DEF IInv

LEMMA StartAsyncStep ==
    ASSUME IInv, StartAsync PROVE IInv'
<1> USE DEF StartAsync, storeVars, indexVars, syncVars
<1>1. TypeOK'
  BY SearchAssumption DEF IInv, TypeOK, Goroutine
<1>2. EachAgrees'
  BY DEF IInv, EachAgrees, Agrees, Index
<1>3. SyncState'
  BY DEF IInv, SyncState
<1> QED
  BY <1>1, <1>2, <1>3 DEF IInv

LEMMA FinishAsyncStep ==
    ASSUME IInv, FinishAsync PROVE IInv'
<1> USE DEF FinishAsync, storeVars, indexVars, syncVars
<1>1. TypeOK'
  BY DEF IInv, TypeOK, Goroutine
<1>2. EachAgrees'
  BY DEF IInv, EachAgrees, Agrees, Index
<1>3. SyncState'
  BY DEF IInv, SyncState
<1> QED
  BY <1>1, <1>2, <1>3 DEF IInv

LEMMA StartRebuildStep ==
    ASSUME IInv, StartRebuild PROVE IInv'
<1> USE DEF StartRebuild, Empty, Trouble, storeVars, indexVars, syncVars
<1>1. TypeOK'
  BY SearchAssumption, NothingFacts DEF IInv, TypeOK
<1>2. EachAgrees'
  BY NothingFacts DEF IInv, EachAgrees, Agrees, Index
<1>3. SyncState'
  BY DEF IInv, SyncState
<1> QED
  BY <1>1, <1>2, <1>3 DEF IInv

LEMMA ListKeysStep ==
    ASSUME IInv, ListKeys PROVE IInv'
<1> USE DEF ListKeys, storeVars, indexVars, syncVars
<1>1. TypeOK'
  BY DEF IInv, TypeOK
<1>2. EachAgrees'
  BY DEF IInv, EachAgrees, Agrees, Index
<1>3. SyncState'
  BY DEF IInv, SyncState
<1> QED
  BY <1>1, <1>2, <1>3 DEF IInv

LEMMA CompareStep ==
    ASSUME IInv, Compare PROVE IInv'
<1> USE DEF Compare, storeVars, indexVars, syncVars
<1>1. TypeOK'
  BY DEF IInv, TypeOK
<1>2. EachAgrees'
  BY DEF IInv, EachAgrees, Agrees, Index
<1>3. SyncState'
  BY DEF IInv, SyncState
<1> QED
  BY <1>1, <1>2, <1>3 DEF IInv

LEMMA WipeStep ==
    ASSUME IInv, Wipe PROVE IInv'
<1> USE DEF Wipe, storeVars, indexVars, syncVars
<1>1. TypeOK'
  BY NothingFacts DEF IInv, TypeOK
<1>2. EachAgrees'
  BY NothingFacts DEF IInv, EachAgrees, Agrees, Index
<1>3. SyncState'
  BY DEF IInv, SyncState
<1> QED
  BY <1>1, <1>2, <1>3 DEF IInv

LEMMA InstallFetchedStep ==
    ASSUME IInv, InstallFetched PROVE IInv'
<1> USE DEF InstallFetched, Release, storeVars, indexVars, syncVars
<1>1. TypeOK'
  <2>1. sources' \subseteq Sources /\ copies' \in [Sources -> Nat]
    BY AddedFacts DEF IInv, TypeOK
  <2>2. holder # NoOne /\ step # "free" /\ cache = NoFile
    BY DEF IInv, TypeOK
  <2>3. CASE Cached /\ (missing # {} \/ step = "refetch")
    <3>1. cache' \in IndexType /\ cache' # NoFile /\ step' = "write" /\ holder' # NoOne
      BY <2>1, <2>2, <2>3, FileAssumption DEF IndexType
    <3> QED
      BY <2>1, <2>3, <3>1 DEF IInv, TypeOK
  <2>4. CASE ~(Cached /\ (missing # {} \/ step = "refetch"))
    <3>1. holder' = NoOne /\ step' = "free" /\ cache' = NoFile /\ keys' = {} /\ missing' = {}
      BY <2>4
    <3>2. async' \in Goroutine /\ persist' \in Goroutine
      BY <2>4 DEF IInv, TypeOK, Goroutine
    <3>3. query' \in [Queries -> {"idle", "check", "wait", "syncing", "fresh", "execute",
                                 "answered", "failed"}]
      BY <2>4 DEF IInv, TypeOK
    <3> QED
      BY <2>1, <3>1, <3>2, <3>3 DEF IInv, TypeOK
  <2> QED
    BY <2>3, <2>4
<1>2. EachAgrees'
  BY AddedAgrees DEF IInv, EachAgrees, Agrees, Index, TypeOK, SyncState
<1>3. SyncState'
  BY DEF IInv, SyncState
<1> QED
  BY <1>1, <1>2, <1>3 DEF IInv

LEMMA RefreshFailsStep ==
    ASSUME IInv, RefreshFails PROVE IInv'
<1> USE DEF RefreshFails, Release, Trouble, storeVars, indexVars, syncVars
<1>1. TypeOK'
  BY SearchAssumption DEF IInv, TypeOK, Goroutine
<1>2. EachAgrees'
  BY DEF IInv, EachAgrees, Agrees, Index
<1>3. SyncState'
  BY DEF IInv, SyncState
<1> QED
  BY <1>1, <1>2, <1>3 DEF IInv

LEMMA StartPersistStep ==
    ASSUME IInv, StartPersist PROVE IInv'
<1> USE DEF StartPersist, storeVars, indexVars, syncVars
<1>1. TypeOK'
  BY SearchAssumption, FileAssumption DEF IInv, TypeOK, IndexType, Goroutine, Index
<1>2. EachAgrees'
  BY DEF IInv, EachAgrees, Agrees, Index
<1>3. SyncState'
  BY DEF IInv, SyncState
<1> QED
  BY <1>1, <1>2, <1>3 DEF IInv

LEMMA WriteFileStep ==
    ASSUME IInv, WriteFile PROVE IInv'
<1> USE DEF WriteFile, Release, Trouble, storeVars, indexVars, syncVars
<1>1. TypeOK'
  BY SearchAssumption DEF IInv, TypeOK, Goroutine
<1>2. EachAgrees'
  BY DEF IInv, EachAgrees, Agrees, Index
<1>3. SyncState'
  BY DEF IInv, SyncState
<1> QED
  BY <1>1, <1>2, <1>3 DEF IInv

LEMMA FinishPersistStep ==
    ASSUME IInv, FinishPersist PROVE IInv'
<1> USE DEF FinishPersist, storeVars, indexVars, syncVars
<1>1. TypeOK'
  BY DEF IInv, TypeOK, Goroutine
<1>2. EachAgrees'
  BY DEF IInv, EachAgrees, Agrees, Index
<1>3. SyncState'
  BY DEF IInv, SyncState
<1> QED
  BY <1>1, <1>2, <1>3 DEF IInv

LEMMA TickStep ==
    ASSUME IInv, Tick PROVE IInv'
<1> USE DEF Tick, storeVars, indexVars, syncVars
<1>1. TypeOK'
  BY DEF IInv, TypeOK
<1>2. EachAgrees'
  BY DEF IInv, EachAgrees, Agrees, Index
<1>3. SyncState'
  BY DEF IInv, SyncState
<1> QED
  BY <1>1, <1>2, <1>3 DEF IInv

LEMMA RestartStep ==
    ASSUME IInv, Restart PROVE IInv'
<1> USE DEF Restart, Trouble, storeVars, indexVars, syncVars
<1>1. TypeOK'
  <2>1. sources' \subseteq Sources /\ copies' \in [Sources -> Nat]
    BY NothingFacts
  <2>2. append' \in [Sources -> {"idle", "committed", "built", "ok"}]
    OBVIOUS
  <2>3. query' \in [Queries -> {"idle", "check", "wait", "syncing", "fresh", "execute",
                               "answered", "failed"}]
    OBVIOUS
  <2>4. troubles' \in 0..MaxTroubles
    BY SearchAssumption DEF IInv, TypeOK
  <2> QED
    BY <2>1, <2>2, <2>3, <2>4 DEF IInv, TypeOK, Goroutine
<1>2. EachAgrees'
  BY NothingFacts DEF IInv, EachAgrees, Agrees, Index
<1>3. SyncState'
  BY DEF IInv, SyncState
<1> QED
  BY <1>1, <1>2, <1>3 DEF IInv

LEMMA InitIInv == Init => IInv
<1> SUFFICES ASSUME Init PROVE IInv
  OBVIOUS
<1>1. TypeOK
  <2>1. copies \in [Sources -> Nat]
    BY NothingFacts DEF Init
  <2>2. append \in [Sources -> {"idle", "committed", "built", "ok"}]
    BY DEF Init
  <2>3. query \in [Queries -> {"idle", "check", "wait", "syncing", "fresh", "execute",
                              "answered", "failed"}]
    BY DEF Init
  <2>4. troubles \in 0..MaxTroubles
    BY SearchAssumption DEF Init
  <2> QED
    BY <2>1, <2>2, <2>3, <2>4 DEF Init, TypeOK, Goroutine
<1>2. EachAgrees /\ SyncState
  BY NothingFacts DEF Init, EachAgrees, Agrees, Index, SyncState
<1> QED
  BY <1>1, <1>2 DEF IInv

LEMMA NextIInv == IInv /\ [Next]_vars => IInv'
<1> SUFFICES ASSUME IInv, [Next]_vars PROVE IInv'
  OBVIOUS
<1>1. ASSUME NEW s \in Sources, OtherWriter(s) \/ CommitSegment(s) \/ Appending(s) PROVE IInv'
  BY <1>1, OtherWriterStep, CommitSegmentStep, ObserveStep, AddDocumentsStep DEF Appending
<1>2. ASSUME NEW q \in Queries, Search(q) \/ Searching(q) \/ Opening(q) PROVE IInv'
  BY <1>2, SearchStep, CheckLoadedStep, RefreshAsyncStep, ExecuteStep, OpenCachedStep,
     OpenColdStep DEF Searching, Opening
<1>3. CASE Synchronizing
  BY <1>3, ListKeysStep, CompareStep, WipeStep, InstallFetchedStep, RefreshFailsStep,
     WriteFileStep DEF Synchronizing
<1>4. CASE StartAsync \/ FinishAsync \/ StartPersist \/ FinishPersist
  BY <1>4, StartAsyncStep, FinishAsyncStep, StartPersistStep, FinishPersistStep
<1>5. CASE StartRebuild \/ Tick \/ Restart
  BY <1>5, StartRebuildStep, TickStep, RestartStep
<1>6. CASE UNCHANGED vars
  BY <1>6 DEF vars, storeVars, indexVars, syncVars, IInv, TypeOK, EachAgrees, Agrees, Index,
     SyncState
<1> QED
  BY <1>1, <1>2, <1>3, <1>4, <1>5, <1>6 DEF Next

-----------------------------------------------------------------------------
\* The strengthened invariant: marks and documents agree, and a synchronization
\* under way has in hand whatever it listed and has not marked.
THEOREM Inductive == Spec => []IInv
<1> QED
  BY InitIInv, NextIInv, PTL DEF Spec

\* Every variable of the index keeps its type; refreshMu is held exactly while
\* a synchronization, a rebuild or a cache write is under way.
THEOREM TypeCorrect == Spec => []TypeOK
<1>1. IInv => TypeOK
  BY DEF IInv
<1> QED
  BY <1>1, Inductive, PTL

\* In memory, in the cache file and in what is being written to it, a segment is
\* marked exactly when its documents are there, and is committed.
THEOREM MarksAreTrue == Spec => []MarkedIsIndexed
<1>1. IInv => MarkedIsIndexed
  BY AgreementSuffices
<1> QED
  BY <1>1, Inductive, PTL

\* A synchronization that ends has made searchable all it listed.
THEOREM SynchronizationsAreComplete == Spec => SyncIsComplete
<1>1. IInv /\ [Next]_vars => [InstallFetched => (keys \subseteq sources')]_vars
  BY DEF IInv, SyncState, InstallFetched
<1> QED
  BY <1>1, Inductive, PTL DEF Spec, SyncIsComplete
=============================================================================
