----------------------------- MODULE SearchIndex -----------------------------
(***************************************************************************)
(* The search index of one process: an in-memory projection of the         *)
(* segments that searches, appends, periodic refreshes, rebuilds and a     *)
(* cache file share (history/search.go).  refreshMu is held for a whole    *)
(* synchronization; mu only for each access to memory, so appends and      *)
(* searches run between the steps of a synchronization.                    *)
(*                                                                          *)
(* A source is a segment; copies counts how many times its documents are   *)
(* in the index.  Postings, filters and scores are functions of that.      *)
(***************************************************************************)
EXTENDS Naturals

CONSTANTS
    Sources,        \* segments that may be committed
    Queries,        \* clients that search, again and again
    Cached,         \* a cache path is configured
    NoFile,         \* there is no cache file
    NoOne,          \* nobody holds refreshMu
    Async, Rebuilder, Persister,    \* goroutines that may hold refreshMu
    MaxTroubles     \* BOUND: failed store and file operations, crashes, rebuilds

ASSUME SearchAssumption ==
    /\ Cached \in BOOLEAN
    /\ MaxTroubles \in Nat
    /\ {NoOne, Async, Rebuilder, Persister} \intersect Queries = {}
    /\ NoOne \notin {Async, Rebuilder, Persister}

VARIABLES
    committed,      \* segments in the store
    append,         \* append[s]: where this process is in appending s
    loaded,         \* the index has been opened
    sources,        \* segments the index has marked
    copies,         \* copies[s]: how many times it holds the documents of s
    stale,          \* a second has passed since lastRefresh
    disk,           \* the cache file
    holder,         \* who holds refreshMu
    step,           \* what the holder does next
    keys,           \* what its LIST returned
    missing,        \* what it fetches
    cache,          \* what it writes to the cache file
    async, persist, \* the refreshing and persisting goroutines
    query,          \* query[q]: where search q is
    troubles        \* failures, crashes and rebuilds so far

storeVars == <<committed, append>>
indexVars == <<loaded, sources, copies, stale>>
syncVars == <<holder, step, keys, missing, cache>>
vars == <<storeVars, indexVars, disk, syncVars, async, persist, query, troubles>>

-----------------------------------------------------------------------------
Nothing == [s \in Sources |-> 0]

Index == [sources |-> sources, copies |-> copies]

\* The documents of a set of segments are appended to those there are.
Added(set) == [s \in Sources |-> copies[s] + IF s \in set THEN 1 ELSE 0]

Init ==
    /\ committed = {}
    /\ append = [s \in Sources |-> "idle"]
    /\ loaded = FALSE /\ sources = {} /\ copies = Nothing /\ stale = TRUE
    /\ disk = NoFile
    /\ holder = NoOne /\ step = "free" /\ keys = {} /\ missing = {} /\ cache = NoFile
    /\ async = "none" /\ persist = "none"
    /\ query = [q \in Queries |-> "idle"]
    /\ troubles = 0

\* One more of what the model bounds happens.
Trouble == troubles < MaxTroubles /\ troubles' = troubles + 1

-----------------------------------------------------------------------------
\* Appends.

\* Another process commits s.
OtherWriter(s) ==
    /\ committed' = committed \union {s}
    /\ s \notin committed
    /\ UNCHANGED <<append, indexVars, disk, syncVars, async, persist, query, troubles>>

\* This process commits s and its projection delta, or finds them committed.
CommitSegment(s) ==
    /\ append[s] = "idle"
    /\ committed' = committed \union {s}
    /\ append' = [append EXCEPT ![s] = "committed"]
    /\ UNCHANGED <<indexVars, disk, syncVars, async, persist, query, troubles>>

\* observeSegment: the look at the index before the documents are built.  It
\* gives up silently when their content cannot be read.
Observe(s) ==
    /\ append[s] = "committed"
    /\ IF ~loaded \/ s \in sources
       THEN /\ append' = [append EXCEPT ![s] = "ok"]
            /\ UNCHANGED troubles
       ELSE \/ append' = [append EXCEPT ![s] = "built"] /\ UNCHANGED troubles
            \/ append' = [append EXCEPT ![s] = "ok"] /\ Trouble
    /\ UNCHANGED <<committed, indexVars, disk, syncVars, async, persist, query>>

PersistAsync == persist' = IF Cached /\ persist = "none" THEN "waiting" ELSE persist

\* observeSegment under mu, then persistAsync and the reply of the append.
AddDocuments(s) ==
    /\ append[s] = "built"
    /\ IF s \in sources
       THEN UNCHANGED <<sources, copies, stale>>
       ELSE /\ sources' = sources \union {s}
            /\ copies' = Added({s})
            /\ stale' = FALSE
    /\ append' = [append EXCEPT ![s] = "ok"]
    /\ PersistAsync
    /\ UNCHANGED <<committed, loaded, disk, syncVars, async, query, troubles>>

-----------------------------------------------------------------------------
\* Searches.

Search(q) ==
    /\ query[q] \in {"idle", "answered", "failed"}
    /\ query' = [query EXCEPT ![q] = "check"]
    /\ UNCHANGED <<storeVars, indexVars, disk, syncVars, async, persist, troubles>>

\* ensureLoaded: the look at loaded before refreshMu.
CheckLoaded(q) ==
    /\ query[q] = "check"
    /\ query' = [query EXCEPT ![q] = IF loaded THEN "fresh" ELSE "wait"]
    /\ UNCHANGED <<storeVars, indexVars, disk, syncVars, async, persist, troubles>>

\* ensureLoaded under refreshMu when another search has opened the index, or the
\* cache file can be read.
OpenCached(q) ==
    /\ query[q] = "wait"
    /\ holder = NoOne
    /\ IF loaded
       THEN UNCHANGED indexVars
       ELSE /\ Cached /\ disk # NoFile
            /\ loaded' = TRUE
            /\ sources' = disk.sources
            /\ copies' = disk.copies
            /\ UNCHANGED stale
    /\ query' = [query EXCEPT ![q] = "fresh"]
    /\ UNCHANGED <<storeVars, disk, syncVars, async, persist, troubles>>

\* The index is emptied and a synchronization begins.
Empty(who) ==
    /\ loaded' = TRUE /\ sources' = {} /\ copies' = Nothing
    /\ holder' = who /\ step' = "list"

\* ensureLoaded without a readable cache file.
OpenCold(q) ==
    /\ query[q] = "wait"
    /\ holder = NoOne
    /\ ~loaded
    /\ IF Cached /\ disk # NoFile THEN Trouble ELSE UNCHANGED troubles
    /\ Empty(q)
    /\ query' = [query EXCEPT ![q] = "syncing"]
    /\ UNCHANGED <<storeVars, stale, disk, keys, missing, cache, async, persist>>

\* Mutant of RefreshAsync: no refresh is ever started.
NeverRefresh(q) ==
    /\ query[q] = "fresh"
    /\ query' = [query EXCEPT ![q] = "execute"]
    /\ UNCHANGED <<storeVars, indexVars, disk, syncVars, async, persist, troubles>>

\* refreshAsync starts a goroutine when the last refresh is old and none runs.
RefreshAsync(q) ==
    /\ query[q] = "fresh"
    /\ async' = IF async = "none" /\ stale THEN "waiting" ELSE async
    /\ query' = [query EXCEPT ![q] = "execute"]
    /\ UNCHANGED <<storeVars, indexVars, disk, syncVars, persist, troubles>>

\* execute answers from what is in the index.
Execute(q) ==
    /\ query[q] = "execute"
    /\ query' = [query EXCEPT ![q] = "answered"]
    /\ UNCHANGED <<storeVars, indexVars, disk, syncVars, async, persist, troubles>>

-----------------------------------------------------------------------------
\* refresh, by whoever holds refreshMu.

\* Mutant of Release: refreshMu is not released after a failure.
ReleaseOnSuccess(succeeded) ==
    /\ holder' = IF succeeded THEN NoOne ELSE holder
    /\ step' = "free"
    /\ keys' = {} /\ missing' = {} /\ cache' = NoFile
    /\ async' = IF holder = Async THEN "finishing" ELSE async
    /\ persist' = IF holder = Persister THEN "finishing" ELSE persist
    /\ query' = [q \in Queries |->
          IF q = holder THEN IF succeeded THEN "fresh" ELSE "failed" ELSE query[q]]

\* refreshMu is released; the holder goes on with its result.
Release(succeeded) ==
    /\ holder' = NoOne /\ step' = "free"
    /\ keys' = {} /\ missing' = {} /\ cache' = NoFile
    /\ async' = IF holder = Async THEN "finishing" ELSE async
    /\ persist' = IF holder = Persister THEN "finishing" ELSE persist
    /\ query' = [q \in Queries |->
          IF q = holder THEN IF succeeded THEN "fresh" ELSE "failed" ELSE query[q]]

StartAsync ==
    /\ async = "waiting"
    /\ holder = NoOne
    /\ async' = "holding"
    /\ holder' = Async /\ step' = "list"
    /\ UNCHANGED <<storeVars, indexVars, disk, keys, missing, cache, persist, query, troubles>>

FinishAsync ==
    /\ async = "finishing"
    /\ async' = "none"
    /\ UNCHANGED <<storeVars, indexVars, disk, syncVars, persist, query, troubles>>

StartRebuild ==
    /\ holder = NoOne
    /\ Trouble
    /\ Empty(Rebuilder)
    /\ stale' = TRUE
    /\ UNCHANGED <<storeVars, disk, keys, missing, cache, async, persist, query>>

ListKeys ==
    /\ step = "list"
    /\ keys' = committed
    /\ step' = "compare"
    /\ UNCHANGED <<storeVars, indexVars, disk, holder, missing, cache, async, persist,
                   query, troubles>>

\* Mutant of Compare: an index that is dropped is not fetched whole.
CompareOnce ==
    /\ step = "compare"
    /\ missing' = keys \ sources
    /\ step' = IF sources \subseteq keys THEN "fetch" ELSE "wipe"
    /\ UNCHANGED <<storeVars, indexVars, disk, holder, keys, cache, async, persist,
                   query, troubles>>

\* A marked segment that was not listed means the index is of another history.
Compare ==
    /\ step = "compare"
    /\ IF sources \subseteq keys
       THEN missing' = keys \ sources /\ step' = "fetch"
       ELSE missing' = keys /\ step' = "wipe"
    /\ UNCHANGED <<storeVars, indexVars, disk, holder, keys, cache, async, persist,
                   query, troubles>>

\* Mutant of Wipe: what was appended since the look at the index stays marked.
WipeDocuments ==
    /\ step = "wipe"
    /\ copies' = Nothing
    /\ step' = "refetch"
    /\ UNCHANGED <<storeVars, loaded, sources, stale, disk, holder, keys, missing, cache,
                   async, persist, query, troubles>>

Wipe ==
    /\ step = "wipe"
    /\ sources' = {} /\ copies' = Nothing
    /\ step' = "refetch"
    /\ UNCHANGED <<storeVars, loaded, stale, disk, holder, keys, missing, cache, async,
                   persist, query, troubles>>

\* The documents of what was fetched are appended, and the whole index is
\* written to the cache file if it changed.
InstallFetched ==
    /\ step \in {"fetch", "refetch"}
    /\ sources' = sources \union missing
    /\ copies' = Added(missing)
    /\ stale' = FALSE
    /\ IF Cached /\ (missing # {} \/ step = "refetch")
       THEN /\ cache' = [sources |-> sources', copies |-> copies']
            /\ step' = "write"
            /\ UNCHANGED <<holder, keys, missing, async, persist, query>>
       ELSE Release(TRUE)
    /\ UNCHANGED <<storeVars, loaded, disk, troubles>>

\* LIST, or the read of a segment or a content, fails: what was wiped stays so.
RefreshFails ==
    /\ step \in {"list", "fetch", "refetch"}
    /\ Trouble
    /\ Release(FALSE)
    /\ UNCHANGED <<storeVars, indexVars, disk>>

\* persistAsync takes the index as it is under refreshMu.
StartPersist ==
    /\ persist = "waiting"
    /\ holder = NoOne
    /\ persist' = "holding"
    /\ holder' = Persister /\ step' = "write"
    /\ cache' = Index
    /\ UNCHANGED <<storeVars, indexVars, disk, keys, missing, async, query, troubles>>

\* writeCache: a temporary file is renamed over the cache file.  Its errors are
\* ignored.
WriteFile ==
    /\ step = "write"
    /\ \/ disk' = cache /\ UNCHANGED troubles
       \/ UNCHANGED disk /\ Trouble
    /\ Release(TRUE)
    /\ UNCHANGED <<storeVars, indexVars>>

FinishPersist ==
    /\ persist = "finishing"
    /\ persist' = "none"
    /\ UNCHANGED <<storeVars, indexVars, disk, syncVars, async, query, troubles>>

-----------------------------------------------------------------------------
Tick ==
    /\ ~stale
    /\ stale' = TRUE
    /\ UNCHANGED <<storeVars, loaded, sources, copies, disk, syncVars, async, persist,
                   query, troubles>>

\* The process dies and starts again: only the store and the cache file remain.
Restart ==
    /\ Trouble
    /\ append' = [s \in Sources |-> "idle"]
    /\ loaded' = FALSE /\ sources' = {} /\ copies' = Nothing /\ stale' = TRUE
    /\ holder' = NoOne /\ step' = "free" /\ keys' = {} /\ missing' = {} /\ cache' = NoFile
    /\ async' = "none" /\ persist' = "none"
    /\ query' = [q \in Queries |-> "idle"]
    /\ UNCHANGED <<committed, disk>>

-----------------------------------------------------------------------------
Appending(s) == Observe(s) \/ AddDocuments(s)

Opening(q) == OpenCached(q) \/ OpenCold(q)
Searching(q) == CheckLoaded(q) \/ RefreshAsync(q) \/ Execute(q)

Synchronizing == ListKeys \/ Compare \/ Wipe \/ InstallFetched \/ RefreshFails \/ WriteFile

Next ==
    \/ \E s \in Sources : OtherWriter(s) \/ CommitSegment(s) \/ Appending(s)
    \/ \E q \in Queries : Search(q) \/ Searching(q) \/ Opening(q)
    \/ Synchronizing
    \/ StartAsync \/ FinishAsync \/ StartPersist \/ FinishPersist
    \/ StartRebuild \/ Tick \/ Restart

Spec == Init /\ [][Next]_vars

\* What has begun goes on, refreshMu is granted to all who wait for it, time
\* passes, and clients go on searching.
FairSpec ==
    /\ Spec
    /\ \A s \in Sources : WF_vars(Appending(s))
    /\ \A q \in Queries : WF_vars(Search(q)) /\ WF_vars(Searching(q)) /\ SF_vars(Opening(q))
    /\ WF_vars(Synchronizing) /\ WF_vars(Tick)
    /\ SF_vars(StartAsync) /\ WF_vars(FinishAsync)
    /\ SF_vars(StartPersist) /\ WF_vars(FinishPersist)
-----------------------------------------------------------------------------
\* Types.

IndexType == [sources : SUBSET Sources, copies : [Sources -> Nat]]
ASSUME FileAssumption == NoFile \notin IndexType

Goroutine == {"none", "waiting", "holding", "finishing"}

\* Every variable has its type; refreshMu is held exactly while a step is left to
\* do, and an index is in hand exactly while it is written.
TypeOK ==
    /\ committed \subseteq Sources
    /\ append \in [Sources -> {"idle", "committed", "built", "ok"}]
    /\ loaded \in BOOLEAN /\ stale \in BOOLEAN
    /\ sources \subseteq Sources /\ copies \in [Sources -> Nat]
    /\ disk \in IndexType \union {NoFile}
    /\ cache \in IndexType \union {NoFile}
    /\ holder \in Queries \union {NoOne, Async, Rebuilder, Persister}
    /\ step \in {"free", "list", "compare", "wipe", "fetch", "refetch", "write"}
    /\ holder = NoOne <=> step = "free"
    /\ cache = NoFile <=> step # "write"
    /\ keys \subseteq Sources /\ missing \subseteq Sources
    /\ async \in Goroutine /\ persist \in Goroutine
    /\ query \in [Queries -> {"idle", "check", "wait", "syncing", "fresh", "execute",
                               "answered", "failed"}]
    /\ troubles \in 0..MaxTroubles

-----------------------------------------------------------------------------
\* Safety.

Indexes == {Index} \union {i \in {disk, cache} : i # NoFile}

\* A marked segment has its documents in the index, and documents belong to
\* marked segments of the history: a synchronization would never fetch a segment
\* that is marked without documents, nor drop those of one that is not marked.
\* So in memory, in what is being written and in the cache file.
MarkedIsIndexed ==
    \A i \in Indexes :
        /\ i.sources \subseteq committed
        /\ \A s \in Sources : s \in i.sources <=> i.copies[s] > 0

\* What a synchronization listed is searchable when it has succeeded, whatever
\* was appended, dropped or observed while it fetched.
SyncIsComplete ==
    [][InstallFetched => (keys \subseteq sources')]_vars

\* search.go: "the next synchronization repairs the disposable view".  When one
\* has succeeded, no segment is in the index more than once.
\* (The code does not keep this promise; README, section 6.)
RepairedBySync ==
    [][InstallFetched => \A s \in Sources : copies'[s] <= 1]_vars

\* docs/design/0006: "Same-process appends are read-your-writes."
\* (The code does not keep this promise; README, section 6.)
ReadYourWrites ==
    [][\A q \in Queries : query[q] = "execute" /\ query'[q] = "answered" =>
          \A s \in Sources : append[s] = "ok" => s \in sources]_vars

-----------------------------------------------------------------------------
\* Liveness, under FairSpec.

\* docs/storage.md: a committed segment becomes searchable, whoever committed it
\* and whatever failed on the way, as long as somebody searches.
CommittedGetsSearchable == \A s \in Sources : s \in committed ~> s \in sources

\* Every search ends, although searches, refreshes, cache writes and rebuilds
\* wait for one mutex.
SearchesEnd ==
    \A q \in Queries : query[q] = "check" ~> query[q] \in {"answered", "failed", "idle"}
=============================================================================
