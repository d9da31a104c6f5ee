------------------------ MODULE ConversationProjection ------------------------
(***************************************************************************)
(* The conversation list: a materialized view each process keeps in memory *)
(* under one mutex, fed by the deltas that appends write to the store, and *)
(* shortened by snapshots (history/conversation_projection.go).             *)
(*                                                                          *)
(* A source is a committed segment.  What matters of the sums a view shows *)
(* (record counts, times, agents) is how many times each source is in them:*)
(* that is tally.  How a segment becomes durable is HistoryAppend's matter.*)
(* Every store call is one step.                                            *)
(***************************************************************************)
EXTENDS Naturals, FiniteSets

CONSTANTS
    Procs,          \* processes with a Service over the store
    Calls,          \* appends, with their retries
    Source,         \* Source[c]: the segment that call c commits or finds
    Threshold,      \* conversationSnapshotThreshold
    MaxFaults,      \* BOUND: failed or interrupted store calls
    MaxRestarts,    \* BOUND: process crashes
    MaxRebuilds     \* BOUND: rebuilds asked for

Sources == {Source[c] : c \in Calls}

ASSUME ProjectionAssumption ==
    /\ Threshold \in Nat \ {0}
    /\ MaxFaults \in Nat /\ MaxRestarts \in Nat /\ MaxRebuilds \in Nat
    /\ IsFiniteSet(Sources)

VARIABLES
    committed,      \* segments in the store
    deltas,         \* sources whose delta is in the store
    snapshots,      \* the snapshots in the store
    stage,          \* stage[c]: where append c is
    at,             \* at[c]: the process that executes c
    loaded,         \* loaded[p]: p has a view
    applied,        \* applied[p]: sources whose delta key p has marked
    tally,          \* tally[p][s]: how many times p's sums count source s
    stale,          \* stale[p]: a second has passed since p's lastRefresh
    pending,        \* pending[p]: p's deltasSinceSnapshot
    mode,           \* mode[p]: what the holder of p's mutex does next
    listed,         \* listed[p]: what its last LIST returned
    publish,        \* publish[p]: it must write a snapshot after the refresh
    faults, restarts, rebuilds

storeVars == <<committed, deltas, snapshots>>
callVars == <<stage, at>>
viewVars == <<loaded, applied, tally, pending>>
bounds == <<faults, restarts, rebuilds>>
vars == <<storeVars, callVars, viewVars, stale, mode, listed, publish, bounds>>

-----------------------------------------------------------------------------
Once(set) == [s \in Sources |-> IF s \in set THEN 1 ELSE 0]

\* A snapshot is named by the number of deltas it reduces, then by its time;
\* the clocks of several processes order those of one size in any way.
Size(snapshot) == Cardinality(snapshot.applied)

Newer(snapshot) == {t \in snapshots : Size(t) > Size(snapshot)}

Unlocked(p) == mode[p] = "free"

Init ==
    /\ committed = {} /\ deltas = {} /\ snapshots = {}
    /\ stage = [c \in Calls |-> "idle"]
    /\ at \in {[c \in Calls |-> p] : p \in Procs}
    /\ loaded = [p \in Procs |-> FALSE]
    /\ applied = [p \in Procs |-> {}]
    /\ tally = [p \in Procs |-> Once({})]
    /\ stale = [p \in Procs |-> TRUE]
    /\ pending = [p \in Procs |-> 0]
    /\ mode = [p \in Procs |-> "free"]
    /\ listed = [p \in Procs |-> {}]
    /\ publish = [p \in Procs |-> FALSE]
    /\ faults = 0 /\ restarts = 0 /\ rebuilds = 0

-----------------------------------------------------------------------------
\* Appends.  They write to the store without the mutex.

\* Mutant of CommitSource: the delta does not wait for the segment.
ProjectFirst(c, p) ==
    /\ stage[c] = "idle"
    /\ stage' = [stage EXCEPT ![c] = "committed"]
    /\ at' = [at EXCEPT ![c] = p]
    /\ UNCHANGED <<storeVars, viewVars, stale, mode, listed, publish, bounds>>

\* The segment is committed, or found committed by an earlier attempt.
CommitSource(c, p) ==
    /\ stage[c] = "idle"
    /\ committed' = committed \union {Source[c]}
    /\ stage' = [stage EXCEPT ![c] = "committed"]
    /\ at' = [at EXCEPT ![c] = p]
    /\ UNCHANGED <<deltas, snapshots, viewVars, stale, mode, listed, publish, bounds>>

\* append up to the mutex: the delta is created, or is there with the same bytes.
PutDelta(c) ==
    /\ stage[c] = "committed"
    /\ deltas' = deltas \union {Source[c]}
    /\ stage' = [stage EXCEPT ![c] = "stored"]
    /\ UNCHANGED <<committed, snapshots, at, viewVars, stale, mode, listed, publish, bounds>>

\* Mutant of Apply: marked keys are not looked up.
ApplyAgain(p, set) ==
    /\ applied' = [applied EXCEPT ![p] = @ \union set]
    /\ tally' = [tally EXCEPT ![p] = [s \in Sources |-> @[s] + Once(set)[s]]]
    /\ pending' = [pending EXCEPT ![p] = @ + Cardinality(set \ applied[p])]

\* apply, for the deltas of a set of sources.
Apply(p, set) ==
    LET unseen == set \ applied[p] IN
    /\ applied' = [applied EXCEPT ![p] = @ \union unseen]
    /\ tally' = [tally EXCEPT ![p] = [s \in Sources |-> @[s] + Once(unseen)[s]]]
    /\ pending' = [pending EXCEPT ![p] = @ + Cardinality(unseen)]

\* Mutant of ApplyOwn: the view waits for the next refresh.
AckOnly(c) ==
    LET p == at[c] IN
    /\ stage[c] = "stored"
    /\ Unlocked(p)
    /\ stage' = [stage EXCEPT ![c] = "ok"]
    /\ UNCHANGED <<storeVars, at, viewVars, stale, mode, listed, publish, bounds>>

\* append under the mutex, then the reply.
ApplyOwn(c) ==
    LET p == at[c] IN
    /\ stage[c] = "stored"
    /\ Unlocked(p)
    /\ IF loaded[p] THEN Apply(p, {Source[c]}) ELSE UNCHANGED <<applied, tally, pending>>
    /\ stage' = [stage EXCEPT ![c] = "ok"]
    /\ UNCHANGED <<storeVars, at, loaded, stale, mode, listed, publish, bounds>>

-----------------------------------------------------------------------------
\* conversations, holding the mutex from Read to Reply.

\* What follows a refresh that leaves n deltas out of the snapshots.
AfterRefresh(p, n) == IF publish[p] \/ n >= Threshold THEN "publish" ELSE "reply"

\* Mutant of Read: a view that is loaded is never refreshed.
ServeLoaded(p) ==
    /\ Unlocked(p)
    /\ mode' = [mode EXCEPT ![p] = IF loaded[p] THEN "reply" ELSE "load"]
    /\ UNCHANGED <<storeVars, callVars, viewVars, stale, listed, publish, bounds>>

Read(p) ==
    /\ Unlocked(p)
    /\ mode' = [mode EXCEPT ![p] =
          IF ~loaded[p] THEN "load"
          ELSE IF stale[p] THEN "list" ELSE AfterRefresh(p, pending[p])]
    /\ UNCHANGED <<storeVars, callVars, viewVars, stale, listed, publish, bounds>>

\* What load and rebuild put in place of the view before they refresh it.
Install(p, set, sums) ==
    /\ applied' = [applied EXCEPT ![p] = set]
    /\ tally' = [tally EXCEPT ![p] = sums]
    /\ loaded' = [loaded EXCEPT ![p] = TRUE]
    /\ stale' = [stale EXCEPT ![p] = TRUE]
    /\ mode' = [mode EXCEPT ![p] = "list"]

\* load with no snapshot in the store: the first one is due.
LoadNothing(p) ==
    /\ mode[p] = "load"
    /\ snapshots = {}
    /\ Install(p, {}, Once({}))
    /\ publish' = [publish EXCEPT ![p] = TRUE]
    /\ UNCHANGED <<storeVars, callVars, pending, listed, bounds>>

\* load: the newest snapshot that can be read; a failed read is skipped silently.
LoadSnapshot(p) ==
    /\ mode[p] = "load"
    /\ \E t \in snapshots :
          /\ faults' = faults + Cardinality(Newer(t))
          /\ faults' <= MaxFaults
          /\ Install(p, t.applied, t.tally)
    /\ pending' = [pending EXCEPT ![p] = 0]
    /\ UNCHANGED <<storeVars, callVars, listed, publish, restarts, rebuilds>>

\* refresh: LIST of the deltas.
ListDeltas(p) ==
    /\ mode[p] = "list"
    /\ listed' = [listed EXCEPT ![p] = deltas]
    /\ mode' = [mode EXCEPT ![p] = "apply"]
    /\ UNCHANGED <<storeVars, callVars, viewVars, stale, publish, bounds>>

\* refresh: the unseen ones have been read, and are applied.
ApplyListed(p) ==
    /\ mode[p] = "apply"
    /\ Apply(p, listed[p])
    /\ stale' = [stale EXCEPT ![p] = FALSE]
    /\ mode' = [mode EXCEPT ![p] = AfterRefresh(p, pending'[p])]
    /\ listed' = [listed EXCEPT ![p] = {}]
    /\ UNCHANGED <<storeVars, callVars, loaded, publish, bounds>>

View(p) == [applied |-> applied[p], tally |-> tally[p]]

\* Mutant of WriteSnapshot: the counter is lowered by the threshold.
WriteSnapshotLess(p) ==
    /\ mode[p] = "publish"
    /\ snapshots' = snapshots \union {View(p)}
    /\ pending' = [pending EXCEPT ![p] = @ - Threshold]
    /\ publish' = [publish EXCEPT ![p] = FALSE]
    /\ mode' = [mode EXCEPT ![p] = "reply"]
    /\ UNCHANGED <<committed, deltas, callVars, loaded, applied, tally, stale, listed, bounds>>

WriteSnapshot(p) ==
    /\ mode[p] = "publish"
    /\ snapshots' = snapshots \union {View(p)}
    /\ pending' = [pending EXCEPT ![p] = 0]
    /\ publish' = [publish EXCEPT ![p] = FALSE]
    /\ mode' = [mode EXCEPT ![p] = "reply"]
    /\ UNCHANGED <<committed, deltas, callVars, loaded, applied, tally, stale, listed, bounds>>

\* result: the answer is the view.
Reply(p) ==
    /\ mode[p] = "reply"
    /\ mode' = [mode EXCEPT ![p] = "free"]
    /\ UNCHANGED <<storeVars, callVars, viewVars, stale, listed, publish, bounds>>

-----------------------------------------------------------------------------
\* RebuildConversationProjection, under the same mutex.

\* LIST and reads of the segments.
Scan(p) ==
    /\ Unlocked(p)
    /\ mode' = [mode EXCEPT ![p] = "scanned"]
    /\ listed' = [listed EXCEPT ![p] = committed]
    /\ rebuilds < MaxRebuilds
    /\ rebuilds' = rebuilds + 1
    /\ UNCHANGED <<storeVars, callVars, viewVars, stale, publish, faults, restarts>>

\* The view is replaced by the scan, and its deltas are marked as applied.
InstallScan(p) ==
    /\ mode[p] = "scanned"
    /\ Install(p, listed[p], Once(listed[p]))
    /\ pending' = [pending EXCEPT ![p] = 0]
    /\ publish' = [publish EXCEPT ![p] = TRUE]
    /\ listed' = [listed EXCEPT ![p] = {}]
    /\ UNCHANGED <<storeVars, callVars, bounds>>

-----------------------------------------------------------------------------
\* The clock, failures and crashes.

Tick(p) ==
    /\ ~stale[p]
    /\ stale' = [stale EXCEPT ![p] = TRUE]
    /\ UNCHANGED <<storeVars, callVars, viewVars, mode, listed, publish, bounds>>

CanFail == faults < MaxFaults /\ faults' = faults + 1

\* The append fails at its next store call, whether or not the delta was stored;
\* its client may retry.
CallFails(c) ==
    /\ stage[c] = "committed"
    /\ CanFail
    /\ stage' = [stage EXCEPT ![c] = "idle"]
    /\ deltas' \in {deltas, deltas \union {Source[c]}}
    /\ UNCHANGED <<committed, snapshots, at, viewVars, stale, mode, listed, publish, restarts, rebuilds>>

\* A store call of the mutex's holder fails, and the operation returns its error.
\* A snapshot may have been stored all the same.
Abort(p) ==
    /\ mode[p] \in {"load", "list", "apply", "scanned", "publish"}
    /\ CanFail
    /\ mode' = [mode EXCEPT ![p] = "free"]
    /\ listed' = [listed EXCEPT ![p] = {}]
    /\ publish' = [publish EXCEPT ![p] = FALSE]
    /\ snapshots' \in {snapshots} \union
          IF mode[p] = "publish" THEN {snapshots \union {View(p)}} ELSE {}
    /\ UNCHANGED <<committed, deltas, callVars, viewVars, stale, restarts, rebuilds>>

\* The process dies with its view and its appends, and starts again.
Restart(p) ==
    /\ restarts < MaxRestarts
    /\ restarts' = restarts + 1
    /\ stage' = [c \in Calls |->
          IF at[c] = p /\ stage[c] \in {"committed", "stored"} THEN "idle" ELSE stage[c]]
    /\ loaded' = [loaded EXCEPT ![p] = FALSE]
    /\ applied' = [applied EXCEPT ![p] = {}]
    /\ tally' = [tally EXCEPT ![p] = Once({})]
    /\ stale' = [stale EXCEPT ![p] = TRUE]
    /\ pending' = [pending EXCEPT ![p] = 0]
    /\ mode' = [mode EXCEPT ![p] = "free"]
    /\ listed' = [listed EXCEPT ![p] = {}]
    /\ publish' = [publish EXCEPT ![p] = FALSE]
    /\ UNCHANGED <<storeVars, at, faults, rebuilds>>

-----------------------------------------------------------------------------
Append(c) == PutDelta(c) \/ ApplyOwn(c)

Holder(p) ==
    \/ LoadNothing(p) \/ LoadSnapshot(p) \/ ListDeltas(p) \/ ApplyListed(p)
    \/ WriteSnapshot(p) \/ Reply(p) \/ InstallScan(p)

Next ==
    \/ \E c \in Calls, p \in Procs : CommitSource(c, p)
    \/ \E c \in Calls : Append(c) \/ CallFails(c)
    \/ \E p \in Procs :
          Read(p) \/ Holder(p) \/ Scan(p) \/ Tick(p) \/ Abort(p) \/ Restart(p)

Spec == Init /\ [][Next]_vars

\* Operations that have begun go on, the mutex is granted to all who wait, time
\* passes, and the list is looked at again and again; appends, rebuilds and
\* failures need never happen.
FairSpec ==
    /\ Spec
    /\ \A c \in Calls : SF_vars(Append(c))
    /\ \A p \in Procs : WF_vars(Holder(p)) /\ SF_vars(Read(p)) /\ WF_vars(Tick(p))
-----------------------------------------------------------------------------
\* Types.

Snapshot == [applied : SUBSET Sources, tally : [Sources -> Nat]]

Stages == {"idle", "committed", "stored", "ok"}
Modes == {"free", "load", "list", "apply", "publish", "reply", "scanned"}

\* Every variable has its type.
TypeOK ==
    /\ committed \subseteq Sources
    /\ deltas \subseteq Sources
    /\ snapshots \subseteq Snapshot
    /\ stage \in [Calls -> Stages]
    /\ at \in [Calls -> Procs]
    /\ loaded \in [Procs -> BOOLEAN]
    /\ applied \in [Procs -> SUBSET Sources]
    /\ tally \in [Procs -> [Sources -> Nat]]
    /\ stale \in [Procs -> BOOLEAN]
    /\ pending \in [Procs -> Nat]
    /\ mode \in [Procs -> Modes]
    /\ listed \in [Procs -> SUBSET Sources]
    /\ publish \in [Procs -> BOOLEAN]
    /\ faults \in 0..MaxFaults
    /\ restarts \in 0..MaxRestarts
    /\ rebuilds \in 0..MaxRebuilds

-----------------------------------------------------------------------------
\* Safety.

\* docs/storage.md: an append, its retries, the refreshes and the rebuilds that
\* see its delta, and the snapshots together never count a source twice, nor
\* mark as applied a source that is in no sum.
CountedOnce ==
    /\ \A p \in Procs : tally[p] = Once(applied[p])
    /\ \A t \in snapshots : t.tally = Once(t.applied)

\* The view shows nothing that is not in the history, whichever of the two
\* writes of an append was lost.
ViewIsHistory ==
    /\ \A p \in Procs : applied[p] \subseteq committed
    /\ \A t \in snapshots : t.applied \subseteq committed

\* docs/storage.md: "writes through the same process update its view
\* immediately".  A list answered by p counts all the appends p acknowledged,
\* before its view was loaded, after, or in an earlier life.
ReadYourWrites ==
    \A p \in Procs : mode[p] = "reply" =>
        \A c \in Calls : stage[c] = "ok" /\ at[c] = p => Source[c] \in applied[p]

\* A conversation or a record count never goes back in a running process: not
\* when a refresh fails midway, nor when a rebuild replaces the whole view.
ViewGrows ==
    [][\A p \in Procs : loaded[p] /\ loaded'[p] => applied[p] \subseteq applied'[p]]_vars

\* Sources left without a delta by an append that failed for good.
Orphans ==
    {s \in committed \ deltas :
        \A c \in Calls : Source[c] = s => stage[c] \notin {"committed", "stored"}}

\* docs/storage.md: the operator's rebuild reconstructs the complete view.  What
\* it recovered, a process that loads its view later still counts (snapshots of
\* one size, which only clocks order, are left aside).
\* (The code does not keep this promise; README, section 6.)
RebuildIsKept ==
    [][\A p \in Procs :
          mode[p] = "load" /\ mode'[p] = "list" /\ UNCHANGED faults =>
              \A t \in snapshots :
                  \/ Size(t) = Cardinality(applied'[p])
                  \/ t.applied \intersect Orphans \subseteq applied'[p]]_vars

-----------------------------------------------------------------------------
\* Liveness, under FairSpec.

\* docs/storage.md: a write of another process shows up at every process whose
\* list is looked at again, whatever the order of its refreshes, its own
\* appends, its failures and its rebuilds.
ExternalWritesAppear ==
    \A p \in Procs, s \in Sources : s \in deltas ~> loaded[p] /\ s \in applied[p]
=============================================================================
