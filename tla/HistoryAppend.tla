---------------------------- MODULE HistoryAppend ----------------------------
(***************************************************************************)
(* How an append becomes durable: Service.AppendBatch of history/segment.go *)
(* and what it calls, executed by concurrent callers over an object store   *)
(* whose only write is an atomic create-if-absent (storage.Store).          *)
(*                                                                          *)
(* A caller stands for one logical append and all its retries: requests of *)
(* several server processes, of one process, and of clients that lost the  *)
(* reply of an earlier attempt.  Every store call is one step.  A call may *)
(* stop between two store calls (an error of the store, a cancelled        *)
(* context, a crash), and a write may take effect although its caller sees *)
(* an error.  A content is named by its digest.                             *)
(***************************************************************************)
EXTENDS Naturals, Sequences

CONSTANTS
    Callers,        \* the logical appends
    Inputs,         \* the batches a caller may ask for
    External,       \* External[c]: contents above the inline limit of c's process
    Stamps,         \* what an attempt reads from the clock
    NoID,           \* an id the caller leaves to the service
    MaxRecords,     \* maxSegmentRecords
    MaxFaults       \* BOUND: failing store calls, cancellations and crashes

VARIABLES
    blobs,          \* digests of the contents stored under history/blobs
    segments,       \* the segments stored under history/segments
    deltas,         \* the projection deltas stored, each naming its source
    request,        \* request[c]: the batch caller c asks for, at every attempt
    pc,             \* pc[c]: where c's attempt is, or how its last one ended
    segment,        \* segment[c]: the segment c's attempt has in hand
    done,           \* done[c]: entries whose content c's attempt has seen to
    minted,         \* ids generated so far
    faults          \* failures so far

storeVars == <<blobs, segments, deltas>>
vars == <<blobs, segments, deltas, request, pc, segment, done, minted, faults>>

-----------------------------------------------------------------------------
\* A batch, the segment built from it, and the object keys.

Single(id) == [single |-> id]       \* the segment id Append derives from a record id

Generated(gen, i) == [call |-> gen, entry |-> i]    \* identity.New

Distinct(seq) == \A i, j \in DOMAIN seq : seq[i] = seq[j] => i = j

Key(seg) == <<seg.conversation, seg.id>>

\* Mutant of RecordIDs: an id left to the service is never filled in.
RecordIDsUnfilled(in, gen) == [i \in DOMAIN in.entries |-> in.entries[i].id]

RecordIDs(in, gen) ==
    [i \in DOMAIN in.entries |->
        IF in.entries[i].id = NoID THEN Generated(gen, i) ELSE in.entries[i].id]

\* The checks AppendBatch and Segment.Validate make before anything is written.
Valid(in) ==
    /\ in.entries # <<>>
    /\ Len(in.entries) <= MaxRecords
    /\ \A i \in DOMAIN in.entries : in.entries[i].conversation = in.entries[1].conversation
    /\ Distinct(RecordIDs(in, 0))

\* Whether the attempt generates an id.
Mints(in) ==
    \/ in.id = NoID
    \/ \E i \in DOMAIN in.entries : in.entries[i].id = NoID

Storage(c, content) == IF content \in External[c] THEN "blob" ELSE "segment"

Build(c, in, stamp, gen) ==
    [conversation |-> in.entries[1].conversation,
     id           |-> IF in.id = NoID THEN Generated(gen, 0) ELSE in.id,
     created      |-> stamp,
     entries      |-> [i \in DOMAIN in.entries |->
                        [id      |-> RecordIDs(in, gen)[i],
                         content |-> in.entries[i].content,
                         storage |-> Storage(c, in.entries[i].content)]]]

\* Mutant of SameBatch: contents are not compared.
SameIDs(existing, in) ==
    /\ Len(existing.entries) = Len(in.entries)
    /\ \A i \in DOMAIN in.entries : in.entries[i].id \in {NoID, existing.entries[i].id}

\* A retried input describes the committed segment: same contents in the same
\* order, and the same id wherever the caller gave one.
SameBatch(existing, in) ==
    /\ Len(existing.entries) = Len(in.entries)
    /\ \A i \in DOMAIN in.entries :
          /\ in.entries[i].content = existing.entries[i].content
          /\ in.entries[i].id \in {NoID, existing.entries[i].id}
          /\ in.entries[i].conversation = existing.conversation

Stored(key) == {s \in segments : Key(s) = key}

Delta(seg) == [source |-> Key(seg), of |-> seg]     \* buildConversationDelta

\* PutIfAbsent succeeds when the key is free or already holds the same bytes.
Accepts(objects, object) == objects \subseteq {object}

Working == {"writing", "reading", "projecting"}

-----------------------------------------------------------------------------
Init ==
    /\ blobs = {} /\ segments = {} /\ deltas = {}
    /\ request \in [Callers -> Inputs]
    /\ pc = [c \in Callers |-> "idle"]
    /\ segment = [c \in Callers |-> NoID]
    /\ done = [c \in Callers |-> 0]
    /\ minted = 0 /\ faults = 0

\* AppendBatch up to its first store call: the batch is checked and sealed.
\* A caller whose last attempt failed sends the same batch again.
Start(c) ==
    /\ pc[c] \in {"idle", "failed"}
    /\ Valid(request[c])
    /\ minted' = IF Mints(request[c]) THEN minted + 1 ELSE minted
    /\ \E stamp \in Stamps :
          segment' = [segment EXCEPT ![c] = Build(c, request[c], stamp, minted + 1)]
    /\ pc' = [pc EXCEPT ![c] = "writing"]
    /\ done' = [done EXCEPT ![c] = 0]
    /\ UNCHANGED <<storeVars, request, faults>>

\* FH_INVALID_BATCH, FH_SEGMENT_TOO_LARGE, FH_INVALID_SEGMENT.
Reject(c) ==
    /\ pc[c] = "idle"
    /\ ~Valid(request[c])
    /\ pc' = [pc EXCEPT ![c] = "rejected"]
    /\ UNCHANGED <<storeVars, request, segment, done, minted, faults>>

\* Entry i holds the next content the attempt must store as a blob.
NextBlob(c, i) ==
    /\ i \in DOMAIN segment[c].entries
    /\ done[c] < i
    /\ segment[c].entries[i].storage = "blob"
    /\ \A j \in DOMAIN segment[c].entries :
          done[c] < j /\ j < i => segment[c].entries[j].storage = "segment"

\* Mutant of BlobsDone: the segment does not wait for its blobs.
SegmentFirst(c) == segment[c] # NoID

BlobsDone(c) ==
    \A i \in DOMAIN segment[c].entries :
        done[c] < i => segment[c].entries[i].storage = "segment"

\* Blobs are content addressed: a present one holds the same bytes.
PutBlob(c) ==
    /\ pc[c] = "writing"
    /\ \E i \in DOMAIN segment[c].entries :
          /\ NextBlob(c, i)
          /\ blobs' = blobs \union {segment[c].entries[i].content}
          /\ done' = [done EXCEPT ![c] = i]
    /\ UNCHANGED <<segments, deltas, request, pc, segment, minted, faults>>

\* The segment object is created, or is there already with the same bytes.
PutSegment(c) ==
    /\ pc[c] = "writing"
    /\ BlobsDone(c)
    /\ Accepts(Stored(Key(segment[c])), segment[c])
    /\ segments' = segments \union {segment[c]}
    /\ pc' = [pc EXCEPT ![c] = "projecting"]
    /\ UNCHANGED <<blobs, deltas, request, segment, done, minted, faults>>

\* storage.ErrConflict: the key holds other bytes, which AppendBatch reads back.
SegmentConflict(c) ==
    /\ pc[c] = "writing"
    /\ BlobsDone(c)
    /\ ~Accepts(Stored(Key(segment[c])), segment[c])
    /\ pc' = [pc EXCEPT ![c] = "reading"]
    /\ UNCHANGED <<storeVars, request, segment, done, minted, faults>>

\* Mutant of AdoptExisting: the attempt goes on with the segment it built.
KeepOwn(c) ==
    /\ pc[c] = "reading"
    /\ \E existing \in Stored(Key(segment[c])) : SameBatch(existing, request[c])
    /\ pc' = [pc EXCEPT ![c] = "projecting"]
    /\ UNCHANGED <<storeVars, request, segment, done, minted, faults>>

\* The committed segment is this batch: the attempt goes on with it.
AdoptExisting(c) ==
    /\ pc[c] = "reading"
    /\ \E existing \in Stored(Key(segment[c])) :
          /\ SameBatch(existing, request[c])
          /\ segment' = [segment EXCEPT ![c] = existing]
    /\ pc' = [pc EXCEPT ![c] = "projecting"]
    /\ UNCHANGED <<storeVars, request, done, minted, faults>>

\* Mutant of RefuseReuse: any taken id is refused.
RefuseTaken(c) ==
    /\ pc[c] = "reading"
    /\ Stored(Key(segment[c])) # {}
    /\ pc' = [pc EXCEPT ![c] = "conflict"]
    /\ UNCHANGED <<storeVars, request, segment, done, minted, faults>>

\* FH_IDEMPOTENCY_CONFLICT: the id was used for a different batch.
RefuseReuse(c) ==
    /\ pc[c] = "reading"
    /\ \E existing \in Stored(Key(segment[c])) : ~SameBatch(existing, request[c])
    /\ pc' = [pc EXCEPT ![c] = "conflict"]
    /\ UNCHANGED <<storeVars, request, segment, done, minted, faults>>

DeltasOf(key) == {d \in deltas : d.source = key}

\* Mutant of PutDelta: the reply does not wait for the delta.
ReplyUnprojected(c) ==
    /\ pc[c] = "projecting"
    /\ pc' = [pc EXCEPT ![c] = "ok"]
    /\ UNCHANGED <<storeVars, request, segment, done, minted, faults>>

\* projectSource, then the reply: the delta is created or already there with the
\* same bytes; other bytes under its key are FH_PROJECTION_WRITE_FAILED.
PutDelta(c) ==
    /\ pc[c] = "projecting"
    /\ IF Accepts(DeltasOf(Key(segment[c])), Delta(segment[c]))
       THEN /\ deltas' = deltas \union {Delta(segment[c])}
            /\ pc' = [pc EXCEPT ![c] = "ok"]
       ELSE /\ pc' = [pc EXCEPT ![c] = "failed"]
            /\ UNCHANGED deltas
    /\ UNCHANGED <<blobs, segments, request, segment, done, minted, faults>>

-----------------------------------------------------------------------------
\* Failures.

Fail(c) ==
    /\ faults < MaxFaults
    /\ faults' = faults + 1
    /\ pc' = [pc EXCEPT ![c] = "failed"]
    /\ segment' = [segment EXCEPT ![c] = NoID]
    /\ done' = [done EXCEPT ![c] = 0]
    /\ UNCHANGED <<request, minted>>

\* A store call fails without effect, the context is cancelled or the process dies.
Interrupt(c) ==
    /\ pc[c] \in Working
    /\ Fail(c)
    /\ UNCHANGED storeVars

\* A write takes effect but its caller never learns it.
BlobReplyLost(c) ==
    /\ pc[c] = "writing"
    /\ \E i \in DOMAIN segment[c].entries :
          /\ NextBlob(c, i)
          /\ blobs' = blobs \union {segment[c].entries[i].content}
    /\ Fail(c)
    /\ UNCHANGED <<segments, deltas>>

SegmentReplyLost(c) ==
    /\ pc[c] = "writing"
    /\ BlobsDone(c)
    /\ Stored(Key(segment[c])) = {}
    /\ segments' = segments \union {segment[c]}
    /\ Fail(c)
    /\ UNCHANGED <<blobs, deltas>>

DeltaReplyLost(c) ==
    /\ pc[c] = "projecting"
    /\ DeltasOf(Key(segment[c])) = {}
    /\ deltas' = deltas \union {Delta(segment[c])}
    /\ Fail(c)
    /\ UNCHANGED <<blobs, segments>>

-----------------------------------------------------------------------------
Progress(c) ==
    \/ Start(c) \/ Reject(c)
    \/ PutBlob(c) \/ PutSegment(c) \/ SegmentConflict(c)
    \/ AdoptExisting(c) \/ RefuseReuse(c) \/ PutDelta(c)

Failure(c) ==
    \/ Interrupt(c) \/ BlobReplyLost(c) \/ SegmentReplyLost(c) \/ DeltaReplyLost(c)

Next == \E c \in Callers : Progress(c) \/ Failure(c)

Spec == Init /\ [][Next]_vars

\* A request that was sent runs, and its client retries what failed; failures
\* are not promised to happen.
FairSpec == Spec /\ \A c \in Callers : WF_vars(Progress(c))
-----------------------------------------------------------------------------
\* Types.

IDs == {in.id : in \in Inputs} \union
       UNION {{in.entries[i].id : i \in DOMAIN in.entries} : in \in Inputs}
Contents == UNION {{in.entries[i].content : i \in DOMAIN in.entries} : in \in Inputs}
Conversations ==
    UNION {{in.entries[i].conversation : i \in DOMAIN in.entries} : in \in Inputs}

GeneratedID == [call : Nat, entry : Nat]

Entry == [id : (IDs \ {NoID}) \union GeneratedID, content : Contents,
          storage : {"segment", "blob"}]
Segment == [conversation : Conversations, id : (IDs \ {NoID}) \union GeneratedID,
            created : Stamps, entries : Seq(Entry)]

\* Batches are sequences of records; the ids the service generates are fresh: no
\* caller sends one (identity.New draws 128 random bits).
ASSUME BatchAssumption ==
    /\ MaxFaults \in Nat
    /\ NoID \notin GeneratedID
    /\ IDs \intersect GeneratedID = {}
    /\ \A in \in Inputs :
          in.entries \in Seq([conversation : Conversations, id : IDs, content : Contents])

InHand == Working \union {"ok", "conflict"}

\* Every variable has its type, and a call that is under way or was answered
\* has a segment in hand.
TypeOK ==
    /\ blobs \subseteq Contents
    /\ segments \subseteq Segment
    /\ deltas \subseteq [source : Conversations \X ((IDs \ {NoID}) \union GeneratedID),
                         of : Segment]
    /\ request \in [Callers -> Inputs]
    /\ pc \in [Callers -> InHand \union {"idle", "failed", "rejected"}]
    /\ segment \in [Callers -> Segment \union {NoID}]
    /\ \A c \in Callers : pc[c] \in InHand => segment[c] \in Segment
    /\ done \in [Callers -> Nat]
    /\ minted \in Nat
    /\ faults \in 0..MaxFaults

-----------------------------------------------------------------------------
\* Safety.

\* docs/architecture.md: a committed record never points to content that was not
\* durably stored, whatever writer stopped where.
ContentDurable ==
    \A s \in segments : \A i \in DOMAIN s.entries :
        s.entries[i].storage = "blob" => s.entries[i].content \in blobs

\* A delta accounts for the segment committed under its source key and for no
\* other bytes, although it may be written by a caller that did not commit it.
DeltaMatchesSource ==
    \A d \in deltas : Stored(d.source) = {d.of}

\* A caller answered by success was given the committed segment, which is the
\* batch it sent, and the conversation view will account for it.
AckedIsDurable ==
    \A c \in Callers : pc[c] = "ok" =>
        /\ Stored(Key(segment[c])) = {segment[c]}
        /\ DeltasOf(Key(segment[c])) = {Delta(segment[c])}
        /\ Len(segment[c].entries) = Len(request[c].entries)
        /\ \A i \in DOMAIN request[c].entries :
              /\ segment[c].entries[i].content = request[c].entries[i].content
              /\ request[c].entries[i].id # NoID =>
                    segment[c].entries[i].id = request[c].entries[i].id

\* All the calls that succeed with one segment id in one conversation are given
\* the same bytes, ids and times the service made up included.
AcksAgree ==
    \A c, d \in Callers :
        pc[c] = "ok" /\ pc[d] = "ok" /\ Key(segment[c]) = Key(segment[d])
            => segment[c] = segment[d]

\* A writer that reads back after a conflict finds the object it lost to.
ConflictIsReadable ==
    \A c \in Callers : pc[c] = "reading" => Stored(Key(segment[c])) # {}

-----------------------------------------------------------------------------
\* Refinement: what readers and callers see is an ImmutableHistory.

Readable(e) ==
    [id |-> e.id,
     content |-> IF e.storage = "segment" \/ e.content \in blobs THEN e.content ELSE NoID]

View(seg) ==
    [conversation |-> seg.conversation, id |-> seg.id, created |-> seg.created,
     entries |-> [i \in DOMAIN seg.entries |-> Readable(seg.entries[i])]]

History == INSTANCE ImmutableHistory WITH
    history <- {View(s) : s \in segments},
    listed <- {View(d.of) : d \in deltas},
    asked <- request,
    answered <- {<<c, View(segment[c])>> : c \in {x \in Callers : pc[x] = "ok"}},
    refused <- {c \in Callers : pc[c] = "conflict"}

\* The object store protocol of AppendBatch implements ImmutableHistory: a
\* segment becomes visible complete, never changes, and answers are true.
ImplementsHistory == History!Spec

-----------------------------------------------------------------------------
\* Liveness, under FairSpec.

StableKeys ==
    {<<in.entries[1].conversation, in.id>> : in \in {x \in Inputs : x.id # NoID /\ Valid(x)}}

\* A segment committed by a call that then failed is accounted for in the
\* conversation view once its client retries, if the batch had a segment id and
\* its records ids.
CommittedGetsProjected ==
    \A k \in StableKeys : Stored(k) # {} ~> DeltasOf(k) # {}
=============================================================================
