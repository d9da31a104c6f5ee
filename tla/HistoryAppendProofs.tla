------------------------- MODULE HistoryAppendProofs -------------------------
(***************************************************************************)
(* Proofs about HistoryAppend, for every set of callers and batches, every *)
(* inline limit and every number of failures.                               *)
(***************************************************************************)
EXTENDS HistoryAppend, TLAPS, SequenceTheorems

-----------------------------------------------------------------------------
\* The strengthening of the invariants.

\* A segment in hand is the caller's batch, under the caller's key.
HandMatches ==
    \A c \in Callers : pc[c] \in InHand =>
        /\ Valid(request[c])
        /\ SameBatch(segment[c], request[c])
        /\ segment[c].conversation = request[c].entries[1].conversation
        /\ IF request[c].id = NoID THEN segment[c].id \in GeneratedID
                                   ELSE segment[c].id = request[c].id

\* What an attempt has seen to so far is stored.
WrittenBlobs ==
    \A c \in Callers : pc[c] = "writing" =>
        \A i \in DOMAIN segment[c].entries :
            i <= done[c] /\ segment[c].entries[i].storage = "blob"
                => segment[c].entries[i].content \in blobs

OneSegmentPerKey == \A s, t \in segments : Key(s) = Key(t) => s = t

\* Past the segment commit, the segment in hand is the committed one.
HandCommitted ==
    \A c \in Callers : pc[c] \in {"projecting", "ok"} => segment[c] \in segments

DeltasCommitted == \A d \in deltas : d.of \in segments /\ d.source = Key(d.of)

OkListed == \A c \in Callers : pc[c] = "ok" => Delta(segment[c]) \in deltas

\* A conflict was lost to a segment that is there, and not to a generated id.
ConflictFound ==
    \A c \in Callers :
        /\ pc[c] \in {"reading", "conflict"} =>
              Stored(Key(segment[c])) # {} /\ segment[c].id \notin GeneratedID
        /\ pc[c] = "conflict" =>
              \E s \in Stored(Key(segment[c])) : ~SameBatch(s, request[c])

\* A generated id was drawn by one attempt, which has not committed while it writes.
Fresh ==
    /\ \A s \in segments : s.id \in GeneratedID => s.id.call <= minted
    /\ \A c \in Callers : pc[c] \in InHand /\ segment[c].id \in GeneratedID
          => segment[c].id.call <= minted
    /\ \A c \in Callers : pc[c] = "writing" /\ segment[c].id \in GeneratedID
          => /\ \A s \in segments : s.id # segment[c].id
             /\ \A d \in Callers \ {c} : pc[d] \in InHand => segment[d].id # segment[c].id

IInv ==
    /\ TypeOK /\ HandMatches /\ WrittenBlobs /\ ContentDurable
    /\ OneSegmentPerKey /\ HandCommitted /\ DeltasCommitted /\ OkListed
    /\ ConflictFound /\ Fresh

-----------------------------------------------------------------------------
\* The segment an attempt builds.

\* The entries of a segment are entries.
LEMMA SegmentEntries ==
    ASSUME NEW s \in Segment
    PROVE  /\ DOMAIN s.entries = 1..Len(s.entries)
           /\ Len(s.entries) \in Nat
           /\ \A i \in DOMAIN s.entries : s.entries[i] \in Entry
<1>1. s.entries \in Seq(Entry)
  BY DEF Segment
<1>2. QED BY <1>1, LenProperties, ElementOfSeq

\* A valid batch builds a well-formed segment.
LEMMA BuildType ==
    ASSUME NEW c \in Callers, NEW in \in Inputs, NEW stamp \in Stamps,
           NEW gen \in Nat, Valid(in)
    PROVE  Build(c, in, stamp, gen) \in Segment
<1> DEFINE seg == Build(c, in, stamp, gen)
<1>1. in.entries \in Seq([conversation : Conversations, id : IDs, content : Contents])
  BY BatchAssumption
<1>2. in.id \in IDs
  BY DEF IDs
<1>3. /\ DOMAIN in.entries = 1..Len(in.entries)
      /\ Len(in.entries) \in Nat
      /\ \A i \in DOMAIN in.entries :
            in.entries[i] \in [conversation : Conversations, id : IDs, content : Contents]
  <2> DEFINE Sent == [conversation : Conversations, id : IDs, content : Contents]
  <2>1. in.entries \in Seq(Sent)
    BY <1>1
  <2> HIDE DEF Sent
  <2>2. DOMAIN in.entries = 1..Len(in.entries) /\ Len(in.entries) \in Nat
    BY <2>1, LenProperties
  <2>3. \A i \in DOMAIN in.entries : in.entries[i] \in Sent
    BY <2>1, <2>2, ElementOfSeq
  <2>4. QED BY <2>2, <2>3 DEF Sent
<1>4. seg.conversation \in Conversations
  <2>1. 1 \in DOMAIN in.entries
    BY <1>1, <1>3 DEF Valid
  <2>2. QED BY <1>3, <2>1 DEF Build
<1>5. seg.id \in (IDs \ {NoID}) \union GeneratedID
  BY <1>2 DEF Build, Generated, GeneratedID
<1>6. ASSUME NEW i \in DOMAIN in.entries
      PROVE  [id |-> RecordIDs(in, gen)[i], content |-> in.entries[i].content,
              storage |-> Storage(c, in.entries[i].content)] \in Entry
  <2>1. RecordIDs(in, gen)[i] \in (IDs \ {NoID}) \union GeneratedID
    BY <1>3, <1>6 DEF RecordIDs, Generated, GeneratedID
  <2>2. Storage(c, in.entries[i].content) \in {"segment", "blob"}
    BY DEF Storage
  <2>3. QED BY <1>3, <1>6, <2>1, <2>2 DEF Entry
<1>7. seg.entries \in Seq(Entry)
  BY <1>3, <1>6 DEF Build
<1>8. seg.created \in Stamps
  BY DEF Build
<1>9. seg = [conversation |-> seg.conversation, id |-> seg.id,
             created |-> seg.created, entries |-> seg.entries]
  BY DEF Build
<1>10. QED BY <1>4, <1>5, <1>7, <1>8, <1>9 DEF Segment

\* The segment an attempt builds is the batch it was asked for, under its key.
LEMMA BuildMatches ==
    ASSUME NEW c \in Callers, NEW in \in Inputs, NEW stamp \in Stamps,
           NEW gen \in Nat, Valid(in)
    PROVE  LET seg == Build(c, in, stamp, gen)
           IN  /\ SameBatch(seg, in)
               /\ seg.conversation = in.entries[1].conversation
               /\ IF in.id = NoID THEN seg.id = Generated(gen, 0) ELSE seg.id = in.id
<1> DEFINE seg == Build(c, in, stamp, gen)
<1>1. in.entries \in Seq([conversation : Conversations, id : IDs, content : Contents])
  BY BatchAssumption
<1>2. DOMAIN in.entries = 1..Len(in.entries) /\ Len(in.entries) \in Nat
  BY <1>1
<1>3. Len(seg.entries) = Len(in.entries)
  BY <1>2 DEF Build
<1>4. ASSUME NEW i \in DOMAIN in.entries
      PROVE  /\ in.entries[i].content = seg.entries[i].content
             /\ in.entries[i].id \in {NoID, seg.entries[i].id}
             /\ in.entries[i].conversation = seg.conversation
  BY <1>4 DEF Build, RecordIDs, Valid
<1>5. QED BY <1>3, <1>4 DEF Build, SameBatch

-----------------------------------------------------------------------------
\* Type correctness.

LEMMA InitType == Init => TypeOK
BY BatchAssumption DEF Init, TypeOK, InHand, Working

\* Every step keeps the types.
LEMMA NextType == TypeOK /\ [Next]_vars => TypeOK'
<1> SUFFICES ASSUME TypeOK, [Next]_vars PROVE TypeOK'
  OBVIOUS
<1> USE DEF TypeOK, InHand, Working
<1>1. ASSUME NEW c \in Callers, Start(c) PROVE TypeOK'
  <2>1. PICK stamp \in Stamps :
           segment' = [segment EXCEPT ![c] = Build(c, request[c], stamp, minted + 1)]
    BY <1>1 DEF Start
  <2>2. Build(c, request[c], stamp, minted + 1) \in Segment
    BY <1>1, BuildType DEF Start
  <2>3. QED BY <1>1, <2>1, <2>2 DEF Start, storeVars
<1>2. ASSUME NEW c \in Callers, Reject(c) PROVE TypeOK'
  BY <1>2 DEF Reject, storeVars
<1>3. ASSUME NEW c \in Callers, NEW i, NextBlob(c, i), pc[c] = "writing"
      PROVE  segment[c].entries[i].content \in Contents /\ i \in Nat
  <2>1. segment[c] \in Segment
    BY <1>3
  <2>2. i \in Nat /\ segment[c].entries[i] \in Entry
    BY <1>3, <2>1, SegmentEntries DEF NextBlob
  <2>3. QED BY <2>2 DEF Entry
<1>4. ASSUME NEW c \in Callers, PutBlob(c) PROVE TypeOK'
  BY <1>3, <1>4 DEF PutBlob
<1>5. ASSUME NEW c \in Callers, PutSegment(c) PROVE TypeOK'
  BY <1>5 DEF PutSegment
<1>6. ASSUME NEW c \in Callers, SegmentConflict(c) PROVE TypeOK'
  BY <1>6 DEF SegmentConflict, storeVars
<1>7. ASSUME NEW c \in Callers, AdoptExisting(c) PROVE TypeOK'
  BY <1>7 DEF AdoptExisting, storeVars, Stored
<1>8. ASSUME NEW c \in Callers, RefuseReuse(c) PROVE TypeOK'
  BY <1>8 DEF RefuseReuse, storeVars
<1>9. ASSUME NEW s \in Segment
      PROVE  Delta(s) \in [source : Conversations \X ((IDs \ {NoID}) \union GeneratedID),
                           of : Segment]
  BY <1>9 DEF Delta, Key, Segment
<1>10. ASSUME NEW c \in Callers, PutDelta(c) PROVE TypeOK'
  BY <1>9, <1>10 DEF PutDelta
<1>11. ASSUME NEW c \in Callers, Fail(c)
       PROVE  /\ pc' \in [Callers -> InHand \union {"idle", "failed", "rejected"}]
              /\ segment' \in [Callers -> Segment \union {NoID}]
              /\ \A d \in Callers : pc'[d] \in InHand => segment'[d] \in Segment
              /\ done' \in [Callers -> Nat]
              /\ faults' \in 0..MaxFaults
              /\ UNCHANGED <<request, minted>>
  BY <1>11, BatchAssumption DEF Fail
<1>12. ASSUME NEW c \in Callers, Interrupt(c) PROVE TypeOK'
  BY <1>11, <1>12 DEF Interrupt, storeVars
<1>13. ASSUME NEW c \in Callers, BlobReplyLost(c) PROVE TypeOK'
  BY <1>3, <1>11, <1>13 DEF BlobReplyLost
<1>14. ASSUME NEW c \in Callers, SegmentReplyLost(c) PROVE TypeOK'
  BY <1>11, <1>14 DEF SegmentReplyLost
<1>15. ASSUME NEW c \in Callers, DeltaReplyLost(c) PROVE TypeOK'
  BY <1>9, <1>11, <1>15 DEF DeltaReplyLost
<1>16. CASE UNCHANGED vars
  BY <1>16 DEF vars
<1>17. QED
  BY <1>1, <1>2, <1>4, <1>5, <1>6, <1>7, <1>8, <1>10, <1>12, <1>13, <1>14, <1>15, <1>16
  DEF Next, Progress, Failure

\* Every behaviour of the append protocol keeps the type invariant.
THEOREM TypeCorrect == Spec => []TypeOK
<1>1. QED BY InitType, NextType, PTL DEF Spec

-----------------------------------------------------------------------------
\* The inductive invariant.

LEMMA InitIInv == Init => IInv
<1> SUFFICES ASSUME Init PROVE IInv
  OBVIOUS
<1>1. TypeOK
  BY InitType
<1>2. QED
  BY <1>1 DEF Init, IInv, HandMatches, WrittenBlobs, ContentDurable, OneSegmentPerKey,
     HandCommitted, DeltasCommitted, OkListed, ConflictFound, Fresh, InHand, Working

\* An attempt starts with its batch, and with ids nobody has.
LEMMA StartIInv == ASSUME IInv, TypeOK', NEW c \in Callers, Start(c) PROVE IInv'
<1> USE DEF InHand, Working
<1>1. PICK stamp \in Stamps :
         segment' = [segment EXCEPT ![c] = Build(c, request[c], stamp, minted + 1)]
  BY DEF Start
<1> DEFINE seg == Build(c, request[c], stamp, minted + 1)
<1>2. /\ TypeOK /\ Valid(request[c]) /\ request[c] \in Inputs /\ minted \in Nat
      /\ UNCHANGED <<storeVars, request>>
      /\ pc' = [pc EXCEPT ![c] = "writing"]
      /\ done' = [done EXCEPT ![c] = 0]
      /\ pc[c] \notin InHand
  BY DEF Start, IInv, TypeOK
<1>3. /\ SameBatch(seg, request[c])
      /\ seg.conversation = request[c].entries[1].conversation
      /\ IF request[c].id = NoID THEN seg.id = Generated(minted + 1, 0)
                                 ELSE seg.id = request[c].id
  BY <1>2, BuildMatches
<1>4. segment'[c] = seg /\ \A d \in Callers \ {c} : segment'[d] = segment[d] /\ pc'[d] = pc[d]
  BY <1>1, <1>2 DEF TypeOK
<1>5. pc'[c] = "writing" /\ done'[c] = 0
  BY <1>2 DEF TypeOK
<1>6. seg \in Segment
  BY <1>2, BuildType
<1>7. request[c].id = NoID => seg.id \in GeneratedID /\ seg.id.call = minted + 1
  BY <1>2, <1>3 DEF Generated, GeneratedID
<1>8. request[c].id # NoID => seg.id \notin GeneratedID
  BY <1>2, <1>3, BatchAssumption DEF IDs
<1>9. HandMatches'
  BY <1>2, <1>3, <1>4, <1>5, <1>7 DEF IInv, HandMatches
<1>10. WrittenBlobs'
  <2>1. DOMAIN seg.entries \subseteq Nat \ {0}
    BY <1>6, SegmentEntries
  <2>2. QED BY <1>2, <1>4, <1>5, <2>1 DEF IInv, WrittenBlobs, TypeOK, storeVars
<1>11. (ContentDurable /\ OneSegmentPerKey /\ DeltasCommitted)'
  BY <1>2 DEF IInv, ContentDurable, OneSegmentPerKey, DeltasCommitted, storeVars
<1>12. (HandCommitted /\ OkListed)'
  BY <1>2, <1>4, <1>5 DEF IInv, HandCommitted, OkListed, storeVars
<1>13. ConflictFound'
  BY <1>2, <1>4, <1>5 DEF IInv, ConflictFound, storeVars, Stored
<1>14. Fresh'
  <2>1. minted' \in Nat /\ minted <= minted' /\ (request[c].id = NoID => minted' = minted + 1)
    BY <1>2 DEF Start, Mints
  <2>2. \A s \in segments : s.id \in GeneratedID => s.id.call \in Nat /\ s.id.call <= minted
    BY DEF IInv, Fresh, GeneratedID
  <2>3. \A d \in Callers : pc[d] \in InHand /\ segment[d].id \in GeneratedID
           => segment[d].id.call \in Nat /\ segment[d].id.call <= minted
    BY DEF IInv, Fresh, GeneratedID
  <2>4. \A s \in segments' : s.id \in GeneratedID => s.id.call <= minted'
    BY <1>2, <2>1, <2>2 DEF storeVars
  <2>5. \A d \in Callers : pc'[d] \in InHand /\ segment'[d].id \in GeneratedID
           => segment'[d].id.call <= minted'
    BY <1>2, <1>4, <1>5, <1>7, <1>8, <2>1, <2>3
  <2>6. \A d \in Callers : pc'[d] = "writing" /\ segment'[d].id \in GeneratedID
           => /\ \A s \in segments' : s.id # segment'[d].id
              /\ \A e \in Callers \ {d} : pc'[e] \in InHand => segment'[e].id # segment'[d].id
    BY <1>2, <1>4, <1>5, <1>7, <1>8, <2>2, <2>3 DEF storeVars, IInv, Fresh
  <2>7. QED BY <2>4, <2>5, <2>6 DEF Fresh
<1>15. QED BY <1>9, <1>10, <1>11, <1>12, <1>13, <1>14 DEF IInv

\* A blob written adds to what is stored; by or for an attempt that fails too.
LEMMA PutBlobIInv == ASSUME IInv, TypeOK', NEW c \in Callers, PutBlob(c) PROVE IInv'
<1> USE DEF InHand, Working
<1>1. PICK i \in DOMAIN segment[c].entries :
         /\ NextBlob(c, i)
         /\ blobs' = blobs \union {segment[c].entries[i].content}
         /\ done' = [done EXCEPT ![c] = i]
  BY DEF PutBlob
<1>2. /\ TypeOK /\ pc[c] = "writing" /\ segment[c] \in Segment
      /\ UNCHANGED <<segments, deltas, request, pc, segment, minted, faults>>
  BY DEF PutBlob, IInv, TypeOK
<1>3. WrittenBlobs'
  <2>1. ASSUME NEW d \in Callers, pc[d] = "writing", NEW j \in DOMAIN segment[d].entries,
               j <= done'[d], segment[d].entries[j].storage = "blob"
        PROVE  segment[d].entries[j].content \in blobs'
    <3>1. CASE d # c
      BY <1>1, <1>2, <2>1, <3>1 DEF IInv, WrittenBlobs, TypeOK
    <3>2. CASE d = c /\ j <= done[c]
      BY <1>1, <1>2, <2>1, <3>2 DEF IInv, WrittenBlobs
    <3>3. CASE d = c /\ ~(j <= done[c])
      <4>1. j \in Nat /\ i \in Nat /\ done[c] \in Nat /\ done'[c] = i
        BY <1>1, <1>2, <2>1, <3>3, SegmentEntries DEF TypeOK
      <4>2. j = i
        BY <1>1, <2>1, <3>3, <4>1 DEF NextBlob
      <4>3. QED BY <1>1, <3>3, <4>2
    <3>4. QED BY <3>1, <3>2, <3>3
  <2>2. QED BY <1>2, <2>1 DEF WrittenBlobs
<1>4. (HandMatches /\ OneSegmentPerKey /\ HandCommitted /\ DeltasCommitted /\ OkListed
       /\ ConflictFound /\ Fresh)'
  BY <1>2 DEF IInv, HandMatches, OneSegmentPerKey, HandCommitted, DeltasCommitted,
     OkListed, ConflictFound, Fresh, Stored
<1>5. ContentDurable'
  BY <1>1, <1>2 DEF IInv, ContentDurable
<1>6. QED BY <1>3, <1>4, <1>5 DEF IInv

\* What the segment commit adds is complete, new under its key, and the caller's.
LEMMA CommitStores ==
    ASSUME IInv, NEW c \in Callers, pc[c] = "writing", BlobsDone(c),
           Accepts(Stored(Key(segment[c])), segment[c]),
           segments' = segments \union {segment[c]}, UNCHANGED <<blobs, deltas>>
    PROVE  (ContentDurable /\ OneSegmentPerKey /\ DeltasCommitted)'
<1>1. segment[c] \in Segment /\ done[c] \in Nat
  BY DEF IInv, TypeOK, InHand, Working
<1>2. \A i \in DOMAIN segment[c].entries :
         segment[c].entries[i].storage = "blob" => segment[c].entries[i].content \in blobs
  <2>1. ASSUME NEW i \in DOMAIN segment[c].entries, segment[c].entries[i].storage = "blob"
        PROVE  segment[c].entries[i].content \in blobs
    <3>1. i \in Nat
      BY <1>1, SegmentEntries
    <3>2. i <= done[c]
      BY <1>1, <2>1, <3>1 DEF BlobsDone
    <3>3. QED BY <2>1, <3>2 DEF IInv, WrittenBlobs
  <2>2. QED BY <2>1
<1>3. \A s \in segments : Key(s) = Key(segment[c]) => s = segment[c]
  BY DEF Accepts, Stored
<1>4. QED BY <1>2, <1>3 DEF IInv, ContentDurable, OneSegmentPerKey, DeltasCommitted

LEMMA PutSegmentIInv == ASSUME IInv, TypeOK', NEW c \in Callers, PutSegment(c) PROVE IInv'
<1> USE DEF InHand, Working
<1>1. /\ TypeOK /\ pc[c] = "writing" /\ BlobsDone(c)
      /\ Accepts(Stored(Key(segment[c])), segment[c])
      /\ segments' = segments \union {segment[c]}
      /\ pc' = [pc EXCEPT ![c] = "projecting"]
      /\ UNCHANGED <<blobs, deltas, request, segment, done, minted, faults>>
  BY DEF PutSegment, IInv
<1>2. pc'[c] = "projecting" /\ \A d \in Callers \ {c} : pc'[d] = pc[d]
  BY <1>1 DEF TypeOK
<1>3. (ContentDurable /\ OneSegmentPerKey /\ DeltasCommitted)'
  BY <1>1, CommitStores
<1>4. (HandMatches /\ WrittenBlobs /\ HandCommitted /\ OkListed)'
  BY <1>1, <1>2 DEF IInv, HandMatches, WrittenBlobs, HandCommitted, OkListed
<1>5. ConflictFound'
  <2>1. Stored(Key(segment[c])) \subseteq Stored(Key(segment[c]))'
    BY <1>1 DEF Stored
  <2>2. \A d \in Callers : Stored(Key(segment[d])) \subseteq Stored(Key(segment[d]))'
    BY <1>1 DEF Stored
  <2>3. QED BY <1>1, <1>2, <2>2 DEF IInv, ConflictFound
<1>6. Fresh'
  BY <1>1, <1>2 DEF IInv, Fresh
<1>7. QED BY <1>3, <1>4, <1>5, <1>6 DEF IInv

LEMMA SegmentConflictIInv ==
    ASSUME IInv, TypeOK', NEW c \in Callers, SegmentConflict(c) PROVE IInv'
<1> USE DEF InHand, Working
<1>1. /\ TypeOK /\ pc[c] = "writing"
      /\ ~Accepts(Stored(Key(segment[c])), segment[c])
      /\ pc' = [pc EXCEPT ![c] = "reading"]
      /\ UNCHANGED <<storeVars, request, segment, done, minted, faults>>
  BY DEF SegmentConflict, IInv
<1>2. pc'[c] = "reading" /\ \A d \in Callers \ {c} : pc'[d] = pc[d]
  BY <1>1 DEF TypeOK
<1>3. (HandMatches /\ WrittenBlobs /\ ContentDurable /\ OneSegmentPerKey /\ HandCommitted
       /\ DeltasCommitted /\ OkListed /\ Fresh)'
  BY <1>1, <1>2 DEF IInv, HandMatches, WrittenBlobs, ContentDurable, OneSegmentPerKey,
     HandCommitted, DeltasCommitted, OkListed, Fresh, storeVars
<1>4. PICK s \in segments : Key(s) = Key(segment[c])
  BY <1>1 DEF Accepts, Stored
<1>5. s.id = segment[c].id
  BY <1>4 DEF Key
<1>6. segment[c].id \notin GeneratedID
  BY <1>1, <1>5 DEF IInv, Fresh
<1>7. ConflictFound'
  BY <1>1, <1>2, <1>4, <1>6 DEF IInv, ConflictFound, storeVars, Stored
<1>8. QED BY <1>3, <1>7 DEF IInv

LEMMA AdoptExistingIInv ==
    ASSUME IInv, TypeOK', NEW c \in Callers, AdoptExisting(c) PROVE IInv'
<1> USE DEF InHand, Working
<1>1. PICK s \in segments :
         /\ Key(s) = Key(segment[c])
         /\ SameBatch(s, request[c])
         /\ segment' = [segment EXCEPT ![c] = s]
  BY DEF AdoptExisting, Stored
<1>2. /\ TypeOK /\ pc[c] = "reading"
      /\ pc' = [pc EXCEPT ![c] = "projecting"]
      /\ UNCHANGED <<storeVars, request, done, minted, faults>>
  BY DEF AdoptExisting, IInv
<1>3. /\ pc'[c] = "projecting" /\ segment'[c] = s
      /\ \A d \in Callers \ {c} : pc'[d] = pc[d] /\ segment'[d] = segment[d]
  BY <1>1, <1>2 DEF TypeOK
<1>4. s.id = segment[c].id /\ s.conversation = segment[c].conversation
  BY <1>1 DEF Key
<1>5. HandMatches'
  BY <1>1, <1>2, <1>3, <1>4 DEF IInv, HandMatches
<1>6. (WrittenBlobs /\ ContentDurable /\ OneSegmentPerKey /\ HandCommitted
       /\ DeltasCommitted /\ OkListed)'
  BY <1>1, <1>2, <1>3 DEF IInv, WrittenBlobs, ContentDurable, OneSegmentPerKey,
     HandCommitted, DeltasCommitted, OkListed, storeVars
<1>7. ConflictFound'
  BY <1>2, <1>3 DEF IInv, ConflictFound, storeVars, Stored
<1>8. Fresh'
  BY <1>1, <1>2, <1>3 DEF IInv, Fresh, storeVars
<1>9. QED BY <1>5, <1>6, <1>7, <1>8 DEF IInv

LEMMA RefuseReuseIInv ==
    ASSUME IInv, TypeOK', NEW c \in Callers, RefuseReuse(c) PROVE IInv'
<1> USE DEF InHand, Working
<1>1. /\ TypeOK /\ pc[c] = "reading"
      /\ \E s \in Stored(Key(segment[c])) : ~SameBatch(s, request[c])
      /\ pc' = [pc EXCEPT ![c] = "conflict"]
      /\ UNCHANGED <<storeVars, request, segment, done, minted, faults>>
  BY DEF RefuseReuse, IInv
<1>2. pc'[c] = "conflict" /\ \A d \in Callers \ {c} : pc'[d] = pc[d]
  BY <1>1 DEF TypeOK
<1>3. (HandMatches /\ WrittenBlobs /\ ContentDurable /\ OneSegmentPerKey /\ HandCommitted
       /\ DeltasCommitted /\ OkListed /\ Fresh)'
  BY <1>1, <1>2 DEF IInv, HandMatches, WrittenBlobs, ContentDurable, OneSegmentPerKey,
     HandCommitted, DeltasCommitted, OkListed, Fresh, storeVars
<1>4. ConflictFound'
  BY <1>1, <1>2 DEF IInv, ConflictFound, storeVars, Stored
<1>5. QED BY <1>3, <1>4 DEF IInv

\* A delta is written for the committed segment, so it meets no other bytes.
LEMMA DeltaAccepted ==
    ASSUME IInv, NEW c \in Callers, pc[c] = "projecting"
    PROVE  /\ segment[c] \in segments
           /\ Accepts(DeltasOf(Key(segment[c])), Delta(segment[c]))
<1>1. segment[c] \in segments
  BY DEF IInv, HandCommitted
<1>2. ASSUME NEW d \in deltas, d.source = Key(segment[c])
      PROVE  d = Delta(segment[c])
  <2>1. d.of = segment[c]
    BY <1>1, <1>2 DEF IInv, DeltasCommitted, OneSegmentPerKey
  <2>2. d = [source |-> d.source, of |-> d.of]
    BY DEF IInv, TypeOK
  <2>3. QED BY <1>2, <2>1, <2>2 DEF Delta
<1>3. QED BY <1>1, <1>2 DEF Accepts, DeltasOf

LEMMA PutDeltaIInv == ASSUME IInv, TypeOK', NEW c \in Callers, PutDelta(c) PROVE IInv'
<1> USE DEF InHand, Working
<1>1. segment[c] \in segments /\ Accepts(DeltasOf(Key(segment[c])), Delta(segment[c]))
  BY DeltaAccepted DEF PutDelta
<1>2. /\ TypeOK /\ pc[c] = "projecting"
      /\ deltas' = deltas \union {Delta(segment[c])}
      /\ pc' = [pc EXCEPT ![c] = "ok"]
      /\ UNCHANGED <<blobs, segments, request, segment, done, minted, faults>>
  BY <1>1 DEF PutDelta, IInv
<1>3. pc'[c] = "ok" /\ \A d \in Callers \ {c} : pc'[d] = pc[d]
  BY <1>2 DEF TypeOK
<1>4. (HandMatches /\ WrittenBlobs /\ ContentDurable /\ OneSegmentPerKey /\ HandCommitted
       /\ OkListed /\ Fresh)'
  BY <1>2, <1>3 DEF IInv, HandMatches, WrittenBlobs, ContentDurable, OneSegmentPerKey,
     HandCommitted, OkListed, Fresh
<1>5. DeltasCommitted'
  BY <1>1, <1>2 DEF IInv, DeltasCommitted, Delta
<1>6. ConflictFound'
  BY <1>2, <1>3 DEF IInv, ConflictFound, Stored
<1>7. QED BY <1>4, <1>5, <1>6 DEF IInv

\* A failure takes the segment out of the caller's hand and nothing else.
LEMMA FailKeeps ==
    ASSUME IInv, NEW c \in Callers, pc[c] \in Working, Fail(c), UNCHANGED storeVars
    PROVE  (HandMatches /\ WrittenBlobs /\ ContentDurable /\ OneSegmentPerKey
            /\ HandCommitted /\ DeltasCommitted /\ OkListed /\ ConflictFound /\ Fresh)'
<1> USE DEF InHand, Working
<1>1. /\ TypeOK
      /\ pc' = [pc EXCEPT ![c] = "failed"]
      /\ UNCHANGED <<storeVars, request, minted>>
      /\ segment' = [segment EXCEPT ![c] = NoID]
      /\ done' = [done EXCEPT ![c] = 0]
  BY DEF Fail, IInv
<1>2. /\ pc'[c] = "failed"
      /\ \A d \in Callers \ {c} :
            pc'[d] = pc[d] /\ segment'[d] = segment[d] /\ done'[d] = done[d]
  BY <1>1 DEF TypeOK
<1>3. (HandMatches /\ HandCommitted /\ OkListed)'
  BY <1>1, <1>2 DEF IInv, HandMatches, HandCommitted, OkListed, storeVars
<1>4. WrittenBlobs'
  BY <1>1, <1>2 DEF IInv, WrittenBlobs, storeVars
<1>5. (ContentDurable /\ OneSegmentPerKey /\ DeltasCommitted)'
  BY <1>1 DEF IInv, ContentDurable, OneSegmentPerKey, DeltasCommitted, storeVars
<1>6. ConflictFound'
  BY <1>1, <1>2 DEF IInv, ConflictFound, storeVars, Stored
<1>7. Fresh'
  BY <1>1, <1>2 DEF IInv, Fresh, storeVars
<1>8. QED BY <1>3, <1>4, <1>5, <1>6, <1>7

LEMMA InterruptIInv == ASSUME IInv, TypeOK', NEW c \in Callers, Interrupt(c) PROVE IInv'
BY FailKeeps DEF Interrupt, IInv

LEMMA BlobReplyLostIInv ==
    ASSUME IInv, TypeOK', NEW c \in Callers, BlobReplyLost(c) PROVE IInv'
<1> USE DEF InHand, Working
<1>1. PICK b : blobs' = blobs \union {b}
  BY DEF BlobReplyLost
<1>2. /\ TypeOK /\ UNCHANGED <<segments, deltas, request, minted>>
      /\ pc' = [pc EXCEPT ![c] = "failed"]
      /\ segment' = [segment EXCEPT ![c] = NoID]
      /\ done' = [done EXCEPT ![c] = 0]
  BY DEF BlobReplyLost, Fail, IInv
<1>3. /\ pc'[c] = "failed"
      /\ \A d \in Callers \ {c} :
            pc'[d] = pc[d] /\ segment'[d] = segment[d] /\ done'[d] = done[d]
  BY <1>2 DEF TypeOK
<1>4. (HandMatches /\ HandCommitted /\ OkListed)'
  BY <1>2, <1>3 DEF IInv, HandMatches, HandCommitted, OkListed
<1>5. WrittenBlobs'
  BY <1>1, <1>2, <1>3 DEF IInv, WrittenBlobs
<1>6. (ContentDurable /\ OneSegmentPerKey /\ DeltasCommitted)'
  BY <1>1, <1>2 DEF IInv, ContentDurable, OneSegmentPerKey, DeltasCommitted
<1>7. ConflictFound'
  BY <1>2, <1>3 DEF IInv, ConflictFound, Stored
<1>8. Fresh'
  BY <1>2, <1>3 DEF IInv, Fresh
<1>9. QED BY <1>4, <1>5, <1>6, <1>7, <1>8 DEF IInv

LEMMA SegmentReplyLostIInv ==
    ASSUME IInv, TypeOK', NEW c \in Callers, SegmentReplyLost(c) PROVE IInv'
<1> USE DEF InHand, Working
<1>1. /\ TypeOK /\ pc[c] = "writing" /\ BlobsDone(c)
      /\ Stored(Key(segment[c])) = {}
      /\ segments' = segments \union {segment[c]}
      /\ UNCHANGED <<blobs, deltas, request, minted>>
      /\ pc' = [pc EXCEPT ![c] = "failed"]
      /\ segment' = [segment EXCEPT ![c] = NoID]
      /\ done' = [done EXCEPT ![c] = 0]
  BY DEF SegmentReplyLost, Fail, IInv
<1>2. /\ pc'[c] = "failed"
      /\ \A d \in Callers \ {c} :
            pc'[d] = pc[d] /\ segment'[d] = segment[d] /\ done'[d] = done[d]
  BY <1>1 DEF TypeOK
<1>3. (ContentDurable /\ OneSegmentPerKey /\ DeltasCommitted)'
  BY <1>1, CommitStores DEF Accepts
<1>4. (HandMatches /\ WrittenBlobs /\ HandCommitted /\ OkListed)'
  BY <1>1, <1>2 DEF IInv, HandMatches, WrittenBlobs, HandCommitted, OkListed
<1>5. ConflictFound'
  <2>1. \A d \in Callers \ {c} : Stored(Key(segment[d])) \subseteq Stored(Key(segment[d]))'
    BY <1>1, <1>2 DEF Stored
  <2>2. QED BY <1>1, <1>2, <2>1 DEF IInv, ConflictFound
<1>6. Fresh'
  BY <1>1, <1>2 DEF IInv, Fresh
<1>7. QED BY <1>3, <1>4, <1>5, <1>6 DEF IInv

LEMMA DeltaReplyLostIInv ==
    ASSUME IInv, TypeOK', NEW c \in Callers, DeltaReplyLost(c) PROVE IInv'
<1> USE DEF InHand, Working
<1>1. segment[c] \in segments
  BY DeltaAccepted DEF DeltaReplyLost
<1>2. /\ TypeOK
      /\ deltas' = deltas \union {Delta(segment[c])}
      /\ UNCHANGED <<blobs, segments, request, minted>>
      /\ pc' = [pc EXCEPT ![c] = "failed"]
      /\ segment' = [segment EXCEPT ![c] = NoID]
      /\ done' = [done EXCEPT ![c] = 0]
  BY DEF DeltaReplyLost, Fail, IInv
<1>3. /\ pc'[c] = "failed"
      /\ \A d \in Callers \ {c} :
            pc'[d] = pc[d] /\ segment'[d] = segment[d] /\ done'[d] = done[d]
  BY <1>2 DEF TypeOK
<1>4. (HandMatches /\ WrittenBlobs /\ HandCommitted /\ OkListed)'
  BY <1>2, <1>3 DEF IInv, HandMatches, WrittenBlobs, HandCommitted, OkListed
<1>5. (ContentDurable /\ OneSegmentPerKey)'
  BY <1>2 DEF IInv, ContentDurable, OneSegmentPerKey
<1>6. DeltasCommitted'
  BY <1>1, <1>2 DEF IInv, DeltasCommitted, Delta
<1>7. ConflictFound'
  BY <1>2, <1>3 DEF IInv, ConflictFound, Stored
<1>8. Fresh'
  BY <1>2, <1>3 DEF IInv, Fresh
<1>9. QED BY <1>4, <1>5, <1>6, <1>7, <1>8 DEF IInv

LEMMA NextIInv == IInv /\ [Next]_vars => IInv'
<1> SUFFICES ASSUME IInv, [Next]_vars PROVE IInv'
  OBVIOUS
<1>1. TypeOK'
  BY NextType DEF IInv
<1>2. ASSUME NEW c \in Callers, Reject(c) PROVE IInv'
  <2>1. /\ TypeOK /\ pc' = [pc EXCEPT ![c] = "rejected"]
        /\ UNCHANGED <<storeVars, request, segment, done, minted, faults>>
    BY <1>2 DEF Reject, IInv
  <2>2. pc'[c] = "rejected" /\ \A d \in Callers \ {c} : pc'[d] = pc[d]
    BY <2>1 DEF TypeOK
  <2>3. QED
    BY <1>1, <2>1, <2>2 DEF IInv, HandMatches, WrittenBlobs, ContentDurable,
       OneSegmentPerKey, HandCommitted, DeltasCommitted, OkListed, ConflictFound,
       Fresh, Stored, storeVars, InHand, Working
<1>3. CASE UNCHANGED vars
  BY <1>1, <1>3 DEF IInv, HandMatches, WrittenBlobs, ContentDurable,
     OneSegmentPerKey, HandCommitted, DeltasCommitted, OkListed, ConflictFound,
     Fresh, Stored, vars
<1>4. ASSUME NEW c \in Callers, Progress(c) PROVE IInv'
  BY <1>1, <1>2, <1>4, StartIInv, PutBlobIInv, PutSegmentIInv, SegmentConflictIInv,
     AdoptExistingIInv, RefuseReuseIInv, PutDeltaIInv DEF Progress
<1>5. ASSUME NEW c \in Callers, Failure(c) PROVE IInv'
  BY <1>1, <1>5, InterruptIInv, BlobReplyLostIInv, SegmentReplyLostIInv,
     DeltaReplyLostIInv DEF Failure
<1>6. QED BY <1>3, <1>4, <1>5 DEF Next

\* The strengthening is an invariant, whatever call, retry or failure comes next.
THEOREM Inductive == Spec => []IInv
<1>1. QED BY InitIInv, NextIInv, PTL DEF Spec

\* No committed record points to content that is not stored, whoever stops where.
THEOREM ContentIsDurable == Spec => []ContentDurable
<1>1. IInv => ContentDurable
  BY DEF IInv
<1>2. QED BY <1>1, Inductive, PTL

\* The projection accounts for each source by the bytes committed under its key.
THEOREM ProjectionMatches == Spec => []DeltaMatchesSource
<1>1. IInv => DeltaMatchesSource
  BY DEF IInv, DeltaMatchesSource, DeltasCommitted, OneSegmentPerKey, Stored
<1>2. QED BY <1>1, Inductive, PTL

\* An append that succeeded is committed, is what was sent and is listed.
THEOREM AckIsDurable == Spec => []AckedIsDurable
<1>1. ASSUME IInv, NEW c \in Callers, pc[c] = "ok"
      PROVE  /\ Stored(Key(segment[c])) = {segment[c]}
             /\ DeltasOf(Key(segment[c])) = {Delta(segment[c])}
  <2>1. segment[c] \in segments /\ Delta(segment[c]) \in deltas
    BY <1>1 DEF IInv, HandCommitted, OkListed
  <2>2. Stored(Key(segment[c])) = {segment[c]}
    BY <1>1, <2>1 DEF IInv, OneSegmentPerKey, Stored
  <2>3. ASSUME NEW d \in deltas, d.source = Key(segment[c])
        PROVE  d = Delta(segment[c])
    <3>1. d.of = segment[c]
      BY <1>1, <2>1, <2>3 DEF IInv, DeltasCommitted, OneSegmentPerKey
    <3>2. d = [source |-> d.source, of |-> d.of]
      BY <1>1 DEF IInv, TypeOK
    <3>3. QED BY <2>3, <3>1, <3>2 DEF Delta
  <2>4. Delta(segment[c]).source = Key(segment[c])
    BY DEF Delta
  <2>5. QED BY <2>1, <2>2, <2>3, <2>4 DEF DeltasOf
<1>2. ASSUME IInv, NEW c \in Callers, pc[c] = "ok"
      PROVE  SameBatch(segment[c], request[c])
  BY <1>2 DEF IInv, HandMatches, InHand
<1>3. IInv => AckedIsDurable
  BY <1>1, <1>2 DEF AckedIsDurable, SameBatch
<1>4. QED BY <1>3, Inductive, PTL

\* Whoever loses a segment id to another writer finds the winner's segment when it
\* reads the id back, and need not fail as if the object had vanished (segment.go).
THEOREM ConflictsAreReadable == Spec => []ConflictIsReadable
<1>1. IInv => ConflictIsReadable
  BY DEF IInv, ConflictIsReadable, ConflictFound
<1>2. QED BY <1>1, Inductive, PTL

\* Successes under one key are given the same bytes.
THEOREM AcksAlwaysAgree == Spec => []AcksAgree
<1>1. IInv => AcksAgree
  BY DEF IInv, AcksAgree, HandCommitted, OneSegmentPerKey
<1>2. QED BY <1>1, Inductive, PTL

-----------------------------------------------------------------------------
\* Refinement of ImmutableHistory.

\* What a reader gets of a segment whose blobs are all there.
Plain(seg) ==
    [conversation |-> seg.conversation, id |-> seg.id, created |-> seg.created,
     entries |-> [i \in DOMAIN seg.entries |->
                    [id |-> seg.entries[i].id, content |-> seg.entries[i].content]]]

PlainHistory == {Plain(s) : s \in segments}
PlainListed == {Plain(d.of) : d \in deltas}
PlainAnswered == {<<c, Plain(segment[c])>> : c \in {x \in Callers : pc[x] = "ok"}}

MapsPlain ==
    /\ {View(s) : s \in segments} = PlainHistory
    /\ {View(d.of) : d \in deltas} = PlainListed
    /\ {<<c, View(segment[c])>> : c \in {x \in Callers : pc[x] = "ok"}} = PlainAnswered

\* The mapped variables depend on the blobs only through the invariant.
LEMMA Mapped == IInv => MapsPlain
<1> SUFFICES ASSUME IInv PROVE MapsPlain
  OBVIOUS
<1>1. ASSUME NEW s \in segments PROVE View(s) = Plain(s)
  <2>1. ASSUME NEW i \in DOMAIN s.entries
        PROVE  Readable(s.entries[i])
                  = [id |-> s.entries[i].id, content |-> s.entries[i].content]
    <3>1. s \in Segment
      BY DEF IInv, TypeOK
    <3>2. s.entries[i].storage \in {"segment", "blob"}
      BY <2>1, <3>1, SegmentEntries DEF Entry
    <3>3. s.entries[i].storage = "blob" => s.entries[i].content \in blobs
      BY <2>1 DEF IInv, ContentDurable
    <3>4. QED BY <3>2, <3>3 DEF Readable
  <2>2. QED BY <2>1 DEF View, Plain
<1>2. {View(s) : s \in segments} = PlainHistory
  BY <1>1 DEF PlainHistory
<1>3. {View(d.of) : d \in deltas} = PlainListed
  <2>1. \A d \in deltas : View(d.of) = Plain(d.of)
    BY <1>1 DEF IInv, DeltasCommitted
  <2>2. QED BY <2>1 DEF PlainListed
<1>4. {<<c, View(segment[c])>> : c \in {x \in Callers : pc[x] = "ok"}} = PlainAnswered
  <2>1. \A c \in Callers : pc[c] = "ok" => View(segment[c]) = Plain(segment[c])
    BY <1>1 DEF IInv, HandCommitted
  <2>2. QED BY <2>1 DEF PlainAnswered
<1>5. QED BY <1>2, <1>3, <1>4 DEF MapsPlain

LEMMA MappedNext == IInv' => MapsPlain'
BY Mapped, PTL

\* A committed segment can be read in full.
LEMMA PlainComplete ==
    ASSUME NEW s \in Segment
    PROVE  /\ History!Complete(Plain(s))
           /\ Plain(s).conversation = s.conversation
           /\ Plain(s).id = s.id
<1>1. \A i \in DOMAIN s.entries : s.entries[i].content \in Contents
  BY SegmentEntries DEF Entry
<1>2. QED BY <1>1 DEF History!Complete, Plain

\* The abstract and the detailed comparison with a batch agree.
LEMMA HoldsIsSameBatch ==
    ASSUME NEW s \in Segment, NEW in \in Inputs
    PROVE  History!Holds(Plain(s), in) <=> SameBatch(s, in)
<1>1. in.entries \in Seq([conversation : Conversations, id : IDs, content : Contents])
  BY BatchAssumption
<1>2. DOMAIN in.entries = 1..Len(in.entries) /\ Len(in.entries) \in Nat
  BY <1>1
<1>3. DOMAIN s.entries = 1..Len(s.entries) /\ Len(s.entries) \in Nat
  BY SegmentEntries
<1>4. Len(Plain(s).entries) = Len(s.entries)
  BY <1>3 DEF Plain
<1>5. \A i \in DOMAIN s.entries : /\ Plain(s).entries[i].content = s.entries[i].content
                                  /\ Plain(s).entries[i].id = s.entries[i].id
  BY DEF Plain
<1>6. Plain(s).conversation = s.conversation
  BY DEF Plain
<1>7. QED
  BY <1>2, <1>3, <1>4, <1>5, <1>6 DEF History!Holds, SameBatch

\* A delta added lists its source.
LEMMA DeltaLists ==
    ASSUME NEW s, deltas' = deltas \union {Delta(s)}
    PROVE  PlainListed' = PlainListed \union {Plain(s)}
<1>1. Delta(s).of = s
  BY DEF Delta
<1>2. \A x : x \in PlainListed' <=> x \in PlainListed \/ x = Plain(Delta(s).of)
  BY DEF PlainListed
<1>3. QED BY <1>1, <1>2

LEMMA InitRefines == Init => History!Init
BY DEF Init, History!Init

\* A step that commits the segment in hand is a Commit of the abstract history.
LEMMA CommitRefines ==
    ASSUME IInv, IInv', NEW c \in Callers, pc[c] = "writing",
           Stored(Key(segment[c])) = {}, segments' = segments \union {segment[c]},
           UNCHANGED <<deltas, request>>, PlainAnswered' = PlainAnswered,
           {x \in Callers : pc[x] = "conflict"}' = {x \in Callers : pc[x] = "conflict"}
    PROVE  History!Next
<1> DEFINE s == Plain(segment[c])
<1>1. segment[c] \in Segment /\ segments \subseteq Segment
  BY DEF IInv, TypeOK, InHand, Working
<1>2. PlainHistory' = PlainHistory \union {s}
  BY DEF PlainHistory
<1>3. PlainListed' = PlainListed
  BY DEF PlainListed
<1>4. History!Complete(s)
  BY <1>1, PlainComplete
<1>5. \A t \in PlainHistory : ~History!SameKey(s, t)
  BY <1>1, PlainComplete DEF PlainHistory, History!SameKey, Stored, Key
<1>6. MapsPlain /\ MapsPlain'
  BY Mapped, MappedNext
<1>7. History!Commit(s)
  BY <1>2, <1>3, <1>4, <1>5, <1>6 DEF History!Commit, MapsPlain
<1>8. s \in {View(x) : x \in segments}'
  BY <1>2, <1>6 DEF MapsPlain
<1>9. QED BY <1>7, <1>8 DEF History!Next

\* Every step is a step of the abstract history or leaves it as it is.
LEMMA NextRefines == IInv /\ IInv' /\ [Next]_vars => [History!Next]_(History!vars)
<1> SUFFICES ASSUME IInv, IInv', [Next]_vars PROVE [History!Next]_(History!vars)
  OBVIOUS
<1> USE DEF InHand, Working
<1>1. TypeOK /\ TypeOK' /\ MapsPlain /\ MapsPlain'
  BY Mapped, MappedNext DEF IInv
\* Steps that change neither the stored objects nor the answers.
<1>2. ASSUME UNCHANGED <<segments, deltas, request>>,
             NEW c \in Callers, pc[c] \notin {"ok", "conflict"},
             pc'[c] \notin {"ok", "conflict"},
             \A d \in Callers \ {c} : pc'[d] = pc[d] /\ segment'[d] = segment[d]
      PROVE  UNCHANGED History!vars
  <2>1. PlainHistory' = PlainHistory /\ PlainListed' = PlainListed
    BY <1>2 DEF PlainHistory, PlainListed
  <2>2. PlainAnswered' = PlainAnswered
    BY <1>2 DEF PlainAnswered
  <2>3. {x \in Callers : pc[x] = "conflict"}' = {x \in Callers : pc[x] = "conflict"}
    BY <1>2
  <2>4. QED BY <1>1, <1>2, <2>1, <2>2, <2>3 DEF History!vars, MapsPlain
<1>3. ASSUME NEW c \in Callers, Start(c) PROVE UNCHANGED History!vars
  <2>1. /\ UNCHANGED <<segments, deltas, request>> /\ pc[c] \in {"idle", "failed"}
        /\ pc'[c] = "writing"
        /\ \A d \in Callers \ {c} : pc'[d] = pc[d] /\ segment'[d] = segment[d]
    BY <1>1, <1>3 DEF Start, storeVars, TypeOK
  <2>2. QED BY <1>2, <2>1
<1>4. ASSUME NEW c \in Callers, Reject(c) PROVE UNCHANGED History!vars
  BY <1>1, <1>2, <1>4 DEF Reject, storeVars, TypeOK
<1>5. ASSUME NEW c \in Callers, PutBlob(c) PROVE UNCHANGED History!vars
  BY <1>1, <1>2, <1>5 DEF PutBlob, TypeOK
<1>6. ASSUME NEW c \in Callers, SegmentConflict(c) PROVE UNCHANGED History!vars
  BY <1>1, <1>2, <1>6 DEF SegmentConflict, storeVars, TypeOK
<1>7. ASSUME NEW c \in Callers, AdoptExisting(c) PROVE UNCHANGED History!vars
  <2>1. /\ UNCHANGED <<segments, deltas, request>> /\ pc[c] = "reading"
        /\ pc'[c] = "projecting"
        /\ \A d \in Callers \ {c} : pc'[d] = pc[d] /\ segment'[d] = segment[d]
    BY <1>1, <1>7 DEF AdoptExisting, storeVars, TypeOK
  <2>2. QED BY <1>2, <2>1
<1>8. ASSUME NEW c \in Callers, pc[c] \in Working, Fail(c)
      PROVE  /\ pc'[c] = "failed" /\ UNCHANGED request
             /\ \A d \in Callers \ {c} : pc'[d] = pc[d] /\ segment'[d] = segment[d]
             /\ PlainAnswered' = PlainAnswered
             /\ {x \in Callers : pc[x] = "conflict"}' = {x \in Callers : pc[x] = "conflict"}
  <2>1. /\ pc'[c] = "failed" /\ UNCHANGED request
        /\ \A d \in Callers \ {c} : pc'[d] = pc[d] /\ segment'[d] = segment[d]
    BY <1>1, <1>8 DEF Fail, TypeOK
  <2>2. QED BY <1>8, <2>1 DEF PlainAnswered
<1>9. ASSUME NEW c \in Callers, Interrupt(c) PROVE UNCHANGED History!vars
  BY <1>2, <1>8, <1>9 DEF Interrupt, storeVars
<1>10. ASSUME NEW c \in Callers, BlobReplyLost(c) PROVE UNCHANGED History!vars
  BY <1>2, <1>8, <1>10 DEF BlobReplyLost
<1>11. ASSUME NEW c \in Callers, PutSegment(c) PROVE [History!Next]_(History!vars)
  <2>1. /\ UNCHANGED <<deltas, request, segment>> /\ pc[c] = "writing"
        /\ pc'[c] = "projecting" /\ \A d \in Callers \ {c} : pc'[d] = pc[d]
        /\ segments' = segments \union {segment[c]}
    BY <1>1, <1>11 DEF PutSegment, TypeOK
  <2>2. CASE Stored(Key(segment[c])) = {}
    <3>1. PlainAnswered' = PlainAnswered
      BY <2>1 DEF PlainAnswered
    <3>2. {x \in Callers : pc[x] = "conflict"}' = {x \in Callers : pc[x] = "conflict"}
      BY <2>1
    <3>3. QED BY <2>1, <2>2, <3>1, <3>2, CommitRefines
  <2>3. CASE Stored(Key(segment[c])) # {}
    <3>1. segment[c] \in segments
      BY <1>11, <2>3 DEF PutSegment, Accepts, Stored
    <3>2. segments' = segments
      BY <2>1, <3>1
    <3>3. QED BY <1>2, <2>1, <3>2
  <2>4. QED BY <2>2, <2>3
<1>12. ASSUME NEW c \in Callers, SegmentReplyLost(c) PROVE History!Next
  BY <1>8, <1>12, CommitRefines DEF SegmentReplyLost
<1>13. ASSUME NEW c \in Callers, RefuseReuse(c) PROVE History!Next
  <2>1. PICK s \in segments : Key(s) = Key(segment[c]) /\ ~SameBatch(s, request[c])
    BY <1>13 DEF RefuseReuse, Stored
  <2>2. /\ UNCHANGED <<segments, deltas, request, segment>> /\ pc[c] = "reading"
        /\ pc'[c] = "conflict" /\ \A d \in Callers \ {c} : pc'[d] = pc[d]
    BY <1>1, <1>13 DEF RefuseReuse, storeVars, TypeOK
  <2>3. s \in Segment /\ request[c] \in Inputs /\ Plain(s) \in PlainHistory
    BY <1>1, <2>1 DEF TypeOK, PlainHistory
  <2>4. /\ s.id = request[c].id
        /\ s.conversation = request[c].entries[1].conversation
    <3>1. s.id = segment[c].id /\ s.conversation = segment[c].conversation
      BY <2>1 DEF Key
    <3>2. segment[c].id \notin GeneratedID
      BY <2>2 DEF IInv, ConflictFound
    <3>3. QED BY <2>2, <3>1, <3>2 DEF IInv, HandMatches
  <2>5. /\ Plain(s).id = request[c].id
        /\ Plain(s).conversation = request[c].entries[1].conversation
        /\ ~History!Holds(Plain(s), request[c])
    BY <2>1, <2>3, <2>4, PlainComplete, HoldsIsSameBatch
  <2>6. {x \in Callers : pc[x] = "conflict"}'
           = {x \in Callers : pc[x] = "conflict"} \union {c}
    BY <2>2
  <2>7. PlainAnswered' = PlainAnswered
    BY <2>2 DEF PlainAnswered
  <2>8. PlainHistory' = PlainHistory /\ PlainListed' = PlainListed
    BY <2>2 DEF PlainHistory, PlainListed
  <2>9. History!Refuse(c)
    BY <1>1, <2>2, <2>3, <2>5, <2>6, <2>7, <2>8 DEF History!Refuse, MapsPlain
  <2>10. QED BY <2>9 DEF History!Next
<1>14. ASSUME NEW c \in Callers, PutDelta(c) PROVE History!Next
  <2>0. PICK s : s = Plain(segment[c])
    OBVIOUS
  <2>1. segment[c] \in segments /\ Accepts(DeltasOf(Key(segment[c])), Delta(segment[c]))
    BY <1>14, DeltaAccepted DEF PutDelta
  <2>2. /\ UNCHANGED <<segments, request, segment>> /\ pc[c] = "projecting"
        /\ pc'[c] = "ok" /\ \A d \in Callers \ {c} : pc'[d] = pc[d]
        /\ deltas' = deltas \union {Delta(segment[c])}
    BY <1>1, <1>14, <2>1 DEF PutDelta, TypeOK
  <2>3. s \in PlainHistory /\ PlainHistory' = PlainHistory
    BY <2>0, <2>1, <2>2 DEF PlainHistory
  <2>4. PlainListed' = PlainListed \union {s}
    BY <2>0, <2>2, DeltaLists
  <2>5. PlainAnswered' = PlainAnswered \union {<<c, s>>}
    BY <2>0, <2>2 DEF PlainAnswered
  <2>6. {x \in Callers : pc[x] = "conflict"}' = {x \in Callers : pc[x] = "conflict"}
    BY <2>2
  <2>7. History!Holds(s, request[c])
    <3>1. SameBatch(segment[c], request[c])
      BY <2>2 DEF IInv, HandMatches
    <3>2. segment[c] \in Segment /\ request[c] \in Inputs
      BY <1>1, <2>2 DEF TypeOK
    <3>3. QED BY <2>0, <3>1, <3>2, HoldsIsSameBatch
  <2>8. s \in {View(x) : x \in segments}
    BY <1>1, <2>3 DEF MapsPlain
  <2>9. {View(d.of) : d \in deltas}'
            \in {{View(d.of) : d \in deltas}, {View(d.of) : d \in deltas} \union {s}}
    BY <1>1, <2>4 DEF MapsPlain
  <2>10. History!Answer(c, s)
    BY <1>1, <2>2, <2>3, <2>4, <2>5, <2>6, <2>7, <2>9 DEF History!Answer, MapsPlain
  <2>11. QED BY <2>8, <2>10 DEF History!Next
<1>15. ASSUME NEW c \in Callers, DeltaReplyLost(c) PROVE History!Next
  <2> DEFINE s == Plain(segment[c])
  <2>1. segment[c] \in segments
    BY <1>15, DeltaAccepted DEF DeltaReplyLost
  <2>2. /\ UNCHANGED segments /\ deltas' = deltas \union {Delta(segment[c])}
    BY <1>15 DEF DeltaReplyLost
  <2>3. /\ UNCHANGED request /\ PlainAnswered' = PlainAnswered
        /\ {x \in Callers : pc[x] = "conflict"}' = {x \in Callers : pc[x] = "conflict"}
    BY <1>8, <1>15 DEF DeltaReplyLost
  <2>4. s \in PlainHistory /\ PlainHistory' = PlainHistory
    BY <2>1, <2>2 DEF PlainHistory
  <2>5. PlainListed' = PlainListed \union {s}
    BY <2>2, DeltaLists
  <2>6. History!List(s)
    BY <1>1, <2>3, <2>4, <2>5 DEF History!List, MapsPlain
  <2>7. QED BY <1>1, <2>4, <2>6 DEF History!Next, MapsPlain
<1>16. CASE UNCHANGED vars
  <2>1. PlainHistory' = PlainHistory /\ PlainListed' = PlainListed
    BY <1>16 DEF vars, PlainHistory, PlainListed
  <2>2. PlainAnswered' = PlainAnswered
    BY <1>16 DEF vars, PlainAnswered
  <2>3. {x \in Callers : pc[x] = "conflict"}' = {x \in Callers : pc[x] = "conflict"}
    BY <1>16 DEF vars
  <2>4. QED BY <1>1, <1>16, <2>1, <2>2, <2>3 DEF vars, History!vars, MapsPlain
<1>17. QED
  BY <1>3, <1>4, <1>5, <1>6, <1>7, <1>9, <1>10, <1>11, <1>12, <1>13, <1>14, <1>15, <1>16
  DEF Next, Progress, Failure

\* Readers and callers of the append protocol see an ImmutableHistory.
THEOREM Refinement == Spec => ImplementsHistory
<1>1. Init => History!Init
  BY InitRefines
<1>2. IInv /\ IInv' /\ [Next]_vars => [History!Next]_(History!vars)
  BY NextRefines
<1>3. QED BY <1>1, <1>2, Inductive, PTL DEF Spec, ImplementsHistory, History!Spec
=============================================================================
