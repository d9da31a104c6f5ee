--------------------------- MODULE ImmutableHistory ---------------------------
(***************************************************************************)
(* What an append promises its callers, without blobs, retries or crashes: *)
(* a history that only grows, one complete segment at a time and one for   *)
(* each key; a view that lists segments of that history; answers that name *)
(* a listed segment holding exactly what the caller sent, or refuse a      *)
(* batch whose key holds another one.                                       *)
(***************************************************************************)
EXTENDS Naturals, Sequences

CONSTANTS
    Callers,    \* the logical appends
    Contents,   \* what a record may hold
    NoID        \* an id the caller leaves to the service

VARIABLES
    history,    \* the committed segments, with the contents a reader gets
    listed,     \* the segments the conversation view accounts for
    asked,      \* asked[c]: the batch caller c sent
    answered,   \* pairs of a caller and the segment it was given
    refused     \* callers told that their id belongs to another batch

vars == <<history, listed, asked, answered, refused>>

SameKey(s, t) == s.conversation = t.conversation /\ s.id = t.id

\* Every record can be read.
Complete(s) == \A i \in DOMAIN s.entries : s.entries[i].content \in Contents

\* The segment is what the caller sent, in the order it was sent.
Holds(s, in) ==
    /\ Len(s.entries) = Len(in.entries)
    /\ \A i \in DOMAIN in.entries :
          /\ s.entries[i].content = in.entries[i].content
          /\ in.entries[i].id # NoID => s.entries[i].id = in.entries[i].id
          /\ s.conversation = in.entries[i].conversation

Init ==
    /\ history = {} /\ listed = {}
    /\ answered = {} /\ refused = {}

Commit(s) ==
    /\ Complete(s)
    /\ \A t \in history : ~SameKey(s, t)
    /\ history' = history \union {s}
    /\ UNCHANGED <<listed, asked, answered, refused>>

List(s) ==
    /\ s \in history
    /\ listed' = listed \union {s}
    /\ UNCHANGED <<history, asked, answered, refused>>

\* A caller is answered, from a segment listed by then.
Answer(c, s) ==
    /\ listed' \in {listed, listed \union {s}}
    /\ s \in listed'
    /\ Holds(s, asked[c])
    /\ answered' = answered \union {<<c, s>>}
    /\ UNCHANGED <<history, asked, refused>>

Refuse(c) ==
    /\ \E s \in history :
          /\ s.id = asked[c].id
          /\ s.conversation = asked[c].entries[1].conversation
          /\ ~Holds(s, asked[c])
    /\ refused' = refused \union {c}
    /\ UNCHANGED <<history, listed, asked, answered>>

Next ==
    \/ \E s \in history' : Commit(s)
    \/ \E s \in history : List(s)
    \/ \E c \in Callers : \E s \in history : Answer(c, s)
    \/ \E c \in Callers : Refuse(c)

Spec == Init /\ [][Next]_vars
=============================================================================
