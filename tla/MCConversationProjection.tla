----------------------- MODULE MCConversationProjection -----------------------
(***************************************************************************)
(* Small instances of ConversationProjection for TLC.                       *)
(***************************************************************************)
EXTENDS ConversationProjection, TLC

CONSTANTS p1, p2, c1, c2, c3, a, b, d

\* Two clients append the same segment a, a third one another.
Retried == (c1 :> a) @@ (c2 :> a) @@ (c3 :> b)
Three == (c1 :> a) @@ (c2 :> b) @@ (c3 :> d)
Two == (c1 :> a) @@ (c2 :> b)
One == (c1 :> a)

\* What the processes do does not depend on their names.
Interchangeable == Permutations({p1, p2})

\* Nor, where every call has a source of its own, on the names of the calls as
\* long as each keeps its source.
Renamed(f) ==
    [x \in Calls \union Sources |->
        IF x \in Calls THEN f[x] ELSE Source[f[CHOOSE c \in Calls : Source[c] = x]]]

AllInterchangeable ==
    {g @@ Renamed(f) : g \in Interchangeable, f \in Permutations(Calls)}
=============================================================================
