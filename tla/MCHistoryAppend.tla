--------------------------- MODULE MCHistoryAppend ---------------------------
(***************************************************************************)
(* Small instances of HistoryAppend for TLC.                                *)
(***************************************************************************)
EXTENDS HistoryAppend, TLC

CONSTANTS c1, c2, c3, convA, convB, s1, s2, r1, r2, small, large

E(conv, id, content) == [conversation |-> conv, id |-> id, content |-> content]
Batch(id, entries) == [id |-> id, entries |-> entries]

\* One batch, the same batch with a record id left to the service, and its id
\* reused with another content.
Named      == Batch(s1, <<E(convA, r1, large), E(convA, r2, small)>>)
Unnamed    == Batch(s1, <<E(convA, r1, large), E(convA, NoID, small)>>)
Other      == Batch(s1, <<E(convA, r1, small), E(convA, r2, large)>>)
\* A batch whose segment id the service makes up, and two that are refused.
Anonymous  == Batch(NoID, <<E(convA, r1, large)>>)
TwoTopics  == Batch(s1, <<E(convA, r1, small), E(convB, r2, small)>>)
TwiceSame  == Batch(s1, <<E(convA, r1, small), E(convA, r1, large)>>)
\* Append of one record.
SingleA    == Batch(Single(r1), <<E(convA, r1, small)>>)
SingleB    == Batch(Single(r1), <<E(convB, r1, large)>>)

AllInputs == {Named, Unnamed, Other, Anonymous, TwoTopics, TwiceSame, SingleA, SingleB}

\* c2 runs in a process whose inline limit is lower.
MCExternal == (c1 :> {large}) @@ (c2 :> {large, small}) @@ (c3 :> {large})
=============================================================================
