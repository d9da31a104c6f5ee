--------------------------- MODULE MCOpenAIExporter ---------------------------
(***************************************************************************)
(* Small instances of OpenAIExporter for TLC: a trace with a group and one *)
(* without, exported as the SDK does it, whole or in pieces, or out of     *)
(* order.                                                                   *)
(***************************************************************************)
EXTENDS OpenAIExporter, TLC

CONSTANTS c1, c2, c3

Envelope(t, g) == [object |-> "trace", id |-> t, group |-> g, workflow |-> "w"]
Span(s, t, timed) == [object |-> "trace.span", id |-> s, trace |-> t, timed |-> timed]

TraceA == Envelope("a", "group")
TraceC == Envelope("c", NoName)
TraceB == Envelope("b", NoName)
Span1 == Span("1", "a", TRUE)
Span2 == Span("2", "a", FALSE)
Span3 == Span("3", "b", TRUE)

AllBatches ==
    {<<TraceA>>, <<TraceA, Span1>>, <<TraceB, Span2>>, <<Span1, Span3>>, <<TraceC>>}
Symmetry == Permutations(Calls)
Repeated == {<<TraceA, Span1>>}
=============================================================================
