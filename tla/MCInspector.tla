------------------------------ MODULE MCInspector ------------------------------
(***************************************************************************)
(* Small instances of Inspector for TLC.                                    *)
(***************************************************************************)
EXTENDS Inspector

CONSTANTS s1, s2

Record(kind, agent, tool, status) ==
    [kind |-> kind, agent |-> agent, tool |-> tool, status |-> status,
     trace |-> <<"trace">>, content |-> <<>>]

At(records) == [i \in DOMAIN records |-> records[i] @@ [at |-> i]]

Reviewer == <<"code", Space, "reviewer">>

\* A tool that failed, and an answer in two parts, the second of which is
\* still to come; a session of one record that is.
MCScript ==
    s1 :> At(<<Record(User, Absent, Absent, Absent),
               Record(ToolCall, Reviewer, <<"exec">>, "started"),
               Record(ToolResult, Reviewer, <<"exec">>, "failed"),
               Record(Assistant, Reviewer, Absent, Absent),
               Record(Assistant, Reviewer, Absent, Absent)>>)
    @@ s2 :> At(<<Record(Assistant, <<"editor">>, Absent, Absent)>>)

MCMaxRecords == [s \in Sessions |-> Len(MCScript[s])]

\* A field that is being typed, two fields at once, and a quote left open.
MCQueries ==
    {<<>>, <<"agent", Colon, "code">>,
     <<"kind", Colon, "tool", Space, Minus, "status", Colon, "failed">>,
     <<Quote, "code">>}
=============================================================================
