--------------------------- MODULE SessionTimeline ---------------------------
(***************************************************************************)
(* A session as it is captured, record by record, and what the inspector   *)
(* makes of its timeline: by the hooks of the Claude Agent SDK, by calls of *)
(* the client as an application makes them, or as the demo makes it up      *)
(* (server/ui/src/lib/demo-data.ts).                                        *)
(*                                                                          *)
(* A record has the instant at which it was captured, in milliseconds, and  *)
(* arrives in any order; the server sorts by instants, then by random ids.  *)
(*                                                                          *)
(* The agent is the environment: it may run several tools at a time, ask   *)
(* for one and not run it, and miss a hook (its signal is aborted or the   *)
(* queue is full).                                                          *)
(***************************************************************************)
EXTENDS TraceOperations

CONSTANTS
    Uses,           \* the runs of tools
    Tool,           \* Tool[u]: the tool that u runs
    Scenarios,      \* of the demo: records, tools, failure
    MaxCaptured,    \* BOUND: records that hooks and calls capture
    MaxLate,        \* BOUND: records that are late at a time
    MaxMissed       \* BOUND: hook calls that capture nothing

ASSUME TimelineAssumption ==
    Absent \notin Uses /\ MaxCaptured \in Nat /\ MaxLate \in Nat /\ MaxMissed \in Nat

VARIABLES
    source,         \* who makes it up: "hooks", "client" or "demo"
    scenario,       \* of the demo
    timeline,
    now,            \* the clock that stamps records
    late,           \* records captured that are not in the timeline yet
    tools,          \* tools[u]: what u is doing
    turn,           \* turns begun
    missed          \* hook calls that captured nothing

origin == <<source, scenario>>
sessionVars == <<origin, timeline, now, late, tools, turn, missed>>

SessionInit ==
    /\ \/ source \in {"hooks", "client"} /\ scenario = Absent
       \/ source = "demo" /\ scenario \in Scenarios
    /\ timeline = <<>> /\ now = 0 /\ late = {}
    /\ tools = [u \in Uses |-> "new"]
    /\ turn = 0 /\ missed = 0

\* prepareEvent.
Stamped(event, instant) ==
    [kind |-> event.kind, trace |-> event.trace, tool |-> event.tool,
     status |-> event.status, content |-> event.content, at |-> instant]

\* Where a record that happened then is sorted in: after those that happened
\* before and before those that happened after; records of one instant are in the
\* order of their ids, which are random.
PlacesAt(instant) ==
    {p \in 1..(Len(timeline) + 1) :
        /\ \A k \in 1..(p - 1) : timeline[k].at <= instant
        /\ \A k \in p..Len(timeline) : timeline[k].at >= instant}

Lands(record) ==
    \E p \in PlacesAt(record.at) : timeline' = InsertAt(timeline, p, record)

\* The millisecond may be that of the record before. The request may be overtaken
\* by others, or have to be repeated; then the record is late. (Two that are alike
\* in every field are not late together.)
Captured(event) ==
    /\ Len(timeline) + Cardinality(late) < MaxCaptured
    /\ now' \in {now, now + 1} \ {0}
    /\ LET record == Stamped(event, now')
       IN  \/ Lands(record) /\ UNCHANGED late
           \/ /\ Cardinality(late) < MaxLate /\ record \notin late
              /\ late' = late \union {record}
              /\ UNCHANGED timeline

Arrives(record) ==
    /\ Lands(record)
    /\ late' = late \ {record}
    /\ UNCHANGED <<origin, now, tools, turn, missed>>

Steps(u, from, to) == tools[u] = from /\ tools' = [tools EXCEPT ![u] = to]

-----------------------------------------------------------------------------
\* Hooks.

\* capture submits the event, or throws because its signal is aborted.
Hook(event, u) ==
    /\ source = "hooks"
    /\ \/ /\ Captured(EventFromHook([event |-> event, session |-> "session",
                  use |-> u, agent |-> Absent,
                  tool |-> IF u = Absent THEN Absent ELSE Tool[u]]))
          /\ UNCHANGED missed
       \/ missed < MaxMissed /\ missed' = missed + 1 /\ UNCHANGED <<timeline, now, late>>
    /\ UNCHANGED <<origin, turn>>

PreToolUse(u) == Hook("PreToolUse", u) /\ Steps(u, "new", "running")

PostToolUse(u) ==
    /\ \E event \in {"PostToolUse", "PostToolUseFailure"} : Hook(event, u)
    /\ Steps(u, "running", "done")

\* The tool is not run after all.
PermissionDenied(u) == Hook("PermissionDenied", u) /\ Steps(u, "running", "done")

\* Events that are not about one tool.
OtherHook(event) == Hook(event, Absent) /\ UNCHANGED tools

-----------------------------------------------------------------------------
\* Calls of the client.

Capture(kind, tool, status, content) ==
    /\ source = "client"
    /\ Captured([kind |-> kind, trace |-> turn, tool |-> tool, status |-> status,
                 content |-> content])
    /\ UNCHANGED <<origin, missed>>

BeginTurn ==
    /\ source = "client"
    /\ turn' = turn + 1
    /\ Captured([kind |-> TurnStarted, trace |-> turn + 1, tool |-> Absent,
                 status |-> "running", content |-> <<>>])
    /\ UNCHANGED <<origin, tools, missed>>

Tells(kind, status, content) ==
    turn > 0 /\ Capture(kind, Absent, status, content) /\ UNCHANGED <<tools, turn>>

Says == Tells(Assistant, Absent, <<>>)
Thinks == Tells(<<"model", "response">>, Absent, [type |-> "reasoning"])
EndTurn == \E status \in {"completed", "failed"} : Tells(TurnCompleted, status, <<>>)

Calls(u) ==
    /\ turn > 0
    /\ Capture(ToolCall, Tool[u], "started", [tool_use_id |-> u])
    /\ Steps(u, "new", "running")
    /\ UNCHANGED turn

Returns(u) ==
    /\ \E status \in {"completed", "failed"} :
          Capture(ToolResult, Tool[u], status, [tool_use_id |-> u])
    /\ Steps(u, "running", "done")
    /\ UNCHANGED turn

-----------------------------------------------------------------------------
\* The demo.

Middle == <<<<"model", "reasoning">>, ToolCall, ToolResult, <<"model", "response">>,
            Assistant, ToolCall, ToolResult, <<"test", "evidence">>>>

DemoKind(n, i) ==
    CASE i = 1 -> TurnStarted
      [] i = 2 -> User
      [] i = 3 -> <<"model", "request">>
      [] i = n - 1 -> Assistant
      [] i = n -> TurnCompleted
      [] OTHER -> Middle[((i - 4) % Len(Middle)) + 1]

CallsUntil(n, i) == Cardinality({j \in 1..i : DemoKind(n, j) = ToolCall})

\* buildTimeline, record i of the scenario: the tools take turns, and the result
\* of one call is the failure, which may be that of the turn.
DemoEvent(s, i) ==
    LET n == s.records
        kind == DemoKind(n, i)
        call == CallsUntil(n, i)
        failing == IF s.failure = Absent THEN 0
                   ELSE IF s.failure.call = Absent THEN CallsUntil(n, n)   \* "last"
                   ELSE s.failure.call
        fails == \/ kind = ToolResult /\ call = failing
                 \/ kind = TurnCompleted /\ s.failure # Absent /\ s.failure.terminal
    IN  [kind |-> kind, trace |-> "trace_demo",
         tool |-> IF kind[1] = "tool" THEN s.tools[((call - 1) % Len(s.tools)) + 1]
                  ELSE Absent,
         status |-> CASE fails -> "failed"
                      [] kind = TurnStarted -> "running"
                      [] ~fails /\ kind \in {TurnCompleted, ToolResult} -> "complete"
                      [] OTHER -> Absent,
         content |-> IF kind[2] = "reasoning" THEN [type |-> "reasoning"] ELSE <<>>]

DemoRecord ==
    /\ source = "demo"
    /\ Len(timeline) < scenario.records
    /\ LET i == Len(timeline) + 1
       IN  timeline' = Append(timeline, Stamped(DemoEvent(scenario, i), i))
    /\ UNCHANGED <<origin, now, late, tools, turn, missed>>

-----------------------------------------------------------------------------
SessionNext ==
    \/ \E u \in Uses : PreToolUse(u) \/ PostToolUse(u) \/ PermissionDenied(u)
    \/ \E event \in {"UserPromptSubmit", "PostToolBatch", "StopFailure", "SessionEnd"} :
          OtherHook(event)
    \/ BeginTurn \/ Says \/ Thinks \/ EndTurn
    \/ \E u \in Uses : Calls(u) \/ Returns(u)
    \/ \E record \in late : Arrives(record)
    \/ DemoRecord

SessionSpec == SessionInit /\ [][SessionNext]_sessionVars

-----------------------------------------------------------------------------
Operations == BuildTraceOperations(timeline)

\* The run of a tool that record i is about, as only its maker knows.
UseOf(i) ==
    LET content == timeline[i].content
    IN  IF "hook" \in DOMAIN content THEN content.hook.use ELSE ToolUseID(timeline[i])

\* Every record is in one operation and in one block, so that none is counted
\* twice or left out, and both views and the summary count the same tool calls:
\* "Records exposes every immutable record independently".
EveryRecordOnce ==
    LET operations == Operations
        blocks == ReviewBlocks(timeline)
        counted == {call \in blocks \X DOMAIN timeline :
                        call[1].type = "activity" /\ call[2] <= call[1].calls}
    IN  /\ \A i \in DOMAIN timeline :
              /\ Cardinality({n \in DOMAIN operations : i \in operations[n].merged}) = 1
              /\ Cardinality({b \in blocks : i \in b.entries}) = 1
        /\ Cardinality(counted) = AnalyzeSession(timeline).calls
        /\ Cardinality({n \in DOMAIN operations : operations[n].kind = ToolCall})
              = AnalyzeSession(timeline).calls

IsResultOf(r, c) ==
    /\ timeline[r].kind = ToolResult /\ timeline[c].kind = ToolCall
    /\ UseOf(r) # Absent /\ UseOf(r) = UseOf(c)

\* Runs of one tool are apart: a result has a later instant than its call, and no
\* other call of that tool has an instant from the one to the other.
Apart ==
    \A r, c \in DOMAIN timeline : IsResultOf(r, c) =>
        /\ timeline[c].at < timeline[r].at
        /\ \A d \in DOMAIN timeline \ {c} :
              timeline[d].kind = ToolCall /\ timeline[d].tool = timeline[c].tool
              => timeline[d].at < timeline[c].at \/ timeline[d].at > timeline[r].at

Paired ==
    LET pairs == {operation.merged : operation \in Range(Operations)}
    IN  \A r, c \in DOMAIN timeline : IsResultOf(r, c) => {c, r} \in pairs

\* "Operations pairs related records such as tool calls and results": a result is
\* in the operation of its call, although several tools run at a time, one is not
\* run after all, the hooks show no id, and records arrive in any order; unless
\* runs of one tool overlap or share an instant, a hook is missed, or a record has
\* not arrived.
PairedWhenApart ==
    Apart /\ missed = 0 /\ late = {} => Paired

\* The same, whatever runs at a time.
\* (The code does not keep this promise; README, section 6.)
PairedWithItsResult == Paired

\* "earlier tool errors remain visible as recovered evidence": a failed record is
\* in an operation that the overview keeps and the errors focus finds, and in a
\* block that is shown and counts it (unless it is the turn itself that failed),
\* whatever it is grouped with.
FailuresStayVisible ==
    LET overview == Range(Overview(Operations))
        blocks == VisibleBlocks(timeline)
    IN  \A i \in DOMAIN timeline :
            HasError(timeline[i]) /\ timeline[i].kind # Assistant =>
                /\ \E operation \in overview :
                      /\ i \in operation.merged
                      /\ OperationMatchesFocus(timeline, operation, "errors")
                /\ \/ IsTurn(timeline[i])
                   \/ \E b \in blocks :
                         b.type = "activity" /\ i \in b.entries /\ b.errors > 0

\* An operation that has its call and result is never grouped otherwise when more
\* records arrive, unless one is put before that result.
PairsStay ==
    [][LET after == Range(BuildTraceOperations(timeline'))
           Stays(operation) ==
               \A k \in 1..Last(operation.entries) :
                   k \in DOMAIN timeline' /\ timeline'[k] = timeline[k]
       IN  \A operation \in Range(Operations) :
              Len(operation.entries) = 2 /\ Stays(operation) => operation \in after]_timeline
=============================================================================
