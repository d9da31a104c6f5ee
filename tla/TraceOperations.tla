--------------------------- MODULE TraceOperations ---------------------------
(***************************************************************************)
(* How the inspector groups the records of a session: into operations      *)
(* (server/ui/src/lib/trace-operations.ts), into blocks of a conversation  *)
(* (lib/conversation-review.ts), and as a whole (lib/history.ts).          *)
(*                                                                          *)
(* A timeline is a sequence of records; an operation and a block name      *)
(* their records by position.                                              *)
(***************************************************************************)
EXTENDS Integers, Sequences, FiniteSets, SequencesExt, FiniteSetsExt, ClaudeHooks

CONSTANT SlowAfter      \* the duration of a slow operation

\* The positions of a set, in their order.
Places(S) ==
    [k \in 1..Cardinality(S) |-> CHOOSE n \in S : Cardinality({m \in S : m <= n}) = k]

ToolCall == <<"tool", "call">>
ToolResult == <<"tool", "result">>
User == <<"message", "user">>
Assistant == <<"message", "assistant">>
TurnStarted == <<"agent", "turn.started">>
TurnCompleted == <<"agent", "turn.completed">>

Failures == {"error", "failed", "cancelled"}

ASSUME StatusAssumption == Absent \notin Failures

HasError(entry) == entry.status \in Failures

EventCategory(kind) ==
    IF kind[1] \in {"message", "model", "tool", "agent", "test"} THEN kind[1] ELSE "event"

IsReasoning(entry) ==
    \/ entry.kind[2] = "reasoning"
    \/ "type" \in DOMAIN entry.content /\ entry.content.type = "reasoning"

-----------------------------------------------------------------------------
\* Operations.

\* toolUseID looks for an id among the fields of the content itself.
ToolUseID(entry) ==
    IF "tool_use_id" \in DOMAIN entry.content THEN entry.content.tool_use_id ELSE Absent

\* Whether the record at j may be the result of the call at i.
Answers(t, i, j) ==
    /\ t[j].kind = ToolResult
    /\ \/ ToolUseID(t[i]) # Absent /\ ToolUseID(t[i]) = ToolUseID(t[j])
       \/ t[j].tool = t[i].tool /\ t[j].trace = t[i].trace
       \/ j = i + 1

\* Mutant of MatchingResults: another call of the tool does not end the search.
MatchingResultsBeyond(t, i, consumed) ==
    LET answers == {j \in (i + 1)..Len(t) : j \notin consumed /\ Answers(t, i, j)}
    IN  {j \in answers : \A k \in answers : j <= k}

\* Mutant of MatchingResults: the search goes on after a result that answers.
MatchingResultsLast(t, i, consumed) ==
    LET answers == {j \in (i + 1)..Len(t) : j \notin consumed /\ Answers(t, i, j)}
    IN  {j \in answers : \A k \in answers : j >= k}

\* The first result that answers call i, before another call of that tool; a
\* set of at most one position.
MatchingResults(t, i, consumed) ==
    LET answers == {j \in (i + 1)..Len(t) : j \notin consumed /\ Answers(t, i, j)}
        again == {j \in (i + 1)..Len(t) : t[j].kind = ToolCall /\ t[j].tool = t[i].tool}
    IN  {j \in answers : \A k \in answers \union again : j <= k}

\* The messages of the agent from i on that are parts of one answer.
Chunks(t, i) ==
    {j \in i..Len(t) : \A k \in i..j : t[k].kind = Assistant /\ t[k].trace = t[i].trace}

\* makeOperation, of the records at the given positions; merged are the positions
\* it stands for.
Operation(t, entries, merged) ==
    [entries |-> entries, merged |-> merged,
     kind |-> t[Head(entries)].kind,
     duration |-> t[Last(entries)].at - t[Head(entries)].at,
     status |->
        LET given == {i \in Range(entries) : t[i].status # Absent}
        IN  IF \E i \in Range(entries) : HasError(t[i]) THEN "error"
            ELSE IF given = {} THEN Absent ELSE t[Max(given)].status]

\* The later records that are grouped with record i: the result of a call, the
\* further parts of an answer.
Grouped(t, i, consumed) ==
    IF t[i].kind = ToolCall THEN MatchingResults(t, i, consumed)
    ELSE IF t[i].kind = Assistant THEN Chunks(t, i) \ {i}
    ELSE {}

\* Mutant of Looked: the parts of an answer are not marked.
LookedForResults(t, i, before) ==
    before \union IF i \in before \/ t[i].kind # ToolCall THEN {} ELSE Grouped(t, i, before)

\* The records consumed when record i has been looked at.
Looked(t, i, before) ==
    before \union IF i \in before THEN {} ELSE Grouped(t, i, before)

\* Consumed(t)[i]: the records consumed when the first i have been looked at.
Consumed(t) ==
    LET consumed[i \in 0..Len(t)] ==
            IF i = 0 THEN {} ELSE Looked(t, i, consumed[i - 1])
    IN  consumed

\* The operation of record i and the others that are grouped with it.
OperationFrom(t, i, others) ==
    Operation(t, Places({i} \union IF t[i].kind = ToolCall THEN others ELSE {}),
              {i} \union others)

\* The operations, given what each of the records has consumed.
OperationsFrom(t, consumed) ==
    LET starts == Places(DOMAIN t \ consumed[Len(t)])
    IN  [n \in DOMAIN starts |->
            OperationFrom(t, starts[n], Grouped(t, starts[n], consumed[starts[n] - 1]))]

BuildTraceOperations(t) == OperationsFrom(t, Consumed(t))

\* The "records" density.
RawTraceOperations(t) == [i \in DOMAIN t |-> Operation(t, <<i>>, {i})]

\* Mutant of Overview: a status does not keep an operation.
OverviewByKind(operations) ==
    LET answers == {n \in DOMAIN operations : operations[n].kind = Assistant}
        keeps(n) ==
            \/ EventCategory(operations[n].kind) \in {"tool", "test"}
            \/ operations[n].kind \in {TurnStarted, TurnCompleted, User}
            \/ n \in answers /\ \A m \in answers : m <= n
    IN  [n \in {m \in DOMAIN operations : keeps(m)} |-> operations[n]]

\* operationsForDensity, for "overview".
Overview(operations) ==
    LET answers == {n \in DOMAIN operations : operations[n].kind = Assistant}
        keeps(n) ==
            \/ EventCategory(operations[n].kind) \in {"tool", "test"}
            \/ operations[n].kind \in {TurnStarted, TurnCompleted, User}
            \/ n \in answers /\ \A m \in answers : m <= n
            \/ operations[n].status = "error"
    IN  [n \in {m \in DOMAIN operations : keeps(m)} |-> operations[n]]

OperationMatchesFocus(t, operation, focus) ==
    CASE focus = "tools" -> EventCategory(operation.kind) = "tool"
      [] focus = "reasoning" -> \E i \in Range(operation.entries) : IsReasoning(t[i])
      [] focus = "slow" -> operation.duration >= SlowAfter
      [] focus = "errors" -> operation.status = "error"
      [] OTHER -> TRUE

-----------------------------------------------------------------------------
\* The conversation.

IsMessage(entry) == entry.kind \in {User, Assistant}

\* activityBlock, of the records at the given positions.
ActivityBlock(t, entries) ==
    [type |-> "activity", entries |-> entries,
     calls |-> Cardinality({i \in entries : t[i].kind = ToolCall}),
     errors |-> Cardinality({i \in entries : HasError(t[i])})]

\* A message is a block of its own, and the records between two messages are one.
ReviewBlocks(t) ==
    LET others == {i \in DOMAIN t : ~IsMessage(t[i])}
        first == {i \in others : i = 1 \/ IsMessage(t[i - 1])}
        run(i) == {j \in others : j >= i /\ \A k \in i..j : k \in others}
        answers == {i \in DOMAIN t : t[i].kind = Assistant}
    IN  {ActivityBlock(t, run(i)) : i \in first}
        \union {[type |-> "message", entries |-> {i}, role |-> t[i].kind[2],
                 latest |-> i \in answers /\ \A j \in answers : j <= i]
                : i \in DOMAIN t \ others}

IsTurn(entry) == entry.kind \in {TurnStarted, TurnCompleted}

\* ConversationReview leaves out the activity that is only that of the turns.
VisibleBlocks(t) ==
    {b \in ReviewBlocks(t) : b.type = "message" \/ \E i \in b.entries : ~IsTurn(t[i])}

-----------------------------------------------------------------------------
\* analyzeSession.

AnalyzeSession(t) ==
    LET terminals == {i \in DOMAIN t : t[i].kind = TurnCompleted}
        last == {i \in terminals : \A j \in terminals : j <= i}
        failed == \E i \in IF last = {} THEN DOMAIN t ELSE last : HasError(t[i])
        running == \E i \in DOMAIN t : t[i].status = "running"
    IN  [status |-> IF failed THEN "failed"
                    ELSE IF running /\ last = {} THEN "running"
                    ELSE IF last # {} THEN "complete" ELSE "captured",
         calls |-> Cardinality({i \in DOMAIN t : t[i].kind = ToolCall}),
         traces |-> {t[i].trace : i \in DOMAIN t}]
=============================================================================
