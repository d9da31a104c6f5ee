----------------------------- MODULE ClaudeHooks -----------------------------
(***************************************************************************)
(* What FarfieldClaudeAgentHooks makes of a hook call of the Claude Agent  *)
(* SDK (sdk/typescript/src/integrations/claude-agent-sdk.ts).              *)
(*                                                                          *)
(* A hook input is a record of the fields the adapter looks at; ids are    *)
(* taken as valid.  A kind is the pair of its first part and the rest.     *)
(***************************************************************************)
EXTENDS Naturals

CONSTANT Absent     \* a field that is not there

\* hookKind.
HookKind ==
    [UserPromptSubmit |-> <<"message", "user">>,
     UserPromptExpansion |-> <<"message", "expansion">>,
     MessageDisplay |-> <<"message", "display">>,
     PreToolUse |-> <<"tool", "call">>,
     PostToolUse |-> <<"tool", "result">>, PostToolUseFailure |-> <<"tool", "result">>,
     PostToolBatch |-> <<"tool", "batch">>,
     PermissionRequest |-> <<"tool", "permission">>,
     PermissionDenied |-> <<"tool", "permission">>,
     SessionStart |-> <<"conversation", "session.start">>,
     SessionEnd |-> <<"conversation", "session.end">>,
     PreCompact |-> <<"conversation", "compact">>,
     PostCompact |-> <<"conversation", "compacted">>,
     Stop |-> <<"agent", "stop">>, StopFailure |-> <<"agent", "stop">>,
     SubagentStart |-> <<"agent", "subagent.start">>,
     SubagentStop |-> <<"agent", "subagent.stop">>]

\* hookStatus.
HookStatus(event) ==
    CASE event \in {"PreToolUse", "SessionStart", "SubagentStart"} -> "running"
      [] event \in {"PostToolUse", "SessionEnd", "Stop", "SubagentStop"} -> "ok"
      [] event \in {"PostToolUseFailure", "StopFailure"} -> "error"
      [] event = "PermissionDenied" -> "denied"
      [] OTHER -> Absent

First(value, default) == IF value = Absent THEN default ELSE value

\* eventFromHook.  The input is kept whole under "hook".
EventFromHook(input) ==
    [kind |-> HookKind[input.event],
     trace |-> input.session,
     span |-> First(input.use, input.agent),
     parent |-> IF input.use = Absent THEN Absent ELSE input.agent,
     tool |-> input.tool,
     status |-> HookStatus(input.event),
     content |-> [hook |-> input]]
=============================================================================
