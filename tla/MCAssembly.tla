----------------------------- MODULE MCAssembly -----------------------------
EXTENDS Assembly

CONSTANTS a, b  \* the tool call ids

B(t, id) == [type |-> t, id |-> id]
Msg(role, form, blocks, id, calls, size) ==
    [role |-> role, form |-> form, blocks |-> blocks, id |-> id, calls |-> calls, size |-> size]

User == Msg("user", "str", <<B("text", NoCallId)>>, NoCallId, {}, 1)
Calls(ids) == Msg("assistant", "list", ids, NoCallId, {}, 1)
Result(id, size) == Msg("tool", "str", <<B("text", NoCallId)>>, id, {}, size)

MCMessages ==
    {User, Result(a, 2), Result(b, 1),
     Msg("assistant", "str", <<B("text", NoCallId)>>, NoCallId, {a}, 1),
     Calls(<<B("tool_use", a)>>),
     Calls(<<B("text", NoCallId), B("tool_use", a), B("tool_use", b)>>)}

MCImported == {Result(NoCallId, 1), Calls(<< >>), Calls(<<B("function_call", a), B("thinking", NoCallId)>>),
               Calls(<<B("thinking", NoCallId)>>), Calls(<<B("tool_use", NoCallId), B("tool_use", NoCallId)>>),
               Calls(<<B("function_call", NoCallId), B("tool_use", a)>>),
               Msg("system", "list", <<B("text", NoCallId)>>, NoCallId, {}, 1),
               Msg("toolResult", "list", <<B("tool_result", b)>>, NoCallId, {}, 1),
               Msg("user", "list", <<B("tool_result", a)>>, NoCallId, {}, 1),
               Msg("user", "list", << >>, NoCallId, {}, 0)}
=============================================================================
