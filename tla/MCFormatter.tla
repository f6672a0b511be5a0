---------------------------- MODULE MCFormatter -----------------------------
(* Source files for Formatter: small declarations of every kind, laid out  *)
(* in three ways, with a comment at every place, with every one of their   *)
(* tokens and lines missing or doubled, and workflows returning every      *)
(* expression of two levels.                                               *)
EXTENDS Formatter

CONSTANT Ops    \* the binary operators expressions are built from

Keywords == {"agent", "workflow", "parallel", "return", "if", "else", "for", "while"}
Signs == {"{", "}", "(", ")", ".", "/", ",", ":", "=", "->", "==", "<", "&&", "||", "!"}
Numerals == {"0", "1", "1.5", "20"}

S == <<<<0, "x">>>>                              \* a one-line string
Tale == <<<<0, "x">>, <<0, "">>, <<2, "y">>>>    \* x, an empty line, y indented
Tok(w) == CASE w \in Keywords \cup Signs -> T(w)
            [] w \in Numerals -> Number(w)
            [] w = "'x'" -> Quoted(S)
            [] w = "'tale'" -> Quoted(Tale)
            [] w = "'''" -> Block(<<<<6, "x">>, <<0, "">>, <<8, "y">>, <<4, "">>>>)
            [] OTHER -> Name(w)
Toks(ws) == [i \in DOMAIN ws |-> Tok(ws[i])]

(* Files as lines of words.                                                *)
Agent == <<<<"agent", "A", "{">>,
    <<"output", "R">>, <<"grants", "{">>, <<"tool", ".", "t", ".", "op", ".", "sub">>, <<"}">>,
    <<"constraints", "{", "maxTokens", "20">>, <<"temperature", "1.5", "}">>,
    <<"instructions", "'tale'">>, <<"model", "m", "/", "n">>, <<"}">>>>
AgentFile == <<<<"agent", "A", "{", "instructions", "file", "(", "'x'", ")">>,
    <<"description", "'''">>, <<"input", "T", "policy", "P", "}">>>>
Tool == <<<<"tool", "t", "{">>,
    <<"operations", "{", "op", ".", "sub", "{", "effects", "{", "w", ".", "r", ",", "w", "}", "schema", "'x'", "}", "ls", "{", "}", "}">>,
    <<"mcp", "{">>, <<"headers", "{", "'x'", "'tale'", "}">>, <<"args", "{", "'x'", "'x'", "}", "command", "'x'">>, <<"}">>,
    <<"limits", "{", "toolInputExceedPolicy", "fail", "maxStateBytes", "1">>, <<"}">>,
    <<"retry", "{", "backoff", "'x'", "maxAttempts", "1", "}">>,
    <<"safety", "{", "trusted", "true">>, <<"}", "type", "mcp">>, <<"}">>>>
ToolBare == <<<<"tool", "t", "{", "operations", "{">>, <<"}">>, <<"http", "{", "baseUrl", "'x'", "headers", "{", "}", "}">>,
    <<"workspace", "{", "testCommand", "'x'", "}", "}">>>>
Policy == <<<<"policy", "P", "{">>,
    <<"tools", "{", "forbidUnknownTools", "true", "}">>,
    <<"approvals", "{">>, <<"requiredFor", "{">>, <<"tool", ".", "t", ".", "op">>, <<"}">>, <<"permissive", "false", "}">>,
    <<"effects", "{", "permitWithApproval", "{", "w", "}">>, <<"permit", "{", "r", "}", "}">>,
    <<"execution", "{", "maxTotalCostUsd", "1.5", "}", "preset", "standard">>, <<"}">>>>
Hitl == <<<<"policy", "P", "{", "hitl", "{">>,
    <<"interruptOn", "{", "t">>, <<"u", "{">>, <<"redactKeys", "{", "'x'", "}", "allowedDecisions", "{", "edit", "approve", "}">>,
    <<"switchMap", "{", "a", ".", "b", "{", "c", "d", ".", "e", "}", "}">>, <<"}", "}">>,
    <<"toolSwitchMap", "{", "a", "{", "}", "}">>, <<"}", "}">>>>
Env == <<<<"environment", "E", "{", "overrides", "{">>,
    <<"policies", "{", "P", "{">>, <<"execution", "{", "maxIterations", "1", "}">>, <<"}", "}">>,
    <<"agents", "{", "A", "{">>, <<"constraints", "{", "maxTokens", "1", "}">>, <<"model", "m", "/", "n", "}", "}">>, <<"}", "}">>>>
Small == <<<<"defaults", "{", "runtime", "local">>, <<"policy", "P", "}">>,
    <<"limits", "{", "maxStateBytes", "1">>, <<"}">>,
    <<"provider", "p", "{", "apiKeyFrom", "'x'">>, <<"type", "openai", "}">>>>
Flow == <<<<"workflow", "W", "(", "a", ":", "T", ",", "b", ":", "T", ")", "->", "R">>,
    <<"policy", "P", "description", "'tale'", "{">>,
    <<"for", "x", "in", "a", "{">>, <<"f", "(", "k", ":", "x", ",", "1", ")">>, <<"}">>,
    <<"parallel", "{">>, <<"p", "=", "g", "(", ")">>, <<"}">>,
    <<"retry", "until", "!", "a", "limit", "1", "{", "retry", "=", "{", "k", ":", "'x'", "}">>, <<"}">>,
    <<"return", "a", ".", "b">>, <<"}">>>>
Bounded == <<<<"workflow", "W", "(", ")", "description", "'x'">>, <<"effects", "{", "w", ".", "r", ",", "w", "}">>,
    <<"{", "return", "a">>, <<"}">>>>
Branch == <<<<"workflow", "W", "(", ")", "{">>,
    <<"parallel", "for", "x", "in", "a", "{">>, <<"while", "x", "limit", "20", "{", "f", "(", ")", "}">>, <<"}">>,
    <<"if", "a", "==", "1", "{">>, <<"x", "=", "f", "(", ")">>,
    <<"}", "else", "if", "(", "a", ")", "{", "return", "true">>, <<"}">>,
    <<"approval", "ok", "{", "with", "{", "k", ":", "a">>, <<"j", ":", "1", "}">>, <<"description", "'x'", "}">>, <<"}">>>>
Arms == <<<<"workflow", "W", "(", ")", "{">>, <<"if", "a", "{">>, <<"x", "=", "f", "(", ")">>,
    <<"}", "else", "{">>, <<"y", "=", "f", "(", ")">>, <<"}">>, <<"}">>>>

Files == {Agent, AgentFile, Tool, ToolBare, Policy, Hitl, Env, Small, Flow, Branch}

Plain(f) == [l \in DOMAIN f |-> Line(Toks(f[l]), 0)]
OneLine(f) == <<Line(Toks(FlattenSeq(f)), 0)>>
TokenPerLine(f) == LET ws == FlattenSeq(f) IN [i \in DOMAIN ws |-> Line(Toks(<<ws[i]>>), 0)]

Layouts(f) == {Plain(f), OneLine(f), TokenPerLine(f)}

(* A comment at the end of any line, or on a line of its own before it.    *)
Trailing(src, l) == [src EXCEPT ![l].note = 1]
Own(src, l) == InsertAt(src, l, Line(<<>>, 1))
Commented(src) == UNION {{Trailing(src, l), Own(src, l)} : l \in DOMAIN src}

(* Two comments: one after line l, one before it.                          *)
TwiceCommented(src) == {InsertAt(Trailing(src, l), l, Line(<<>>, 2)) : l \in DOMAIN src}

(* Every token, every two in a row and every line missing or doubled.      *)
Damaged(f) ==
    LET src == Plain(f)
        Times(s, i, j, n) ==
            SubSeq(s, 1, i - 1) \o FlattenSeq([k \in 1..n |-> SubSeq(s, i, j)]) \o SubSeq(s, j + 1, Len(s))
        Parts(s) == {<<i, j>> \in (DOMAIN s) \X (DOMAIN s) : j \in {i, i + 1}}
    IN  {Times(src, l, l, n) : l \in DOMAIN src, n \in {0, 2}}
        \cup UNION {{[src EXCEPT ![l].ts = Times(@, ij[1], ij[2], n)] : ij \in Parts(f[l]), n \in {0, 2}} : l \in DOMAIN f}

(* Expressions, as the author brackets them.                               *)
Bracket(e) == <<"(">> \o e \o <<")">>
Pairs(x, y) == {<<x, op, y>> : op \in Ops}
Operands(x, y) ==
    {<<x>>} \cup UNION {{e, Bracket(e), <<"!">> \o Bracket(e)} : e \in Pairs(x, y)}
Exprs == {l \o <<op>> \o r : l \in Operands("a", "b"), op \in Ops, r \in Operands("c", "d")}
Comparing == Ops \ {"&&", "||"}
Chained == {<<"(", "a", op, "b", ")", eq>> \o r : op \in Comparing, eq \in Comparing, r \in Operands("c", "d")}
Returning(e) == Plain(<<<<"workflow", "W", "(", ")", "{", "return">> \o e \o <<"}">>>>)

(* Sources that fmt does not bring to rest: a comparison compared, a       *)
(* comment at the end of the first arm of an if with two, and one before   *)
(* the effects clause of a workflow that has a description, which the      *)
(* first run moves into the body and the second one out of the workflow.   *)
RestlessSources ==
    {Returning(e) : e \in Chained} \cup Commented(Plain(Arms)) \cup {Own(Plain(Bounded), 2)}

FormatterSources ==
    UNION {Layouts(f) : f \in Files \cup {Arms, Bounded}}
    \cup UNION {Commented(Plain(f)) \cup TwiceCommented(Plain(f)) : f \in Files}
    \cup UNION {Commented(TokenPerLine(f)) : f \in Files}
    \cup UNION {Damaged(f) : f \in Files \cup {Bounded}}
    \cup ((Commented(Plain(Bounded)) \cup {Returning(e) : e \in Exprs}) \ RestlessSources)
=============================================================================
