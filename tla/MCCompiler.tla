----------------------------- MODULE MCCompiler -----------------------------
(* Files for Compiler: workflows made of a binding, a statement, nested   *)
(* or not, and a return, over a tool, an agent and called workflows, and   *)
(* one project in the versions its author edits it through.                *)
EXTENDS Compiler

Keywords == {"agent", "workflow", "parallel", "return", "if", "else", "for", "while"}
Signs == {"{", "}", "(", ")", ".", "/", ",", ":", "=", "->", "==", "<", "&&", "||", "!"}
Numerals == {"0", "1", "1.5", "2", "20"}
Quotes == {"'x'", "'${a}'", "'${x} ${a.k}'", "'k'", "'j'"}

Tok(w) == IF w \in Keywords \cup Signs THEN T(w) ELSE IF w \in Numerals THEN Number(w)
          ELSE IF w \in Quotes THEN Quoted(<<<<0, w>>>>) ELSE Name(w)
(* The words in lines of twenty.                                           *)
File(ws) == [l \in 1..((Len(ws) + 19) \div 20) |->
                Line([i \in 1..Min({20, Len(ws) - 20 * (l - 1)}) |-> Tok(ws[20 * (l - 1) + i])], 0)]

CompilerTemplates == ("'${a}'" :> <<<<"a">>>>) @@ ("'${x} ${a.k}'" :> <<<<"x">>, <<>>, <<"a", "k">>>>)

(* Documents R have a number k, documents S a string k and nothing else.   *)
Field(type) == [types |-> {type}, props |-> <<>>, closed |-> FALSE, never |-> FALSE]
CompilerSchemas ==
    [R |-> [types |-> {"object"}, props |-> "k" :> Field("integer"), closed |-> FALSE, never |-> FALSE],
     S |-> [types |-> {"object"}, props |-> "k" :> Field("string"), closed |-> TRUE, never |-> FALSE]]

-----------------------------------------------------------------------------
(* The declarations around the workflows.                                  *)
Operation(op, effect) == <<op, "{", "effects", "{">> \o effect \o <<"}", "}">>
ToolT == <<"tool", "t", "{", "operations", "{">> \o Operation("op", <<"w", ".", "r">>) \o Operation("ls", <<"r">>)
         \o <<"}", "safety", "{", "trusted", "true", "}", "}">>
ToolWary == <<"tool", "t", "{", "operations", "{">> \o Operation("op", <<"w", ".", "r">>) \o Operation("ls", <<"r">>) \o <<"}", "}">>
ToolWide == <<"tool", "t", "{", "operations", "{">> \o Operation("op", <<"w", ".", "r", ",", "d">>) \o Operation("ls", <<"r">>)
         \o <<"}", "safety", "{", "trusted", "true", "}", "}">>
Agent(grants) == <<"agent", "A", "{", "grants", "{">> \o grants \o <<"}", "input", "R", "output", "S", "policy", "P", "}">>
Ls == <<"tool", ".", "t", ".", "ls">>
Op == <<"tool", ".", "t", ".", "op">>
Policy(permits) == <<"policy", "P", "{", "effects", "{", "permit", "{">> \o permits \o <<"}", "}", "}">>
Budget(cost) == <<"policy", "P", "{", "effects", "{", "permit", "{", "w", ",", "r", "}", "}", "execution", "{", "maxTotalCostUsd", cost, "}",
                  "approvals", "{", "requiredFor", "{">> \o Op \o <<"}", "}", "}">>
Prelude == ToolT \o Agent(Ls) \o Policy(<<"w", ",", "r">>)

(* Workflows that others call: a value, an object, nothing.                *)
One == <<"workflow", "One", "(", "p", ":", "R", ")", "policy", "P", "{", "t", ".", "op", "(", ")", "return", "p", "}">>
Two == <<"workflow", "Two", "(", "p", ":", "R", ",", "q", ":", "Q", ")", "policy", "P", "{", "if", "q", "{",
         "return", "{", "k", ":", "p", "}", "}", "}">>
Main(body) == <<"workflow", "Main", "(", "a", ":", "Q", ",", "b", ":", "R", ")", "policy", "P", "effects", "{", "w", ",", "r", "}", "{">>
              \o body \o <<"}">>

(* How x may come to be bound; a and b are parameters.                     *)
Bindings == {
    <<"x", "=", "t", ".", "op", "(", "k", ":", "t", ".", "ls", "(", "a", ")", ",", "b", ")">>,
    <<"x", "=", "A", "(", "{", "k", ":", "b", ".", "k", "}", ")">>,
    <<"x", "=", "One", "(", "p", ":", "b", ")">>,
    <<"x", "=", "Two", "(", "q", ":", "a", ",", "b", ")">>,
    <<"x", "=", "Two", "(", "b", ",", "One", "(", "b", ")", ")">>,
    <<"x", "=", "a", ".", "k">>}

Simple == {
    <<"One", "(", "b", ")">>,
    <<"t", ".", "op", "(", "x", ",", "'${x} ${a.k}'", ")">>,
    <<"x", "=", "1">>,
    <<"parallel", "{", "z", "=", "t", ".", "op", "(", "t", ".", "ls", "(", ")", ")", "y", "=", "One", "(", "b", ")", "}">>,
    <<"return", "{", "k", ":", "x", ",", "j", ":", "{", "k", ":", "t", ".", "ls", "(", "'${a}'", ")", "}", "}">>,
    <<"return", "x", ".", "k">>,
    <<"return", "y">>,
    <<"return", "'x'">>}

Controls == {
    <<"if", "x", "==", "1", "||", "!", "a", "{", "x", "=", "t", ".", "ls", "(", ")", "}", "else", "{", "y", "=", "t", ".", "op", "(", ")", "}">>,
    <<"if", "a", "{", "y", "=", "t", ".", "ls", "(", ")", "}", "else", "{", "y", "=", "b", "}">>,
    <<"if", "a", ".", "k", "<", "2", "{", "return", "t", ".", "op", "(", "a", ")", "}">>,
    <<"for", "i", "in", "a", "{", "x", "=", "t", ".", "op", "(", "i", ")", "}">>,
    <<"parallel", "for", "i", "in", "b", "{", "y", "=", "t", ".", "ls", "(", "i", ")", "t", ".", "op", "(", "y", ")", "}">>,
    <<"while", "x", "limit", "2", "{", "x", "=", "t", ".", "ls", "(", "x", ")", "}">>,
    <<"retry", "until", "y", "limit", "2", "{", "y", "=", "A", "(", "b", ")", "}">>}

Approval == <<"approval", "ok", "{", "with", "{", "k", ":", "a", ",", "j", ":", "t", ".", "ls", "(", ")", "}",
              "redactKeys", "{", "'k'", "}", "}">>

Wrap(opening) == {opening \o <<"{">> \o s \o <<"}">> : s \in Bindings \cup Simple \cup Controls}
Nested == Wrap(<<"if", "a">>) \cup Wrap(<<"for", "i", "in", "a">>) \cup Wrap(<<"while", "a", "limit", "2">>)

Program(body) == File(Prelude \o One \o Two \o Main(body))
Ending == {<<>>, <<"return", "x">>, <<"return", "y">>}
Bodies == {b \o s \o e : b \in Bindings \cup {<<>>}, s \in Bindings \cup Simple \cup Controls \cup {Approval}, e \in Ending}
          \cup {b \o s \o e : b \in {<<>>, <<"x", "=", "a", ".", "k">>}, s \in Nested, e \in Ending}

(* One project as its author edits it.                                     *)
Loop(cond, limit) == <<"x", "=", "t", ".", "ls", "(", ")", "while", cond, "limit", limit, "{", "x", "=", "t", ".", "ls", "(", "x", ")", "}">>
Gate(keys) == <<"approval", "ok", "{", "redactKeys", "{">> \o keys \o <<"}", "with", "{", "k", ":", "a", "}", "}">>
CompilerVersions == {
    File(Prelude \o One \o Main(Loop("x", "2"))),
    File(Prelude \o One \o Main(Loop("x", "1"))),
    File(Prelude \o One \o Main(Loop("a", "2"))),
    File(One \o Prelude \o Main(Loop("x", "2"))),
    File(Prelude \o One \o Main(<<"x", "=", "A", "(", "b", ")">>)),
    File(ToolT \o Agent(Op) \o Policy(<<"w", ",", "r">>) \o One \o Main(<<"x", "=", "A", "(", "b", ")">>)),
    File(ToolT \o Agent(Ls) \o Budget("1") \o One \o Main(<<"x", "=", "A", "(", "b", ")">>)),
    File(ToolT \o Agent(Ls) \o Budget("2") \o One \o Main(<<"x", "=", "A", "(", "b", ")">>)),
    File(ToolWide \o Agent(Ls) \o Policy(<<"w", ",", "r", ",", "d">>) \o One \o Main(<<"return", "b">>)),
    File(ToolWary \o Agent(Ls) \o Policy(<<"w", ",", "r">>) \o Main(<<"x", "=", "A", "(", "b", ")">>)),
    File(Prelude \o One \o Main(<<"x", "=", "One", "(", "b", ")", "return", "x">>)),
    File(Prelude \o One \o Main(<<"One", "(", "b", ")", "return", "b">>)),
    File(Prelude \o One \o Main(<<"x", "=", "t", ".", "ls", "(", ")", "return", "{", "k", ":", "x", "}">>)),
    File(Prelude \o One \o Main(<<"x", "=", "t", ".", "ls", "(", ")", "return", "{", "k", ":", "b", "}">>)),
    File(Prelude \o One \o Main(Gate(<<"'k'">>))),
    File(Prelude \o One \o Main(Gate(<<"'k'", "'j'">>)))}

(* The same with less allowed: by an effects clause, by the policy.        *)
NarrowBodies == Bindings \cup Simple \cup Controls \cup Nested \cup {Approval}
Narrow(body) == {
    File(Prelude \o One \o Two \o <<"workflow", "Main", "(", "a", ":", "Q", ",", "b", ":", "R", ")", "policy", "P", "effects", "{", "r", "}", "{">>
         \o body \o <<"}">>),
    File(Prelude \o One \o Two \o <<"policy", "L", "{", "effects", "{", "permit", "{", "r", "}", "}", "}",
         "workflow", "Main", "(", "a", ":", "Q", ",", "b", ":", "R", ")", "policy", "L", "{">> \o body \o <<"}">>)}

(* A workflow of one parameter is given the whole document.                *)
Single == <<"workflow", "Main", "(", "a", ":", "Q", ")", "policy", "P", "{">>
Singles == {File(Prelude \o One \o Two \o Single \o b \o <<"}">>) :
    b \in {<<"return", "a">>, <<"return", "{", "k", ":", "a", ".", "b", ".", "k", "}">>, <<"x", "=", "One", "(", "a", ".", "b", ")", "return", "x">>}}

CompilerSources == {Program(b) : b \in Bodies} \cup Singles \cup UNION {Narrow(b) : b \in NarrowBodies}

Nums(ns) == <<"list", [i \in DOMAIN ns |-> <<"num", 10 * ns[i]>>]>>
K(v) == Doc("k" :> v)
CompilerInputs == {Doc(("a" :> Nums(<<1, 2>>)) @@ ("b" :> Nums(<<3>>))), Doc("a" :> K(<<"num", 10>>)), Doc(("a" :> <<"bool", TRUE>>) @@ ("b" :> K(<<"bool", FALSE>>)))}
CompilerAnswers == {<<<<"bool", FALSE>>, <<"bool", TRUE>>>>, <<<<"num", 10>>, NilValue, K(<<"num", 20>>)>>}
=============================================================================
