----------------------------- MODULE LangPrinter ----------------------------
(***************************************************************************)
(* The canonical printer behind `terfyn fmt` (internal/lang: printer.go,   *)
(* printer_resources.go, printer_comments.go).                             *)
(*                                                                         *)
(* A printer q is the lines written so far, the comments already emitted,  *)
(* and the index that attaches each comment of the source to a line or to  *)
(* a block.  A print operator maps q to the printer after it.              *)
(***************************************************************************)
EXTENDS LangSyntax

(***************************************************************************)
(* The comment index.                                                      *)
(***************************************************************************)

(* The brace scan, one token: the depth, the open lines of the blocks not  *)
(* yet closed, the closed blocks, and the declaration being scanned.       *)
ScanStepUnkeyed(st, x) ==
    LET closing == x.t.k = "}"
        depth == IF closing /\ st.depth > 0 THEN st.depth - 1 ELSE st.depth
        atStart == st.atStart \/ (closing /\ depth = 0)
        opens == depth = 0 /\ atStart /\ ~closing
    IN  [depth   |-> IF x.t.k = "{" THEN depth + 1 ELSE depth,
         stack   |-> CASE x.t.k = "{" -> Append(st.stack, x.ln)
                       [] closing /\ st.stack # <<>> -> Front(st.stack)
                       [] OTHER -> st.stack,
         spans   |-> IF closing /\ st.stack # <<>>
                     THEN Append(st.spans, [open |-> Last(st.stack), close |-> x.ln]) ELSE st.spans,
         atStart |-> atStart /\ ~opens,
         decl    |-> st.decl]

ScanStep(st, x) ==
    LET closing == x.t.k = "}"
        depth == IF closing /\ st.depth > 0 THEN st.depth - 1 ELSE st.depth
        atStart == st.atStart \/ (closing /\ depth = 0)
        opens == depth = 0 /\ atStart /\ ~closing
    IN  [depth   |-> IF x.t.k = "{" THEN depth + 1 ELSE depth,
         stack   |-> CASE x.t.k = "{" -> Append(st.stack, x.ln)
                       [] closing /\ st.stack # <<>> -> Front(st.stack)
                       [] OTHER -> st.stack,
         spans   |-> IF closing /\ st.stack # <<>>
                     THEN Append(st.spans, [open |-> Last(st.stack), close |-> x.ln]) ELSE st.spans,
         atStart |-> atStart /\ ~opens,
         decl    |-> IF opens THEN x.ln ELSE st.decl]

(* The scan after each line of the source, from no line on.                *)
Scans(src) ==
    LET start == [depth |-> 0, stack |-> <<>>, spans |-> <<>>, atStart |-> TRUE, decl |-> 0]
        ScanLine(sts, l) == Append(sts, Through(ScanStep, Last(sts), LexLine(src, l)))
    IN  Through(ScanLine, <<start>>, [l \in DOMAIN src |-> l])

(* buildCommentIndex: leading[l] and byBlock[l] are the comments that lead *)
(* line l and that lie in a block opened on line l; trailing[l] the one at *)
(* the end of line l.                                                      *)
buildCommentIndex(src) ==
    LET lines == DOMAIN src
        scans == Scans(src)
        noted == SelectSeq([l \in lines |-> l], LAMBDA l : src[l].note # 0)
        After(l) == scans[l + 1]
        spans == After(Len(src)).spans
        Encloses(s, l) == s.open < l /\ l <= s.close
        around(l) == {i \in DOMAIN spans : Encloses(spans[i], l)}
        closeLine(l) == IF around(l) = {} THEN Len(src) + 1
                        ELSE LET open == Max({spans[i].open : i \in around(l)})
                             IN  spans[Min({i \in around(l) : spans[i].open = open})].close
        lineDepth(a) == LET depth == After(a - 1).depth
                        IN  IF Head(src[a].ts).k = "}" /\ depth > 0 THEN depth - 1 ELSE depth
        anchors(l) == {a \in l + 1 .. closeLine(l) - 1 : src[a].ts # <<>> /\ lineDepth(a) = After(l).depth}
        anchor == [l \in Range(noted) |->
                      IF Standalone(src[l]) /\ anchors(l) # {} THEN Min(anchors(l)) ELSE 0]
        Within(l, b) == \/ \E i \in DOMAIN spans : spans[i].open = b /\ Encloses(spans[i], l)
                        \/ ~After(l).atStart /\ After(l).decl = b
        Ids(P(_)) == LET ls == SelectSeq(noted, P) IN [i \in DOMAIN ls |-> src[ls[i]].note]
    IN  IF noted = <<>>
        THEN [leading |-> [a \in lines |-> <<>>], byBlock |-> [b \in lines |-> <<>>],
              trailing |-> [l \in lines |-> 0], ids |-> <<>>]
        ELSE [leading  |-> [a \in lines |-> Ids(LAMBDA l : anchor[l] = a)],
              byBlock  |-> [b \in lines |-> Ids(LAMBDA l : Within(l, b))],
              trailing |-> [l \in lines |-> IF Standalone(src[l]) THEN 0 ELSE src[l].note],
              ids      |-> Notes(src)]

newPrinter(idx) == [out |-> <<>>, emitted |-> {}, idx |-> idx]

Write(q, tokens) == [q EXCEPT !.out = Append(@, Line(tokens, 0))]

emitComment(q, id) ==
    IF id \in q.emitted THEN q
    ELSE [q EXCEPT !.out = Append(@, Line(<<>>, id)), !.emitted = @ \cup {id}]

EmitAll(q, ids) == Through(emitComment, q, ids)

leadingBefore(q, line) == EmitAll(q, q.idx.leading[line])
blockTail(q, line) == EmitAll(q, q.idx.byBlock[line])
flushRemaining(q) == EmitAll(q, q.idx.ids)

(* field: a line, with the comment that trails it in the source.           *)
field(q, tokens, line) ==
    LET id == q.idx.trailing[line]
    IN  IF id = 0 \/ id \in q.emitted THEN Write(q, tokens)
        ELSE [q EXCEPT !.out = Append(@, Line(tokens, id)), !.emitted = @ \cup {id}]

(***************************************************************************)
(* Expressions.                                                            *)
(***************************************************************************)

Join(seqs, sep) ==
    FlattenSeq([i \in DOMAIN seqs |-> IF i = 1 THEN seqs[i] ELSE sep \o seqs[i]])

dottedName(ref) == Join([i \in DOMAIN ref.c |-> <<Name(ref.c[i].s)>>], <<T(".")>>)

(* FormatFloat 'g' writes a large float with an exponent.                  *)
printLit(n) ==
    CASE n.k = "string" -> <<Quoted(n.v)>>
      [] n.k = "bool"   -> <<Name(n.s)>>
      [] OTHER          -> <<Number(n.s)>>

binPrec(op) == CASE op = "||" -> 1 [] op = "&&" -> 2 [] OTHER -> 3

RECURSIVE printExpr(_)

Parens(toks) == <<T("(")>> \o toks \o <<T(")")>>

printBinOperandLoose(e, op, isRight) ==
    IF e.k = "bin" /\ binPrec(e.s) < binPrec(op) THEN Parens(printExpr(e)) ELSE printExpr(e)

printBinOperand(e, op, isRight) ==
    LET cp == binPrec(e.s)
        pp == binPrec(op)
    IN  IF e.k = "bin" /\ (cp < pp \/ (cp = pp /\ isRight)) THEN Parens(printExpr(e)) ELSE printExpr(e)

parenIfBinary(e) == IF e.k = "bin" THEN Parens(printExpr(e)) ELSE printExpr(e)

printArg(a) == (IF a.s = "" THEN <<>> ELSE <<Name(a.s), T(":")>>) \o printExpr(a.c[1])

printArgs(args) == Join([i \in DOMAIN args |-> printArg(args[i])], <<T(",")>>)

printExpr(e) ==
    CASE e.k = "ref"    -> dottedName(e)
      [] e.k = "not"    -> <<T("!")>> \o parenIfBinary(e.c[1])
      [] e.k = "bin"    -> printBinOperand(e.c[1], e.s, FALSE) \o <<T(e.s)>>
                           \o printBinOperand(e.c[2], e.s, TRUE)
      [] e.k = "call"   -> dottedName(e.c[1]) \o Parens(printArgs(Tail(e.c)))
      [] e.k = "object" -> <<T("{")>> \o printArgs(e.c) \o <<T("}")>>
      [] OTHER          -> printLit(e)

(***************************************************************************)
(* Fields and blocks.  The order is the printer's own.                     *)
(***************************************************************************)

printAgent == <<"model", "policy", "description", "instructions", "constraints", "grants", "input", "output">>
printConstraints == <<"maxIterations", "maxTokens", "timeoutSeconds", "temperature", "requireStructuredOutput">>
printTool == <<"type", "mcp", "http", "workspace", "retry", "limits", "safety", "operations">>
printMCP == <<"transport", "command", "args", "url", "headers">>
printHTTP == <<"baseUrl", "headers">>
printWorkspace == <<"root", "testCommand">>
printRetry == <<"maxAttempts", "backoff">>
printSafety == <<"trusted", "sideEffects", "requiresApproval">>
printOperation == <<"schema", "effects">>
printPolicy == <<"preset", "execution", "approvals", "effects", "hitl", "tools">>
printExecutionAt == <<"maxTotalCostUsd", "maxWallClockSeconds", "maxIterations", "requireStructuredOutput">>
printApprovalsAt == <<"requiredFor", "requireAllTools", "permissive">>
printPermits == <<"permit", "permitWithApproval">>
printPolicyTools == <<"forbidUnknownTools">>
printHitlAt == <<"descriptionPrefix", "redactKeys", "toolSwitchMap", "interruptOn">>
printInterruptConfig == <<"allowedDecisions", "description", "allowedEditArgs", "deniedEditArgs",
    "allowedEditPaths", "deniedEditPaths", "allowedEditTools", "switchMap", "redactKeys">>
printEnvironment == <<"overrides">>
printOverrides == <<"agents", "policies">>
printAgentOverride == <<"model", "constraints">>
printPolicyOverride == <<"execution", "approvals">>
printProvider == <<"type", "baseUrl", "apiKeyFrom", "workspaceIdFrom">>
printLimitsBlockAt == <<"maxToolInputBytes", "maxToolOutputBytes", "maxCheckpointBytes", "maxStateBytes",
    "maxWorkflowNesting", "maxLoopIterations", "toolInputExceedPolicy", "toolOutputExceedPolicy",
    "checkpointExceedPolicy">>
printDefaults == <<"policy", "model", "runtime">>
printApproval == <<"description", "redactKeys", "with">>

Order == [agent |-> printAgent, constraints |-> printConstraints, tool |-> printTool, mcp |-> printMCP,
    http |-> printHTTP, workspace |-> printWorkspace, retry |-> printRetry, safety |-> printSafety,
    operation |-> printOperation, policy |-> printPolicy, execution |-> printExecutionAt,
    approvals |-> printApprovalsAt, permits |-> printPermits, tools |-> printPolicyTools,
    hitl |-> printHitlAt, interrupt |-> printInterruptConfig, environment |-> printEnvironment,
    overrides |-> printOverrides, agentOverride |-> printAgentOverride,
    policyOverride |-> printPolicyOverride, provider |-> printProvider,
    limits |-> printLimitsBlockAt, defaults |-> printDefaults, approval |-> printApproval]

(* The blocks whose fields a comment can be glued to.                      *)
Hooked == {"agent", "tool", "policy", "permits", "environment", "agentOverride", "policyOverride",
           "provider", "defaults"}

(* The lists printed on one line, and the blocks drained before their end. *)
Inline == {"strings", "effects", "decisions", "targets"}
Drained == DOMAIN Order \ {"interrupt", "approval", "operation"}

InField(b, name) == SelectSeq(b.c, LAMBDA f : f.s = name)

(* printStringField: a value of several lines prints as a """ block, its   *)
(* lines indented and its closing delimiter on a line of its own.          *)
printStringField(v, indent) ==
    IF Len(v) = 1 THEN Quoted(v)
    ELSE Block([i \in DOMAIN v |-> IF v[i] = <<0, "">> THEN v[i] ELSE <<v[i][1] + indent, v[i][2]>>]
               \o <<<<indent, "">>>>)

printAtom(n) ==
    CASE n.k = "ref"    -> dottedName(n)
      [] n.k = "id"     -> <<Name(n.s)>>
      [] n.k = "model"  -> <<Name(n.c[1].s), T("/"), Name(n.c[2].s)>>
      [] n.k = "file"   -> <<Name("file")>> \o Parens(<<Quoted(n.c[1].v)>>)
      [] n.k = "header" -> <<Quoted(n.c[1].v), Quoted(n.c[2].v)>>
      [] n.k = "arg"    -> printArg(n)
      [] OTHER          -> printLit(n)

(* FormatFloat 'f' never writes an exponent.                               *)
FormatPlain(text) == IF text = "1e+20" THEN "100000000000000000000" ELSE text

(* joinEffects puts commas between effects, the other lists none.          *)
printInline(list) ==
    <<T("{")>> \o Join([i \in DOMAIN list.c |-> printAtom(list.c[i])],
                       IF list.k = "effects" THEN <<T(",")>> ELSE <<>>) \o <<T("}")>>

RECURSIVE printBlock(_, _, _, _)
RECURSIVE printFields(_, _, _, _)

(* One operation is one line, whatever its body.                           *)
printOperationLine(e) ==
    LET clause(name) == FlattenSeq([i \in DOMAIN InField(e.c[2], name) |->
                            LET v == InField(e.c[2], name)[i].c[1]
                            IN  <<Name(name)>> \o IF v.k = "effects" THEN printInline(v) ELSE printLit(v)])
    IN  dottedName(e.c[1]) \o <<T("{")>> \o FlattenSeq([i \in DOMAIN printOperation |-> clause(printOperation[i])])
        \o <<T("}")>>

(* The entries of operations, interruptOn, switch maps and overrides: only *)
(* operations and overrides have places for comments.                      *)
printEntry(g, q, e) ==
    LET name == printAtom(e.c[1])
        led == IF g \in {"operations", "agents", "policies"} THEN leadingBefore(q, e.l) ELSE q
    IN  CASE g = "operations" -> field(led, printOperationLine(e), e.l)
          [] g = "switches"   -> Write(q, name \o printInline(e.c[2]))
          [] Len(e.c) = 1     -> Write(q, name)
          [] OTHER -> LET b == printFields(Write(led, name \o <<T("{")>>), e.c[2].k, e.c[2], Order[e.c[2].k])
                      IN  Write(IF g = "interrupts" THEN b ELSE blockTail(b, e.l), <<T("}")>>)

printField(q, g, f) ==
    LET v == f.c[1]
        key == <<Name(f.s)>>
        line == CASE g = "permits" -> v.c[1].l [] v.k = "grants" -> f.l [] OTHER -> v.l
        led == IF g \in Hooked THEN leadingBefore(q, line) ELSE q
        indent == 4
    IN  CASE v.k = "string" /\ Len(v.v) > 1 -> Write(led, key \o <<printStringField(v.v, indent)>>)
          [] v.k \in {"string", "file"} \/ (v.k \in {"id", "model"} /\ g \in Hooked) ->
                field(led, key \o printAtom(v), line)
          [] g = "permits" -> field(led, key \o printInline(v), line)
          [] v.k \in Inline -> Write(led, key \o printInline(v))
          [] f.s = "maxTotalCostUsd" -> Write(led, key \o <<Number(FormatPlain(v.s))>>)
          [] v.k \in {"id", "int", "float", "bool"} -> Write(led, key \o printAtom(v))
          [] OTHER -> printBlock(led, g, f, v)

(* constraints keep the comment of their opening line; grants hook each    *)
(* entry and are drained, requiredFor is neither.                          *)
printBlock(q, g, f, v) ==
    LET head == <<Name(f.s), T("{")>>
        opened == IF v.k = "constraints" /\ g = "agent" THEN field(q, head, v.l) ELSE Write(q, head)
        Granted(r, x) == IF g = "agent" THEN field(leadingBefore(r, x.l), printAtom(x), x.l)
                         ELSE Write(r, printAtom(x))
        Atom(r, x) == Write(r, printAtom(x))
        Item(r, x) == printEntry(v.k, r, x)
        body == CASE v.k \in DOMAIN Order -> printFields(opened, v.k, v, Order[v.k])
                  [] v.k = "grants"       -> Through(Granted, opened, v.c)
                  [] v.k \in {"headers", "with"} -> Through(Atom, opened, v.c)
                  [] OTHER                -> Through(Item, opened, v.c)
        tailed == CASE v.k \in Drained \/ v.k = "operations" -> blockTail(body, v.l)
                    [] v.k = "grants" /\ g = "agent" -> blockTail(body, f.l)
                    [] OTHER -> body
    IN  IF v.k = "operations" /\ v.c = <<>> THEN Write(q, head \o <<T("}")>>) ELSE Write(tailed, <<T("}")>>)

printFields(q, g, block, names) ==
    Through(LAMBDA r, name : Through(LAMBDA s, f : printField(s, g, f), r, InField(block, name)), q, names)

(***************************************************************************)
(* Statements.                                                             *)
(***************************************************************************)

RECURSIVE printStmt(_, _)
RECURSIVE printIf(_, _)

printStmts(q, body) == Through(printStmt, q, body.c)

(* An else arm that is one if statement is joined to the closing brace; it *)
(* is then the nested statement that drains its own block, not this one.   *)
printIf(q, n) ==
    LET then == printStmts(Write(q, <<T("if")>> \o printExpr(n.c[1]) \o <<T("{")>>), n.c[2])
        arm == n.c[3]
        chained == Len(n.c) = 3 /\ Len(arm.c) = 1 /\ arm.c[1].k = "if"
        nested == printIf([then EXCEPT !.out = <<>>], arm.c[1])
        joined == Line(<<T("}"), T("else")>> \o Head(nested.out).ts, Head(nested.out).note)
        alt == IF Len(n.c) = 3 THEN printStmts(Write(then, <<T("}"), T("else"), T("{")>>), arm) ELSE then
    IN  IF chained THEN [nested EXCEPT !.out = then.out \o <<joined>> \o Tail(@)]
        ELSE Write(blockTail(alt, n.l), <<T("}")>>)

printStmt(q, n) ==
    LET r == leadingBefore(q, n.l)
        In(head, body) == Write(blockTail(printStmts(Write(r, head \o <<T("{")>>), body), n.l), <<T("}")>>)
        bounded(words) == words \o printExpr(n.c[1]) \o <<Name("limit"), Number(n.s)>>
    IN  CASE n.k = "assign"   -> field(r, <<Name(n.s), T("=")>> \o printExpr(n.c[1]), n.l)
          [] n.k = "expr"     -> field(r, printExpr(n.c[1]), n.l)
          [] n.k = "return"   -> field(r, <<T("return")>> \o printExpr(n.c[1]), n.l)
          [] n.k = "parallel" -> In(<<T("parallel")>>, n)
          [] n.k = "if"       -> printIf(r, n)
          [] n.k = "for"      -> In(<<T("for"), Name(n.s), Name("in")>> \o printExpr(n.c[1]), n.c[2])
          [] n.k = "parallel for" ->
                In(<<T("parallel"), T("for"), Name(n.s), Name("in")>> \o printExpr(n.c[1]), n.c[2])
          [] n.k = "while"    -> In(bounded(<<T("while")>>), n.c[2])
          [] n.k = "retry"    -> In(bounded(<<Name("retry"), Name("until")>>), n.c[2])
          [] n.k = "approval" -> Write(printFields(Write(r, <<Name("approval"), Name(n.s), T("{")>>),
                                                   "approval", n.c[1], printApproval), <<T("}")>>)

(***************************************************************************)
(* Declarations.                                                           *)
(***************************************************************************)

(* A description moves the clauses and the opening brace to lines of their *)
(* own.                                                                    *)
printWorkflow(q, w) ==
    LET params == Join([i \in DOMAIN w.c[1].c |->
                            <<Name(w.c[1].c[i].s), T(":"), Name(w.c[1].c[i].c[1].s)>>], <<T(",")>>)
        Clause(f) == <<Name(f.s)>> \o IF f.s = "effects" THEN printInline(f.c[1]) ELSE printAtom(f.c[1])
        clauses == [i \in DOMAIN (InField(w.c[2], "policy") \o InField(w.c[2], "effects")) |->
                        Clause((InField(w.c[2], "policy") \o InField(w.c[2], "effects"))[i])]
        result == InField(w.c[2], "result")
        head == <<T("workflow"), Name(w.s)>> \o Parens(params)
                \o IF result = <<>> THEN <<>> ELSE <<T("->"), Name(result[1].c[1].s)>>
        described == InField(w.c[2], "description")
        opened == IF described = <<>> THEN Write(q, head \o FlattenSeq(clauses) \o <<T("{")>>)
                  ELSE Write(Through(Write, printFields(Write(q, head), "workflow", w.c[2], <<"description">>), clauses), <<T("{")>>)
    IN  Write(blockTail(printStmts(opened, w.c[3]), w.l), <<T("}")>>)

printDecl(q, d) ==
    LET name == IF d.k \in {"defaults", "limits"} THEN <<>> ELSE <<Name(d.s)>>
        keyword == IF d.k = "agent" THEN T("agent") ELSE Name(d.k)
        body == printFields(Write(q, <<keyword>> \o name \o <<T("{")>>), d.k, d.c[1], Order[d.k])
    IN  Write(blockTail(body, IF d.k = "limits" THEN d.c[1].l ELSE d.l), <<T("}")>>)

PrintFile(file, idx) ==
    LET One(q, d) == LET r == leadingBefore(q, d.l)
                     IN  IF d.k = "workflow" THEN printWorkflow(r, d) ELSE printDecl(r, d)
    IN  flushRemaining(Through(One, newPrinter(idx), file.c)).out
=============================================================================
