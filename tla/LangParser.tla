----------------------------- MODULE LangParser -----------------------------
(***************************************************************************)
(* The recursive-descent parser of .agent sources (internal/lang/parser.go *)
(* and parser_resources.go).                                               *)
(*                                                                         *)
(* A parser p is its tokens, its place in them and whether it has recorded *)
(* a diagnostic; a production maps it to <<node, p'>>.  Every declaration  *)
(* body, nested block and list of the language has the same control: open  *)
(* brace, items until the closing one, an item that cannot be read costs   *)
(* its line.  They are one operator here, Items, and a production g says   *)
(* what an item is; the fields of each block are a table read off the      *)
(* switch of the function that parses it.                                  *)
(***************************************************************************)
EXTENDS LangSyntax

newParser(src) == [ts |-> Lex(src), i |-> 1, e |-> LexErrors(src)]

EOF == [t |-> T("eof"), ln |-> 0]
At(p, j) == IF p.i + j <= Len(p.ts) THEN p.ts[p.i + j] ELSE EOF
Kind(p) == At(p, 0).t.k
Peek(p) == At(p, 1).t.k
Text(p) == At(p, 0).t.s
LineOf(p) == At(p, 0).ln
Word(p, w) == Kind(p) = "ident" /\ Text(p) = w

advance(p) == [p EXCEPT !.i = IF @ > Len(p.ts) THEN @ ELSE @ + 1]
errorf(p) == [p EXCEPT !.e = TRUE]
expect(p, k) == IF Kind(p) = k THEN advance(p) ELSE errorf(p)

ident(p) ==
    IF Kind(p) = "ident"
    THEN <<Node("id", Text(p), <<>>, LineOf(p), <<>>), advance(p)>>
    ELSE <<Nil, errorf(p)>>

(***************************************************************************)
(* Recovery.                                                               *)
(***************************************************************************)

RECURSIVE skipLine(_, _)
skipLine(p, line) ==
    IF Kind(p) \in {"eof", "}"} \/ LineOf(p) # line THEN p ELSE skipLine(advance(p), line)

syncLine(p) == skipLine(advance(p), LineOf(p))

RECURSIVE syncList(_)
syncList(p) ==
    CASE Kind(p) \in {"eof", ")"} -> p
      [] Kind(p) = ","            -> advance(p)
      [] OTHER                    -> syncList(advance(p))

isResourceDeclKeyword(p) ==
    Kind(p) = "ident" /\ Text(p) \in {"tool", "policy", "environment", "provider", "defaults", "limits"}

RECURSIVE skipToDecl(_)
skipToDecl(p) ==
    IF Kind(p) \in {"eof", "agent", "workflow"} \/ isResourceDeclKeyword(p)
    THEN p ELSE skipToDecl(advance(p))

syncTopLevel(p) == skipToDecl(advance(p))

(***************************************************************************)
(* The fields of each block, and the production of each field's value.     *)
(***************************************************************************)

parseAgent == [model |-> "model", policy |-> "ident", description |-> "string",
    instructions |-> "instructions", constraints |-> "constraints", grants |-> "grants",
    input |-> "ident", output |-> "ident"]
parseConstraints == [maxIterations |-> "int", maxTokens |-> "int", timeoutSeconds |-> "int",
    temperature |-> "float", requireStructuredOutput |-> "bool"]
parseTool == [type |-> "ident", mcp |-> "mcp", http |-> "http", workspace |-> "workspace",
    retry |-> "retry", limits |-> "limits", safety |-> "safety", operations |-> "operations"]
parseToolLimits == [maxToolInputBytes |-> "int", maxToolOutputBytes |-> "int",
    maxCheckpointBytes |-> "int", maxStateBytes |-> "int", maxWorkflowNesting |-> "int",
    maxLoopIterations |-> "int", toolInputExceedPolicy |-> "exceed",
    toolOutputExceedPolicy |-> "exceed", checkpointExceedPolicy |-> "exceed"]
parseToolRetry == [maxAttempts |-> "int", backoff |-> "string"]
parseToolWorkspace == [root |-> "string", testCommand |-> "string"]
parseToolSafety == [trusted |-> "bool", sideEffects |-> "bool", requiresApproval |-> "bool"]
parseToolMCP == [transport |-> "string", command |-> "string", url |-> "string",
    args |-> "strings", headers |-> "headers"]
parseToolHTTP == [baseUrl |-> "string", headers |-> "headers"]
parseToolOperation == [schema |-> "string", effects |-> "effects"]
parsePolicy == [preset |-> "ident", execution |-> "execution", approvals |-> "approvals",
    effects |-> "permits", hitl |-> "hitl", tools |-> "tools"]
parsePolicyExecution == [maxTotalCostUsd |-> "float", maxWallClockSeconds |-> "int",
    maxIterations |-> "int", requireStructuredOutput |-> "bool"]
parsePolicyApprovals == [requiredFor |-> "grants", requireAllTools |-> "bool", permissive |-> "bool"]
parsePolicyEffects == [permit |-> "effects", permitWithApproval |-> "effects"]
parsePolicyTools == [forbidUnknownTools |-> "bool"]
parsePolicyHitl == [descriptionPrefix |-> "string", redactKeys |-> "strings",
    toolSwitchMap |-> "switches", interruptOn |-> "interrupts"]
parseInterruptConfig == [allowedDecisions |-> "decisions", description |-> "string",
    allowedEditArgs |-> "strings", deniedEditArgs |-> "strings", allowedEditPaths |-> "strings",
    deniedEditPaths |-> "strings", allowedEditTools |-> "strings", switchMap |-> "switches",
    redactKeys |-> "strings"]
parseProvider == [type |-> "ident", baseUrl |-> "string", apiKeyFrom |-> "string",
    workspaceIdFrom |-> "string"]
parseDefaults == [policy |-> "ident", model |-> "model", runtime |-> "ident"]
parseEnvironment == [overrides |-> "overrides"]
parseEnvOverrides == [agents |-> "agents", policies |-> "policies"]
parseAgentOverrides == [model |-> "model", constraints |-> "constraints"]
parsePolicyOverrides == [execution |-> "execution", approvals |-> "approvals"]
parseApproval == [description |-> "string", redactKeys |-> "strings", with |-> "with"]

Fields == [agent |-> parseAgent, constraints |-> parseConstraints, tool |-> parseTool,
    limits |-> parseToolLimits, retry |-> parseToolRetry, workspace |-> parseToolWorkspace,
    safety |-> parseToolSafety, mcp |-> parseToolMCP, http |-> parseToolHTTP,
    operation |-> parseToolOperation, policy |-> parsePolicy, execution |-> parsePolicyExecution,
    approvals |-> parsePolicyApprovals, permits |-> parsePolicyEffects, tools |-> parsePolicyTools,
    hitl |-> parsePolicyHitl, interrupt |-> parseInterruptConfig, provider |-> parseProvider,
    defaults |-> parseDefaults, environment |-> parseEnvironment, overrides |-> parseEnvOverrides,
    agentOverride |-> parseAgentOverrides, policyOverride |-> parsePolicyOverrides,
    approval |-> parseApproval]

(* Some order of the fields of each block: a struct has no other.          *)
Layout == [g \in DOMAIN Fields |-> FoldSet(LAMBDA name, seq : Append(seq, name), <<>>, DOMAIN Fields[g])]

(* The lists: their items are atoms, or entries with a body of their own.  *)
Atoms == {"grants", "effects", "strings", "headers", "decisions", "targets", "with"}
Entries == [operations |-> "operation", switches |-> "targets", interrupts |-> "interrupt",
            agents |-> "agentOverride", policies |-> "policyOverride"]

(* These four consume a field's name in the case that knows it, and keep   *)
(* the first of two; the others consume it before the switch and overwrite.*)
KeepsFirst == {"agent", "tool", "policy"}
NamesLate == KeepsFirst \cup {"environment", "operation"}

(***************************************************************************)
(* Scalars.                                                                *)
(***************************************************************************)

parseStringLit(p) ==
    IF Kind(p) # "string" THEN <<Nil, errorf(p)>>
    ELSE <<Node("string", "", At(p, 0).t.v, LineOf(p), <<>>), advance(p)>>

(* The texts of number literals the model tells apart.  A whole number too *)
(* long for 64 bits becomes a float.                                       *)
Whole(text) == text \in {"0", "1", "2", "20"}
parseNumber(p) ==
    LET t == Text(p) IN
    <<Node(IF Whole(t) THEN "int" ELSE "float",
           IF t = "100000000000000000000" THEN "1e+20" ELSE t, <<>>, LineOf(p), <<>>), advance(p)>>

constraintInt(p) ==
    IF Kind(p) # "number" \/ Text(p) = "1.5" THEN <<Nil, syncLine(errorf(p))>>
    ELSE IF ~Whole(Text(p)) \/ Text(p) = "0" THEN <<Nil, advance(errorf(p))>>
    ELSE parseNumber(p)

constraintFloat(p) ==
    IF Kind(p) # "number" THEN <<Nil, syncLine(errorf(p))>>
    ELSE LET r == parseNumber(p) IN <<[r[1] EXCEPT !.k = "float"], r[2]>>

constraintBool(p) ==
    IF Word(p, "true") \/ Word(p, "false")
    THEN <<Node("bool", Text(p), <<>>, LineOf(p), <<>>), advance(p)>>
    ELSE <<Nil, syncLine(errorf(p))>>

exceedPolicy(p) ==
    IF Kind(p) # "ident" THEN <<Nil, errorf(p)>>
    ELSE IF Text(p) \in {"truncate", "fail"} THEN ident(p) ELSE <<Nil, advance(errorf(p))>>

parseModelRef(p) ==
    LET provider == ident(p)
        slash == expect(provider[2], "/")
        name == ident(slash)
    IN  IF provider[1] = Nil THEN provider
        ELSE IF Kind(provider[2]) # "/" THEN <<Nil, slash>>
        ELSE IF name[1] = Nil THEN name
        ELSE <<Node("model", "", <<>>, LineOf(p), <<provider[1], name[1]>>), name[2]>>

RECURSIVE produce(_, _)     \* the production of that name, defined last
parsePath(p) == produce("path", p)

RECURSIVE dotted(_, _)
dotted(p, parts) ==
    IF Kind(p) # "." THEN <<parts, p>>
    ELSE LET seg == ident(advance(p)) IN
         IF seg[1] = Nil THEN <<parts, seg[2]>> ELSE dotted(seg[2], Append(parts, seg[1]))

parseDottedPath(p) ==
    LET first == ident(p)
        rest == dotted(first[2], <<first[1]>>)
    IN  IF first[1] = Nil THEN first
        ELSE <<Node("ref", "", <<>>, LineOf(p), rest[1]), rest[2]>>

parseGrant(p) ==
    LET r == parsePath(p) IN
    IF r[1].c[1].s # "tool" \/ Len(r[1].c) < 3 THEN <<r[1], errorf(r[2])>> ELSE r

parseEffectRef(p) ==
    LET r == parsePath(p) IN
    IF r[1].c[1].s = "tool" THEN <<r[1], errorf(r[2])>> ELSE r

parseFileRef(p) ==
    LET open == expect(advance(p), "(")
        path == parseStringLit(open)
    IN  IF Kind(advance(p)) # "(" THEN <<Nil, open>>
        ELSE <<Node("file", "", <<>>, LineOf(p), <<path[1]>>), expect(path[2], ")")>>

parseDecision(p) ==
    IF Text(p) \in {"approve", "reject", "edit", "switch"} THEN ident(p)
    ELSE <<Nil, advance(errorf(p))>>

parseHeader(p) ==
    LET key == parseStringLit(p)
        val == parseStringLit(key[2])
    IN  IF Kind(key[2]) # "string" THEN <<Nil, syncLine(errorf(key[2]))>>
        ELSE <<Node("header", "", <<>>, LineOf(p), <<key[1], val[1]>>), val[2]>>

(***************************************************************************)
(* Expressions: || then && then one comparison then ! then primaries.      *)
(***************************************************************************)

RECURSIVE orRest(_)
RECURSIVE andRest(_)
RECURSIVE Items(_, _)
RECURSIVE parens(_, _)

parseExpr(p) == produce("expr", p)

Binary(op, x, y) == Node("bin", op, <<>>, x.l, <<x, y>>)

isComparisonOp(k) == k \in {"==", "!=", "<", "<=", ">", ">="}

parseArg(p) ==
    LET named == Kind(p) = "ident" /\ Peek(p) = ":"
        r == parseExpr(IF named THEN advance(advance(p)) ELSE p)
    IN  IF r[1] = Nil /\ ~named THEN r
        ELSE <<Node("arg", IF named THEN Text(p) ELSE "", <<>>, LineOf(p), <<r[1]>>), r[2]>>

parseParam(p) ==
    LET name == ident(p)
        type == ident(expect(name[2], ":"))
    IN  IF name[1] = Nil THEN name
        ELSE <<Node("param", name[1].s, <<>>, LineOf(p), <<type[1]>>), type[2]>>

(* parseArgs and parseParams between their parentheses: st is <<the items  *)
(* so far, the parser>>.                                                   *)
ParenItem(st, r) ==
    CASE r[1] = Nil       -> <<st[1], syncList(r[2]), TRUE>>
      [] Kind(r[2]) = "," -> <<Append(st[1], r[1]), advance(r[2]), TRUE>>
      [] OTHER            -> <<Append(st[1], r[1]), r[2], FALSE>>

parens(g, st) ==
    IF ~st[3] \/ Kind(st[2]) \in {")", "eof"} THEN st
    ELSE parens(g, ParenItem(st, IF g = "args" THEN parseArg(st[2]) ELSE parseParam(st[2])))

Closed(r, close) == <<r[1], expect(r[2], close)>>

parseParens(g, p) ==
    IF Kind(p) # "(" THEN <<<<>>, errorf(p)>> ELSE Closed(parens(g, <<<<>>, advance(p), TRUE>>), ")")

(* { item* }.  The node of a block of fields is the struct the code fills: *)
(* its fields in one fixed order, and an empty list is no list at all,     *)
(* except an explicit empty operations block.                              *)
Canon(g, items) ==
    LET EmptyList(f) == /\ f.c[1].k \in Atoms \cup (DOMAIN Entries \ {"operations"})
                        /\ f.c[1].c = <<>>
        set == {i \in DOMAIN items : ~EmptyList(items[i])}
        names == SelectSeq(Layout[g], LAMBDA n : \E i \in set : items[i].s = n)
    IN  IF g \notin DOMAIN Fields THEN items
        ELSE [j \in DOMAIN names |-> items[CHOOSE i \in set : items[i].s = names[j]]]

parseBraces(g, p) ==
    LET Read(r) == <<Node(g, "", <<>>, LineOf(p), Canon(g, r[1])), expect(r[2], "}")>>
    IN  IF Kind(p) # "{" THEN <<Node(g, "", <<>>, LineOf(p), <<>>), errorf(p)>>
        ELSE Read(Items(g, <<<<>>, advance(p)>>))

parsePrimary(p) ==
    CASE Kind(p) = "number" -> parseNumber(p)
      [] Kind(p) = "string" -> parseStringLit(p)
      [] Kind(p) = "("      -> LET r == parseExpr(advance(p)) IN <<r[1], expect(r[2], ")")>>
      [] Kind(p) = "{"      -> produce("object", p)
      [] Kind(p) = "ident"  ->
            IF Text(p) \in {"true", "false"} /\ Peek(p) \notin {".", "("} THEN constraintBool(p)
            ELSE LET ref == parsePath(p)
                     args == produce("args", ref[2])
                 IN  IF Kind(ref[2]) # "(" THEN ref
                     ELSE <<Node("call", "", <<>>, LineOf(p), <<ref[1]>> \o args[1]), args[2]>>
      [] OTHER              -> <<Nil, errorf(p)>>

parseUnary(p) ==
    IF Kind(p) # "!" THEN parsePrimary(p)
    ELSE LET r == produce("unary", advance(p)) IN <<Node("not", "", <<>>, LineOf(p), <<r[1]>>), r[2]>>

parseComparison(p) ==
    LET x == produce("unary", p)
        op == Kind(x[2])
        y == produce("unary", advance(x[2]))
    IN  IF x[1] = Nil \/ ~isComparisonOp(op) THEN x
        ELSE <<Binary(op, x[1], y[1]),
               IF isComparisonOp(Kind(y[2])) THEN errorf(y[2]) ELSE y[2]>>

andRest(r) ==
    IF r[1] = Nil \/ Kind(r[2]) # "&&" THEN r
    ELSE LET y == parseComparison(advance(r[2])) IN andRest(<<Binary("&&", r[1], y[1]), y[2]>>)

parseAnd(p) == andRest(parseComparison(p))

orRest(r) ==
    IF r[1] = Nil \/ Kind(r[2]) # "||" THEN r
    ELSE LET y == parseAnd(advance(r[2])) IN orRest(<<Binary("||", r[1], y[1]), y[2]>>)

parseOr(p) == orRest(parseAnd(p))

(***************************************************************************)
(* Blocks and lists.                                                       *)
(***************************************************************************)

(* Mutant: the line is skipped without a diagnostic.                       *)
SkipSilently(p, acc) == <<acc, syncLine(p)>>

Skip(p, acc) == <<acc, syncLine(errorf(p))>>

FieldItem(g, p, acc) ==
    LET f == Text(p)
        known == f \in DOMAIN Fields[g]
        seen == \E i \in DOMAIN acc : acc[i].s = f
        r == produce(Fields[g][f], advance(p))
        next == IF seen /\ g # "operation" THEN errorf(r[2]) ELSE r[2]
        field == FieldNode(f, LineOf(p), r[1])
    IN  CASE Kind(p) # "ident"            -> Skip(p, acc)
          [] Kind(p) = "ident" /\ ~known  -> Skip(IF g \in NamesLate THEN p ELSE advance(p), acc)
          [] OTHER -> <<IF r[1] = Nil \/ (seen /\ g \in KeepsFirst) THEN acc
                        ELSE Append(SelectSeq(acc, LAMBDA h : h.s # f), field), next>>

EntryItem(g, p, acc) ==
    LET name == IF g \in {"operations", "switches"} THEN parsePath(p) ELSE ident(p)
        seen == \E i \in DOMAIN acc : Strip(acc[i].c[1]) = Strip(name[1])
        q == IF seen THEN errorf(name[2]) ELSE name[2]
        body == produce(Entries[g], q)
        Entry(parts) == Append(acc, EntryNode(LineOf(p), parts))
    IN  CASE Kind(p) # "ident" -> Skip(p, acc)
          [] Kind(p) = "ident" /\ Kind(q) = "{" -> <<Entry(<<name[1], body[1]>>), body[2]>>
          [] OTHER -> IF g = "interrupts" THEN <<Entry(<<name[1]>>), q>> ELSE <<acc, errorf(q)>>

Atom(g, p) ==
    CASE g = "grants"    -> parseGrant(p)
      [] g = "effects"   -> parseEffectRef(p)
      [] g = "strings"   -> parseStringLit(p)
      [] g = "headers"   -> parseHeader(p)
      [] g = "decisions" -> parseDecision(p)
      [] g = "targets"   -> parsePath(p)
      [] g = "with"      -> parseArg(p)

AtomItem(g, p, acc) ==
    LET Comma(q) == IF g \in {"grants", "effects", "with"} /\ Kind(q) = "," THEN advance(q) ELSE q
        Take(r) == IF r[1] = Nil THEN <<acc, IF g = "with" THEN syncLine(r[2]) ELSE r[2]>>
                   ELSE <<Append(acc, r[1]), Comma(r[2])>>
    IN  CASE g \in {"strings", "headers"} /\ Kind(p) # "string" -> Skip(p, acc)
          [] g \in {"grants", "effects", "decisions", "targets"} /\ Kind(p) # "ident" -> Skip(p, acc)
          [] OTHER -> Take(Atom(g, p))

ObjectItem(p, acc) ==
    LET r == parseExpr(advance(advance(p)))
    IN  CASE Kind(p) = ","     -> <<acc, advance(p)>>
          [] Kind(p) \notin {",", "ident"} -> Skip(p, acc)
          [] OTHER -> IF Peek(p) # ":" THEN Skip(advance(p), acc)
                      ELSE <<Append(acc, Node("arg", Text(p), <<>>, LineOf(p), <<r[1]>>)), r[2]>>

parseAssign(p) ==
    LET r == parseExpr(advance(advance(p)))
    IN  <<Node("assign", Text(p), <<>>, LineOf(p), <<r[1]>>), r[2]>>

StmtItem(g, p, acc) ==
    LET r == IF g = "body" THEN produce("stmt", p)
             ELSE IF Kind(p) = "ident" /\ Peek(p) = "=" THEN parseAssign(p) ELSE <<Nil, errorf(p)>>
    IN  IF r[1] = Nil THEN <<acc, syncLine(r[2])>> ELSE <<Append(acc, r[1]), r[2]>>

Item(g, acc, p) ==
    CASE g \in DOMAIN Fields  -> FieldItem(g, p, acc)
      [] g \in DOMAIN Entries -> EntryItem(g, p, acc)
      [] g \in Atoms          -> AtomItem(g, p, acc)
      [] g = "object"         -> ObjectItem(p, acc)
      [] OTHER                -> StmtItem(g, p, acc)

Items(g, st) == IF Kind(st[2]) \in {"}", "eof"} THEN st ELSE Items(g, Item(g, st[1], st[2]))

(***************************************************************************)
(* Statements.                                                             *)
(***************************************************************************)

parseBlock(p) == produce("body", p)

parseLimit(p) ==
    IF Kind(p) # "number" THEN <<"0", errorf(p)>>
    ELSE IF ~Whole(Text(p)) \/ Text(p) = "0" THEN <<"0", errorf(advance(p))>>
    ELSE <<Text(p), advance(p)>>

(* parseWhile and parseRetry from their condition on.                      *)
parseBounded(kind, p, start) ==
    LET cond == parseExpr(start)
        limit == IF Word(cond[2], "limit") THEN parseLimit(advance(cond[2]))
                 ELSE <<"0", errorf(cond[2])>>
        body == parseBlock(limit[2])
    IN  <<Node(kind, limit[1], <<>>, LineOf(p), <<cond[1], body[1]>>), body[2]>>

parseFor(kind, p, start) ==
    LET var == ident(advance(start))
        in == IF Word(var[2], "in") THEN advance(var[2]) ELSE errorf(var[2])
        coll == parseExpr(in)
        body == parseBlock(coll[2])
    IN  <<Node(kind, IF var[1] = Nil THEN "_" ELSE var[1].s, <<>>, LineOf(p), <<coll[1], body[1]>>), body[2]>>

(* An else arm is its statements: else if is an arm of one if statement.   *)
parseIf(p) ==
    LET cond == parseExpr(advance(p))
        then == parseBlock(cond[2])
        q == advance(then[2])
        alt == IF Kind(q) = "if"
               THEN LET nested == produce("stmt", q) IN <<Node("body", "", <<>>, LineOf(q), <<nested[1]>>), nested[2]>>
               ELSE parseBlock(q)
        stmt(arms) == Node("if", "", <<>>, LineOf(p), <<cond[1], then[1]>> \o arms)
    IN  IF Kind(then[2]) # "else" THEN <<stmt(<<>>), then[2]>>
        ELSE <<stmt(IF alt[1].c = <<>> THEN <<>> ELSE <<alt[1]>>), alt[2]>>

parseStmt(p) ==
    LET value == parseExpr(IF Kind(p) = "return" THEN advance(p) ELSE p)
        bind == ident(advance(p))
        body == produce("approval", bind[2])
        branches == produce("branches", advance(p))
    IN  CASE Kind(p) = "return" -> <<Node("return", "", <<>>, LineOf(p), <<value[1]>>), value[2]>>
          [] Kind(p) = "if"     -> parseIf(p)
          [] Kind(p) = "for"    -> parseFor("for", p, p)
          [] Kind(p) = "while"  -> parseBounded("while", p, advance(p))
          [] Kind(p) = "parallel" ->
                IF Peek(p) = "for" THEN parseFor("parallel for", p, advance(p))
                ELSE <<Node("parallel", "", <<>>, LineOf(p), branches[1].c), branches[2]>>
          [] Kind(p) = "ident" ->
                IF Text(p) = "retry" /\ Peek(p) = "ident" /\ At(p, 1).t.s = "until"
                THEN parseBounded("retry", p, advance(advance(p)))
                ELSE IF Text(p) = "approval" /\ Peek(p) = "ident"
                THEN <<Node("approval", bind[1].s, <<>>, LineOf(p), <<body[1]>>), body[2]>>
                ELSE IF Peek(p) = "=" THEN parseAssign(p)
                ELSE IF value[1] = Nil THEN value
                ELSE <<Node("expr", "", <<>>, value[1].l, <<value[1]>>), value[2]>>
          [] OTHER -> <<Nil, errorf(p)>>

(***************************************************************************)
(* Declarations.                                                           *)
(***************************************************************************)

(* The header clauses of a workflow: each is read while it is not yet set, *)
(* an empty effects clause leaves it unset.                                *)
RECURSIVE headerClauses(_, _)
headerClauses(p, acc) ==
    LET f == Text(p)
        free == Kind(p) = "ident" /\ f \in {"description", "policy", "effects"}
                /\ \A i \in DOMAIN acc : acc[i].s # f
        r == produce(CASE f = "description" -> "string" [] f = "policy" -> "ident" [] OTHER -> f, advance(p))
        unset == r[1] = Nil \/ (f = "effects" /\ r[1].c = <<>>)
        field == FieldNode(f, LineOf(p), r[1])
    IN  IF ~free THEN <<acc, p>>
        ELSE headerClauses(r[2], IF unset THEN acc ELSE Append(acc, field))

parseWorkflow(p) ==
    LET name == ident(advance(p))
        params == produce("params", name[2])
        result == ident(advance(params[2]))
        arrow == Kind(params[2]) = "->"
        clauses == headerClauses(IF arrow THEN result[2] ELSE params[2], <<>>)
        typed == IF arrow THEN <<FieldNode("result", LineOf(p), result[1])>> ELSE <<>>
        body == parseBlock(clauses[2])
        header == SortSeq(clauses[1], LAMBDA f, h : f.s = "description" \/ (f.s = "policy" /\ h.s = "effects"))
    IN  <<Node("workflow", name[1].s, <<>>, LineOf(p),
               <<Node("params", "", <<>>, 0, params[1]), Node("header", "", <<>>, 0, typed \o header), body[1]>>),
          body[2]>>

(* The declarations that are a keyword, mostly a name, and a block.        *)
parseDecl(kind, p) ==
    LET name == IF kind \in {"defaults", "limits"} THEN <<Nil, advance(p)>> ELSE ident(advance(p))
        body == produce(kind, name[2])
    IN  <<Node(kind, name[1].s, <<>>, LineOf(p), <<body[1]>>), body[2]>>

DeclItem(p) ==
    CASE Kind(p) = "workflow"     -> parseWorkflow(p)
      [] Kind(p) = "agent"        -> parseDecl("agent", p)
      [] isResourceDeclKeyword(p) -> parseDecl(Text(p), p)
      [] OTHER                    -> <<Nil, syncTopLevel(errorf(p))>>

RECURSIVE decls(_)
decls(st) ==
    LET After(r) == <<IF r[1] = Nil THEN st[1] ELSE Append(st[1], r[1]), r[2]>>
    IN  IF Kind(st[2]) = "eof" THEN st ELSE decls(After(DeclItem(st[2])))

produce(g, p) ==
    CASE g = "file"  -> decls(<<<<>>, p>>)
      [] g = "stmt"  -> parseStmt(p)
      [] g = "expr"  -> parseOr(p)
      [] g = "unary" -> parseUnary(p)
      [] g = "path"  -> parseDottedPath(p)
      [] g \in {"args", "params"} -> parseParens(g, p)
      [] g = "ident"  -> ident(p)
      [] g = "string" -> parseStringLit(p)
      [] g = "int"    -> constraintInt(p)
      [] g = "float"  -> constraintFloat(p)
      [] g = "bool"   -> constraintBool(p)
      [] g = "exceed" -> exceedPolicy(p)
      [] g = "model"  -> parseModelRef(p)
      [] g = "instructions" -> IF Word(p, "file") THEN parseFileRef(p) ELSE parseStringLit(p)
      [] OTHER       -> parseBraces(g, p)

(* Parse: the file's tree and whether there are diagnostics.               *)
Parse(src) ==
    LET Result(r) == [file |-> Node("file", "", <<>>, 0, r[1]), errors |-> r[2].e]
    IN  Result(produce("file", newParser(src)))
=============================================================================
