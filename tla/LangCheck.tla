------------------------------ MODULE LangCheck -----------------------------
(***************************************************************************)
(* The checker of .agent files (internal/lang/check) over the schemas of   *)
(* internal/schema, and the program it assembles: the project graph that   *)
(* plan and validation read, and the executables, with the arguments of    *)
(* workflow calls bound to parameters and the results of workflows         *)
(* projected.                                                              *)
(*                                                                         *)
(* A schema is a record: types (a set of JSON types, {} for any), props    *)
(* (name -> schema), closed (additionalProperties: false) and never (the   *)
(* schema false).  A type reference is [doc: the name of a schema, path];  *)
(* Untyped has no schema.  The compilation unit is one file.               *)
(***************************************************************************)
EXTENDS ExecProgram, Effects, Functions

CONSTANT Schemas    \* type name -> schema; other names have no file

Untyped == [doc |-> "", path |-> <<>>]
StringType == [doc |-> "$string", path |-> <<>>]
OfType(name) == IF name \in DOMAIN Schemas THEN [doc |-> name, path |-> <<>>] ELSE Untyped

(* Lookup: what a schema says of the value at a path.                      *)
AnyValue == [types |-> {}, missing |-> FALSE, never |-> FALSE]
Missing == [types |-> {}, missing |-> TRUE, never |-> FALSE]

RECURSIVE lookupSchema(_, _)
lookupSchema(doc, path) ==
    LET sub == lookupSchema(doc.props[path[1]], Tail(path))
    IN  CASE doc.never -> [AnyValue EXCEPT !.never = TRUE]
          [] ~doc.never /\ path = <<>> -> [AnyValue EXCEPT !.types = doc.types]
          [] OTHER -> IF path[1] \in DOMAIN doc.props THEN IF sub.never THEN Missing ELSE sub
                      ELSE IF doc.types = {} \/ "object" \in doc.types
                           THEN IF doc.closed THEN Missing ELSE AnyValue
                           ELSE Missing

result(t) == CASE t = StringType -> [AnyValue EXCEPT !.types = {"string"}]
               [] t.doc = ""     -> AnyValue
               [] OTHER          -> lookupSchema(Schemas[t.doc], t.path)

Compatible(producer, consumer) ==
    \/ producer = {} \/ consumer = {}
    \/ \A t \in producer : t \in consumer \/ (t = "integer" /\ "number" \in consumer)

CompatibleLookup(producer, consumer) ==
    producer.never \/ (~consumer.never /\ Compatible(producer.types, consumer.types))

checkCompatible(got, want) == CompatibleLookup(result(got), result(want))

(***************************************************************************)
(* The declarations of a file.                                             *)
(***************************************************************************)
DeclsOf(file, kind) == SelectSeq(file.c, LAMBDA d : d.k = kind)
DeclNames(file, kind) == {d.s : d \in Range(DeclsOf(file, kind))}
Decl(file, kind, name) == CHOOSE d \in Range(DeclsOf(file, kind)) : d.s = name

FieldsOf(block, name) == SelectSeq(block.c, LAMBDA f : f.s = name)
FieldText(block, name) == LET f == FieldsOf(block, name) IN IF f = <<>> THEN "" ELSE f[1].c[1].s
FieldPaths(block, name) ==
    LET f == FieldsOf(block, name) IN IF f = <<>> THEN {} ELSE {Path(p) : p \in Range(f[1].c[1].c)}
FieldBlock(block, name) == LET f == FieldsOf(block, name) IN IF f = <<>> THEN Nil ELSE f[1].c[1]
HeaderText(wd, name) == LET f == Header(wd, name) IN IF f = <<>> THEN "" ELSE f[1].c[1].s

ParamTypes(wd) == [i \in DOMAIN wd.c[1].c |-> OfType(wd.c[1].c[i].c[1].s)]

(* resolveTypes: the types of agents and workflows.                        *)
Universe(file) ==
    [workflows |-> [n \in DeclNames(file, "workflow") |->
        LET wd == Decl(file, "workflow", n)
        IN  [order |-> Params(wd), types |-> ParamTypes(wd), result |-> OfType(HeaderText(wd, "result"))]],
     agents |-> [n \in DeclNames(file, "agent") |->
        LET block == Decl(file, "agent", n).c[1]
        IN  [input |-> OfType(FieldText(block, "input")), output |-> OfType(FieldText(block, "output"))]]]

(***************************************************************************)
(* Types of expressions.  c is the wfChecker: the universe, the            *)
(* environment, the workflow, and whether there are errors.  An            *)
(* expression's check is <<its type, whether it is well formed>>.          *)
(***************************************************************************)

(* The path in the schema, as far as it goes: FALSE when it leaves it.     *)
InSchema(t, path) ==
    t = StringType \/ t.doc = "" \/ \A i \in 1..Len(path) : ~result([t EXCEPT !.path = @ \o SubSeq(path, 1, i)]).missing

resolveRef(c, path) ==
    IF path[1] \notin DOMAIN c.env THEN <<Untyped, FALSE>>
    ELSE LET t == c.env[path[1]]
             rest == Tail(path)
         IN  IF ~InSchema(t, rest) THEN <<Untyped, FALSE>>
             ELSE <<IF rest = <<>> THEN t
                    ELSE IF t.doc \in {"", "$string"} THEN Untyped ELSE [t EXCEPT !.path = @ \o rest], TRUE>>

checkTemplate(c, e) ==
    LET toks == Tokens(e)
    IN  <<CASE toks = <<>>        -> Untyped
            [] Len(Parts(e)) = 1  -> resolveRef(c, toks[1])[1]
            [] OTHER              -> StringType,
          \A i \in DOMAIN toks : resolveRef(c, toks[i])[2]>>

RECURSIVE checkExpr(_, _)
checkValue(c, e) == IF e.k = "string" THEN checkTemplate(c, e) ELSE checkExpr(c, e)

ValuesOk(c, args) == \A i \in DOMAIN args : checkValue(c, args[i].c[1])[2]

(* checkWorkflowArgs: the parameter each argument is bound to, "" for an   *)
(* extra one.  Named arguments claim theirs first; a positional one takes  *)
(* the next parameter that is free.                                        *)
BoundParams(order, args) ==
    LET named == {args[i].s : i \in DOMAIN args} \ {""}
        free == SelectSeq(order, LAMBDA p : p \notin named)
        Position(i) == Cardinality({j \in 1..i : args[j].s = ""})
    IN  [i \in DOMAIN args |-> IF args[i].s # "" THEN args[i].s
                               ELSE IF Position(i) <= Len(free) THEN free[Position(i)] ELSE ""]

checkWorkflowArgs(c, wi, args) ==
    LET bound == BoundParams(wi.order, args)
        TypeOf(p) == wi.types[CHOOSE i \in DOMAIN wi.order : wi.order[i] = p]
    IN  /\ ValuesOk(c, args)
        /\ Range(bound) = Range(wi.order)
        /\ \A i \in DOMAIN args : checkCompatible(checkValue(c, args[i].c[1])[1], TypeOf(bound[i]))

(* An object literal is held field by field against the schema it fills.   *)
RECURSIVE checkValueAgainst(_, _, _)
checkValueAgainst(c, e, want) ==
    IF e.k # "object" \/ want.doc = "" \/ result(want).never THEN checkCompatible(checkValue(c, e)[1], want)
    ELSE \A i \in DOMAIN e.c :
            LET field == [want EXCEPT !.path = Append(@, e.c[i].s)]
            IN  ~result(field).missing /\ checkValueAgainst(c, e.c[i].c[1], field)

checkAgentArgs(c, ai, args) ==
    /\ ValuesOk(c, args)
    /\ IF isWholeDocumentCall(args) THEN checkValueAgainst(c, args[1].c[1], ai.input)
       ELSE args = <<>> => ai.input = Untyped

checkCall(c, call) ==
    LET path == Path(call.c[1])
        args == Args(call)
    IN  CASE Len(path) = 1 /\ path[1] \in DOMAIN c.u.workflows ->
                <<c.u.workflows[path[1]].result, checkWorkflowArgs(c, c.u.workflows[path[1]], args)>>
          [] Len(path) = 1 /\ path[1] \in DOMAIN c.u.agents \ DOMAIN c.u.workflows ->
                <<c.u.agents[path[1]].output, checkAgentArgs(c, c.u.agents[path[1]], args)>>
          [] OTHER -> <<Untyped, ValuesOk(c, args)>>

checkExpr(c, e) ==
    CASE e.k = "ref"    -> resolveRef(c, Path(e))
      [] e.k = "call"   -> checkCall(c, e)
      [] e.k \in {"bin", "not"} -> <<Untyped, \A i \in DOMAIN e.c : checkExpr(c, e.c[i])[2]>>
      [] e.k = "object" -> <<Untyped, ValuesOk(c, e.c)>>
      [] OTHER          -> <<Untyped, TRUE>>

(***************************************************************************)
(* Statements: the checker after one.                                      *)
(***************************************************************************)
mergeType(a, b) == IF a = b THEN a ELSE Untyped

\* Mutant: a name bound in one arm is bound after the if.
EitherArm(then, else) == else @@ then

joinEnv(then, else) == [n \in DOMAIN then \cap DOMAIN else |-> mergeType(then[n], else[n])]
loopJoin(pre, after) == [n \in DOMAIN pre |-> mergeType(pre[n], after[n])]

Sees(c, checked) == [c EXCEPT !.bad = @ \/ ~checked]
Binds(c, name, t) == [c EXCEPT !.env = (name :> t) @@ @]

(* The body of a statement, after what the statement itself reads.         *)
RECURSIVE checkStmts(_, _)
checkIf(c, st) ==
    LET Join(then, else) == [else EXCEPT !.env = joinEnv(then.env, else.env)]
        Else(then) == Join(then, checkStmts([then EXCEPT !.env = c.env], IF Len(st.c) = 3 THEN st.c[3].c ELSE <<>>))
    IN  Else(checkStmts(c, st.c[2].c))

checkLoop(c, st, var) ==
    LET Leave(body) == [body EXCEPT !.env = IF st.k = "parallel for" THEN c.env ELSE loopJoin(c.env, body.env)]
    IN  Leave(checkStmts([c EXCEPT !.env = var @@ @], st.c[2].c))

(* The condition of a retry is read after the body, in its environment.    *)
checkRetry(c, st) ==
    LET Leave(body) == [Sees(body, checkExpr(body, st.c[1])[2]) EXCEPT !.env = loopJoin(c.env, body.env)]
    IN  Leave(checkStmts(c, st.c[2].c))

checkParallel(c, st) ==
    LET Branch(b) == checkExpr(c, b.c[1])
        seen == Sees(c, \A i \in DOMAIN st.c : Branch(st.c[i])[2])
    IN  Through(LAMBDA d, b : Binds(d, b.s, Branch(b)[1]), seen, st.c)

checkStmt(c, st) ==
    CASE st.k = "assign" -> LET r == checkExpr(c, st.c[1]) IN Binds(Sees(c, r[2]), st.s, r[1])
      [] st.k = "expr"     -> Sees(c, checkExpr(c, st.c[1])[2])
      [] st.k = "approval" -> Binds(Sees(c, ValuesOk(c, With(st))), st.s, Untyped)
      [] st.k = "parallel" -> checkParallel(c, st)
      [] st.k = "return"   -> LET r == checkValue(c, st.c[1]) IN Sees(c, r[2] /\ checkCompatible(r[1], c.result))
      [] st.k = "if"       -> checkIf(Sees(c, checkExpr(c, st.c[1])[2]), st)
      [] st.k \in {"for", "parallel for"} -> checkLoop(Sees(c, checkValue(c, st.c[1])[2]), st, st.s :> Untyped)
      [] st.k = "while"    -> checkLoop(Sees(c, checkExpr(c, st.c[1])[2]), st, <<>>)
      [] st.k = "retry"    -> checkRetry(c, st)
checkStmts(c, stmts) == Through(checkStmt, c, stmts)

checkWorkflowTypes(u, wd) ==
    LET wi == u.workflows[wd.s]
        env == [p \in Range(wi.order) |-> wi.types[CHOOSE i \in DOMAIN wi.order : wi.order[i] = p]]
    IN  ~checkStmts([u |-> u, env |-> env, result |-> wi.result, bad |-> FALSE], Body(wd)).bad

(***************************************************************************)
(* What the checker does to the executables.                               *)
(***************************************************************************)

(* applyExecRebinds: the positional keys argN of a call become the         *)
(* parameters' names, and a single argument of a workflow of one parameter *)
(* is the whole document.                                                  *)
renameArgs(args, renames) ==
    LET new == {IF k \in DOMAIN renames THEN renames[k] ELSE k : k \in DOMAIN args}
    IN  [n \in new |-> args[CHOOSE k \in DOMAIN args : (IF k \in DOMAIN renames THEN renames[k] ELSE k) = n]]

Rebind(wi, node) ==
    LET args == Args(node.call)
        bound == BoundParams(wi.order, args)
        positional == {i \in DOMAIN args : args[i].s = ""}
        renames == [k \in {callArgKey(i, args[i], FALSE) : i \in positional} |->
                        bound[CHOOSE i \in positional : callArgKey(i, args[i], FALSE) = k]]
        whole == Len(wi.order) = 1 /\ Len(args) = 1 /\ args[1].s \in {"", wi.order[1]}
    IN  [node EXCEPT !.args = renameArgs(@, renames), !.whole = whole]

\* Mutant: whatever is bound is taken for a value in an envelope.
ProjectBound(shapes, node) == [node EXCEPT !.project = node.bind # ""]

Project(shapes, node) ==
    [node EXCEPT !.project = node.bind # "" /\ node.callee[2] \in DOMAIN shapes /\ shapes[node.callee[2]] = "envelope"]

(* forEachInvokeWorkflow: every workflow call of the nodes is rebound and  *)
(* projected.                                                              *)
RECURSIVE WireCalls(_, _, _)
WireCalls(u, shapes, nodes) ==
    LET Wire(ns) == WireCalls(u, shapes, ns)
    IN  [i \in DOMAIN nodes |->
            LET n == nodes[i]
            IN  CASE n.k = "invoke" -> IF n.callee[1] # "workflow" THEN n
                                       ELSE Project(shapes, Rebind(u.workflows[n.callee[2]], n))
                  [] n.k = "branch" -> [n EXCEPT !.then = Wire(@), !.else = Wire(@)]
                  [] n.k \in {"loop", "while", "retry"} -> [n EXCEPT !.body = Wire(@)]
                  [] n.k = "fork"   -> [n EXCEPT !.branches = [j \in DOMAIN @ |-> [@[j] EXCEPT !.nodes = Wire(@)]]]
                  [] OTHER          -> n]

(***************************************************************************)
(* The project graph of the file (LowerFile, MergeLowered).                *)
(***************************************************************************)
(* ResolveToolSafety: untrusted with side effects unless the author says   *)
(* otherwise; such a tool requires approval unless the author decides.     *)
FlagOr(block, name, default) == LET text == FieldText(block, name) IN IF text = "" THEN default ELSE text = "true"

ResolveToolSafety(safety) ==
    LET sideEffects == FlagOr(safety, "sideEffects", TRUE)
    IN  [sideEffects |-> sideEffects,
         approval |-> FlagOr(safety, "requiresApproval", ~FlagOr(safety, "trusted", FALSE) /\ sideEffects)]

ToolSpec(decl) ==
    LET ops == FieldBlock(decl.c[1], "operations").c
        safety == ResolveToolSafety(FieldBlock(decl.c[1], "safety"))
    IN  [ops |-> [op \in {Path(o.c[1]) : o \in Range(ops)} |->
                    LET entry == CHOOSE o \in Range(ops) : Path(o.c[1]) = op
                    IN  IF Len(entry.c) < 2 THEN {} ELSE FieldPaths(entry.c[2], "effects")],
         approval |-> safety.approval, sideEffects |-> safety.sideEffects]

Amount(block, name) ==
    LET text == FieldText(block, name) IN IF text = "" THEN 0 ELSE LitValue(Node("float", text, <<>>, 0, <<>>))[2]

PolicySpec(decl) ==
    LET approvals == FieldBlock(decl.c[1], "approvals")
        effects == FieldBlock(decl.c[1], "effects")
        execution == FieldBlock(decl.c[1], "execution")
    IN  [permit |-> FieldPaths(effects, "permit"), withApproval |-> FieldPaths(effects, "permitWithApproval"),
         permissive |-> FieldText(approvals, "permissive") = "true",
         requireAll |-> FieldText(approvals, "requireAllTools") = "true",
         requiredFor |-> FieldPaths(approvals, "requiredFor"),
         maxCost |-> Amount(execution, "maxTotalCostUsd"), maxWall |-> Amount(execution, "maxWallClockSeconds"),
         maxIterations |-> Amount(execution, "maxIterations") \div 10]

Kinds == {"agent", "workflow", "tool", "policy"}

(* classifyDecls and MergeLowered refuse a name declared twice, and a name *)
(* that is an agent and a workflow.                                        *)
Duplicates(file) ==
    \/ \E k \in Kinds : Len(DeclsOf(file, k)) # Cardinality(DeclNames(file, k))
    \/ DeclNames(file, "agent") \cap DeclNames(file, "workflow") # {}

LowerFile(file) ==
    LET names == DeclNames(file, "workflow")
        agent == [n \in DeclNames(file, "agent") |-> Decl(file, "agent", n).c[1]]
    IN  [workflows |-> [n \in names |->
            LET wd == Decl(file, "workflow", n)
            IN  [steps |-> LowerSteps(wd, names).steps, policy |-> HeaderText(wd, "policy")]],
         agents |-> [n \in DOMAIN agent |->
            [grants |-> FieldPaths(agent[n], "grants"), policy |-> FieldText(agent[n], "policy"),
             model |-> LET f == FieldsOf(agent[n], "model") IN IF f = <<>> THEN <<>> ELSE Path(f[1].c[1])]],
         tools |-> [n \in DeclNames(file, "tool") |-> ToolSpec(Decl(file, "tool", n))],
         policies |-> [n \in DeclNames(file, "policy") |-> PolicySpec(Decl(file, "policy", n))]]

(* checkEffectsClause: a clause, when there is one, covers the bound.      *)
checkEffectsClause(g, wd) ==
    LET clause == Header(wd, "effects")
        declared == {Path(p) : p \in Range(clause[1].c[1].c)}
    IN  clause # <<>> =>
        \A o \in Bound(g, boundWorkflow(g, wd.s)) :
            o.ident # Unknown /\ \E d \in declared : EffectCovers(d, o.ident)

(* Check: the graph, the executables, and whether there are errors.        *)
Check(file) ==
    LET names == DeclNames(file, "workflow")
        u == Universe(file)
        Assembled(g, lowered) ==
            LET shapes == [n \in names |-> WorkflowReturnShape(lowered[n].prog)]
            IN  [graph |-> g,
                 execs |-> [n \in names |-> [lowered[n].prog EXCEPT !.body = WireCalls(u, shapes, @)]],
                 bad |-> \/ Duplicates(file)
                         \/ \E n \in names : LET wd == Decl(file, "workflow", n)
                                             IN  \/ LowerSteps(wd, names).bad \/ lowered[n].bad
                                                 \/ ~checkWorkflowTypes(u, wd) \/ ~checkEffectsClause(g, wd)]
    IN  Assembled(LowerFile(file), [n \in names |-> LowerExec(Decl(file, "workflow", n), names)])
=============================================================================
