----------------------------- MODULE ExecProgram ----------------------------
(***************************************************************************)
(* Programs of the execution IR (internal/execir) as data: what they       *)
(* compute (eval.go, interp.go), how they are pinned (serialize.go), told  *)
(* apart (digest.go) and bounded (analyze.go).  The interpreter is taken   *)
(* here as the function it computes when nothing pauses or crashes: the    *)
(* branches of a fork and the iterations of a parallel loop run in order,  *)
(* and a call is answered by the machine's answers.  ExecGraph, ExecFork   *)
(* and ExecControl are its interleavings, pauses and resumes.              *)
(*                                                                         *)
(* Nodes and values are those of LangLower.                                *)
(***************************************************************************)
EXTENDS LangLower

CONSTANTS MaxLoopIterations, MaxInt

(***************************************************************************)
(* Values.  <<"error", why>> is an error of the evaluation.                *)
(***************************************************************************)
Error(why) == <<"error", why>>
IsError(v) == v[1] = "error"
Doc(fields) == <<"obj", fields>>

RECURSIVE descend(_, _)
descend(v, path) ==
    CASE path = <<>>   -> v
      [] v[1] # "obj"  -> NilValue
      [] OTHER         -> IF path[1] \in DOMAIN v[2] THEN descend(v[2][path[1]], Tail(path)) ELSE NilValue

resolvePath(scope, path) ==
    IF path[1] \in DOMAIN scope THEN descend(scope[path[1]], Tail(path)) ELSE Error("unbound")

(* The text of a value in a template: a sequence of pieces.                *)
stringify(v) ==
    CASE v[1] = "nil" -> <<>>
      [] v[1] = "str" -> v[2]
      [] OTHER        -> <<v>>

FirstError(vals) == SelectSeq(vals, IsError)

RECURSIVE evalValue(_, _)
evalValue(scope, v) ==
    LET Each(vs) == [i \in DOMAIN vs |-> evalValue(scope, vs[i])]
    IN  CASE v.k = "lit" -> v.v
          [] v.k = "ref" -> resolvePath(scope, v.path)
          [] v.k = "object" ->
                LET vals == Each([i \in DOMAIN v.fields |-> v.fields[i][2]])
                    keys == {v.fields[i][1] : i \in DOMAIN v.fields}
                    LastOf(key) == CHOOSE i \in DOMAIN v.fields :
                        v.fields[i][1] = key /\ \A j \in (i + 1)..Len(v.fields) : v.fields[j][1] # key
                IN  IF FirstError(vals) # <<>> THEN FirstError(vals)[1]
                    ELSE Doc([key \in keys |-> vals[LastOf(key)]])
          [] v.k = "template" ->
                LET vals == Each(v.parts)
                IN  IF FirstError(vals) # <<>> THEN FirstError(vals)[1]
                    ELSE <<"str", FlattenSeq([i \in DOMAIN vals |-> stringify(vals[i])])>>

evalArgs(scope, args) ==
    LET vals == [key \in DOMAIN args |-> evalValue(scope, args[key])]
    IN  IF \E key \in DOMAIN vals : IsError(vals[key])
        THEN vals[CHOOSE key \in DOMAIN vals : IsError(vals[key])] ELSE Doc(vals)

evalCollection(scope, v) ==
    LET val == evalValue(scope, v)
    IN  CASE val[1] = "nil"             -> <<"list", <<>>>>
          [] val[1] \in {"list", "error"} -> val
          [] OTHER                      -> Error("type")

truthy(v) == v[1] # "nil" /\ (v[1] = "bool" => v[2])

compareOrdered(op, a, b) ==
    IF a[1] # "num" \/ b[1] # "num" THEN Error("type")
    ELSE <<"bool", CASE op = "<" -> a[2] < b[2] [] op = "<=" -> a[2] <= b[2]
                     [] op = ">" -> a[2] > b[2] [] op = ">=" -> a[2] >= b[2]>>

Compare(op, a, b) ==
    CASE IsError(a) -> a
      [] ~IsError(a) /\ IsError(b) -> b
      [] OTHER -> CASE op = "==" -> <<"bool", a = b>> [] op = "!=" -> <<"bool", a # b>>
                    [] OTHER -> compareOrdered(op, a, b)

RECURSIVE evalExpr(_, _)
evalBinOp(scope, e) ==
    LET l == evalExpr(scope, e.x)
    IN  IF e.op \notin {"&&", "||"} THEN Compare(e.op, evalValue(scope, e.x), evalValue(scope, e.y))
        ELSE IF IsError(l) \/ l[2] = (e.op = "||") THEN l ELSE evalExpr(scope, e.y)

evalExpr(scope, e) ==
    CASE e.k = "binop" -> evalBinOp(scope, e)
      [] e.k = "not"   -> LET b == evalExpr(scope, e.x) IN IF IsError(b) THEN b ELSE <<"bool", ~b[2]>>
      [] OTHER         -> LET v == evalValue(scope, e) IN IF IsError(v) THEN v ELSE <<"bool", truthy(v)>>

(***************************************************************************)
(* The run of a program.  m is the machine: the programs, and the answers  *)
(* of tools, agents and approvals.  r is the runner: its scope, the calls  *)
(* made so far in the whole run, the value returned, whether a Return was  *)
(* met, the error, and the depth of the workflow call.                     *)
(***************************************************************************)
Machine(execs, answers) == [execs |-> execs, answers |-> answers]

(* What the call just made is answered: the answers in turn.               *)
Answer(m, calls) == m.answers[((Len(calls) - 1) % Len(m.answers)) + 1]

Halted(r) == r.done \/ r.err # ""
Fail(r, err) == [r EXCEPT !.err = err[2]]
BindTo(r, name, v) == IF name = "" THEN r ELSE [r EXCEPT !.scope = (name :> v) @@ @]

paramScope(params, input) ==
    CASE Len(params) = 1   -> (params[1] :> input)
      [] Len(params) # 1 /\ input[1] = "obj" ->
            [p \in Range(params) |-> IF p \in DOMAIN input[2] THEN input[2][p] ELSE NilValue]
      [] OTHER -> <<>>

newRunner(prog, input, calls, depth) ==
    [scope |-> paramScope(prog.params, input), calls |-> calls, out |-> NilValue, done |-> FALSE,
     err |-> "", depth |-> depth]

(* What a call hands over: the argument itself for a whole document.       *)
InputDocument(whole, args) == IF whole THEN args[2][CHOOSE key \in DOMAIN args[2] : TRUE] ELSE args

(* The returns of a program; WorkflowReturnShape.                          *)
RECURSIVE Returns(_)
Returns(nodes) ==
    UNION {LET n == nodes[i]
           IN  CASE n.k = "return" -> {n.val}
                 [] n.k = "branch" -> Returns(n.then) \cup Returns(n.else)
                 [] n.k \in {"loop", "while", "retry"} -> Returns(n.body)
                 [] n.k = "fork"   -> UNION {Returns(n.branches[j].nodes) : j \in DOMAIN n.branches}
                 [] OTHER -> {} : i \in DOMAIN nodes}

WorkflowReturnShape(prog) ==
    LET rets == Returns(prog.body)
    IN  CASE rets = {} -> "none"
          [] rets # {} /\ \E v \in rets : v.k # "object" -> "envelope"
          [] OTHER -> "document"

execIROutput(prog, value) ==
    CASE WorkflowReturnShape(prog) = "none"     -> Doc(<<>>)
      [] WorkflowReturnShape(prog) = "envelope" -> Doc("value" :> value)
      [] OTHER -> IF value = NilValue THEN Doc(<<>>) ELSE IF value[1] = "obj" THEN value ELSE Error("shape")

projectValueField(doc) == IF doc[1] = "obj" THEN descend(doc, <<"value">>) ELSE Error("shape")

RECURSIVE exec(_, _, _)
execAll(m, r, nodes) == Through(LAMBDA q, n : IF Halted(q) THEN q ELSE exec(m, q, n), r, nodes)

InvokeWorkflow(m, r, n, input) ==
    LET prog == m.execs[n.callee[2]]
        Returned(child) ==
            LET doc == execIROutput(prog, child.out)
                val == IF n.project THEN projectValueField(doc) ELSE doc
                back == [r EXCEPT !.calls = child.calls]
            IN  CASE child.err # "" -> [back EXCEPT !.err = child.err]
                  [] child.err = "" /\ IsError(doc) -> Fail(back, doc)
                  [] child.err = "" /\ ~IsError(doc) /\ IsError(val) -> Fail(back, val)
                  [] OTHER -> BindTo(back, n.bind, val)
    IN  Returned(execAll(m, newRunner(prog, input, r.calls, r.depth + 1), prog.body))

invoke(m, r, n) ==
    LET args == evalArgs(r.scope, n.args)
        whole == n.k = "invoke" /\ n.whole
        input == InputDocument(whole, args)
        callee == IF n.k = "approval" THEN <<"approval", n.bind>> ELSE n.callee
        called == [r EXCEPT !.calls = Append(@, [callee |-> callee, input |-> input, depth |-> r.depth])]
    IN  IF IsError(args) THEN Fail(r, args)
        ELSE IF callee[1] = "workflow" THEN InvokeWorkflow(m, called, n, input)
        ELSE BindTo(called, n.bind, Answer(m, called.calls))

execBranch(m, r, n) ==
    LET c == evalExpr(r.scope, n.cond)
    IN  IF IsError(c) THEN Fail(r, c) ELSE execAll(m, r, IF c[2] THEN n.then ELSE n.else)

(* A branch's scope is its own; only its binding is merged.                *)
execFork(m, r, n) ==
    LET Branch(q, b) == execAll(m, [q EXCEPT !.scope = r.scope], b.nodes)
        Join(acc, b) == IF Halted(acc.q) THEN acc
                        ELSE LET q == Branch(acc.q, b)
                             IN  [q |-> q, got |-> IF b.bind \in DOMAIN q.scope
                                                   THEN (b.bind :> q.scope[b.bind]) @@ acc.got ELSE acc.got]
        end == Through(Join, [q |-> r, got |-> <<>>], n.branches)
    IN  [end.q EXCEPT !.scope = end.got @@ r.scope]

execLoopParallel(m, r, n, items) ==
    LET Iterate(q, item) == IF Halted(q) THEN q ELSE execAll(m, BindTo([q EXCEPT !.scope = r.scope], n.var, item), n.body)
    IN  [Through(Iterate, r, items) EXCEPT !.scope = r.scope]

execLoop(m, r, n) ==
    LET items == evalCollection(r.scope, n.coll)
        Iterate(q, item) == IF Halted(q) THEN q ELSE execAll(m, BindTo(q, n.var, item), n.body)
    IN  CASE IsError(items) -> Fail(r, items)
          [] ~IsError(items) /\ Len(items[2]) > MaxLoopIterations -> Fail(r, Error("items"))
          [] OTHER -> IF n.parallel THEN execLoopParallel(m, r, n, items[2]) ELSE Through(Iterate, r, items[2])

effectiveMax(n) == IF n.limit > 0 /\ n.limit < MaxLoopIterations THEN n.limit ELSE MaxLoopIterations

RECURSIVE execWhile(_, _, _, _)
execWhile(m, r, n, i) ==
    LET c == evalExpr(r.scope, n.cond)
    IN  CASE Halted(r) \/ i > effectiveMax(n) -> r
          [] ~(Halted(r) \/ i > effectiveMax(n)) /\ IsError(c) -> Fail(r, c)
          [] OTHER -> IF c[2] THEN execWhile(m, execAll(m, r, n.body), n, i + 1) ELSE r

RECURSIVE execRetry(_, _, _, _)
execRetry(m, r, n, i) ==
    LET q == execAll(m, r, n.body)
        c == evalExpr(q.scope, n.cond)
    IN  IF i > effectiveMax(n) THEN Fail(r, Error("exhausted"))
        ELSE CASE Halted(q) -> q
               [] ~Halted(q) /\ IsError(c) -> Fail(q, c)
               [] OTHER -> IF c[2] THEN q ELSE execRetry(m, q, n, i + 1)

exec(m, r, n) ==
    LET v == evalValue(r.scope, n.val)
    IN  CASE n.k \in {"invoke", "approval"} -> invoke(m, r, n)
          [] n.k = "let"    -> IF IsError(v) THEN Fail(r, v) ELSE BindTo(r, n.bind, v)
          [] n.k = "branch" -> execBranch(m, r, n)
          [] n.k = "fork"   -> execFork(m, r, n)
          [] n.k = "loop"   -> execLoop(m, r, n)
          [] n.k = "while"  -> execWhile(m, r, n, 1)
          [] n.k = "retry"  -> execRetry(m, r, n, 1)
          [] n.k = "return" -> IF IsError(v) THEN Fail(r, v) ELSE [r EXCEPT !.out = v, !.done = TRUE]

(* Interp.Run and execIROutput: the calls and the outcome of a run.        *)
Run(m, name, input) ==
    LET prog == m.execs[name]
        End(r) == [calls |-> r.calls, out |-> IF r.err # "" THEN Error(r.err) ELSE execIROutput(prog, r.out)]
    IN  End(execAll(m, newRunner(prog, input, <<>>, 0), prog.body))

(***************************************************************************)
(* The pinned form: a flat record per node in which fields with their zero *)
(* value are left out (json omitempty), read back as zero.                 *)
(***************************************************************************)
Put(name, value, zero) == IF value = zero THEN <<>> ELSE name :> value
Take(w, name, zero) == IF name \in DOMAIN w THEN w[name] ELSE zero

wireLit(v) == IF v[1] = "num" THEN <<IF v[2] % 10 = 0 THEN "i" ELSE "f", v[2]>> ELSE v
decodeLit(w) == IF w[1] \in {"i", "f"} THEN <<"num", w[2]>> ELSE w

RECURSIVE wireVal(_)
wireVal(v) ==
    CASE v.k = "ref"    -> ("kind" :> "ref") @@ Put("path", v.path, <<>>)
      [] v.k = "lit"    -> ("kind" :> "lit") @@ ("v" :> wireLit(v.v))
      [] v.k = "object" -> ("kind" :> "object")
                           @@ Put("fields", [i \in DOMAIN v.fields |-> <<v.fields[i][1], wireVal(v.fields[i][2])>>], <<>>)
      [] v.k = "template" -> ("kind" :> "template") @@ Put("parts", [i \in DOMAIN v.parts |-> wireVal(v.parts[i])], <<>>)

RECURSIVE decodeVal(_)
decodeVal(w) ==
    LET fields == Take(w, "fields", <<>>)
        parts == Take(w, "parts", <<>>)
    IN  CASE w["kind"] = "ref"    -> Ref(Take(w, "path", <<>>))
          [] w["kind"] = "lit"    -> Lit(decodeLit(w["v"]))
          [] w["kind"] = "object" -> [k |-> "object", fields |-> [i \in DOMAIN fields |-> <<fields[i][1], decodeVal(fields[i][2])>>]]
          [] w["kind"] = "template" -> [k |-> "template", parts |-> [i \in DOMAIN parts |-> decodeVal(parts[i])]]

RECURSIVE wireExpr(_)
wireExpr(e) ==
    CASE e.k = "binop" -> [kind |-> "binop", x |-> wireExpr(e.x), y |-> wireExpr(e.y), op |-> e.op]
      [] e.k = "not"   -> [kind |-> "not", x |-> wireExpr(e.x)]
      [] OTHER         -> [kind |-> "leaf", v |-> wireVal(e)]

RECURSIVE decodeExpr(_)
decodeExpr(w) ==
    CASE w.kind = "binop" -> [k |-> "binop", op |-> w.op, x |-> decodeExpr(w.x), y |-> decodeExpr(w.y)]
      [] w.kind = "not"   -> [k |-> "not", x |-> decodeExpr(w.x)]
      [] w.kind = "leaf"  -> decodeVal(w.v)

wireArgs(args) == [key \in DOMAIN args |-> wireVal(args[key])]
decodeArgs(args) == [key \in DOMAIN args |-> decodeVal(args[key])]

WireKind(n) ==
    IF n.k # "invoke" THEN n.k
    ELSE CASE n.callee[1] = "tool" -> "invokeTool" [] n.callee[1] = "agent" -> "invokeAgent"
           [] n.callee[1] = "workflow" -> "invokeWorkflow"

RECURSIVE wireNode(_)
wireNode(n) ==
    LET Nodes(ns) == [i \in DOMAIN ns |-> wireNode(ns[i])]
        fields ==
          CASE n.k = "invoke" ->
                 Put("bind", n.bind, "") @@ ("callee" :> Tail(n.callee)) @@ Put("args", wireArgs(n.args), <<>>)
                 @@ Put("wholeDocument", n.whole, FALSE) @@ Put("projectValue", n.project, FALSE)
            [] n.k \in {"let", "return"} ->
                 Put("bind", IF n.k = "let" THEN n.bind ELSE "", "") @@ ("value" :> wireVal(n.val))
            [] n.k = "branch" -> ("cond" :> wireExpr(n.cond)) @@ Put("then", Nodes(n.then), <<>>) @@ Put("else", Nodes(n.else), <<>>)
            [] n.k = "fork"   -> Put("branches", [i \in DOMAIN n.branches |->
                                    [bind |-> n.branches[i].bind, nodes |-> Nodes(n.branches[i].nodes)]], <<>>)
            [] n.k = "loop"   -> ("var" :> n.var) @@ Put("parallel", n.parallel, FALSE)
                                 @@ ("collection" :> wireVal(n.coll)) @@ Put("body", Nodes(n.body), <<>>)
            [] n.k \in {"while", "retry"} -> ("cond" :> wireExpr(n.cond)) @@ Put("limit", n.limit, 0) @@ Put("body", Nodes(n.body), <<>>)
            [] n.k = "approval" -> ("bind" :> n.bind) @@ Put("redactKeys", n.redact, <<>>) @@ Put("args", wireArgs(n.args), <<>>)
    IN  ("kind" :> WireKind(n)) @@ fields

RECURSIVE decodeNode(_)
decodeNode(w) ==
    LET kind == w["kind"]
        Nodes(name) == LET ns == Take(w, name, <<>>) IN [i \in DOMAIN ns |-> decodeNode(ns[i])]
        branches == Take(w, "branches", <<>>)
        Invoke(what, whole, project) ==
            [k |-> "invoke", bind |-> Take(w, "bind", ""), callee |-> <<what>> \o w["callee"],
             args |-> decodeArgs(Take(w, "args", <<>>)), whole |-> whole, project |-> project, call |-> Nil]
    IN  CASE kind = "invokeTool"     -> Invoke("tool", FALSE, FALSE)
          [] kind = "invokeAgent"    -> Invoke("agent", Take(w, "wholeDocument", FALSE), FALSE)
          [] kind = "invokeWorkflow" -> Invoke("workflow", Take(w, "wholeDocument", FALSE), Take(w, "projectValue", FALSE))
          [] kind = "let"    -> [k |-> "let", bind |-> Take(w, "bind", ""), val |-> decodeVal(w["value"])]
          [] kind = "return" -> [k |-> "return", val |-> decodeVal(w["value"])]
          [] kind = "branch" -> [k |-> "branch", cond |-> decodeExpr(w["cond"]), then |-> Nodes("then"), else |-> Nodes("else")]
          [] kind = "fork"   -> [k |-> "fork", branches |-> [i \in DOMAIN branches |->
                                    [bind |-> branches[i].bind,
                                     nodes |-> [j \in DOMAIN branches[i].nodes |-> decodeNode(branches[i].nodes[j])]]]]
          [] kind = "loop"   -> [k |-> "loop", var |-> w["var"], coll |-> decodeVal(w["collection"]),
                                 parallel |-> Take(w, "parallel", FALSE), body |-> Nodes("body")]
          [] kind \in {"while", "retry"} -> [k |-> kind, cond |-> decodeExpr(w["cond"]),
                                             limit |-> Take(w, "limit", 0), body |-> Nodes("body")]
          [] kind = "approval" -> [k |-> "approval", bind |-> w["bind"], args |-> decodeArgs(Take(w, "args", <<>>)),
                                   redact |-> Take(w, "redactKeys", <<>>)]

MarshalPrograms(execs) ==
    [n \in DOMAIN execs |->
        [workflow |-> execs[n].workflow, params |-> execs[n].params,
         body |-> [i \in DOMAIN execs[n].body |-> wireNode(execs[n].body[i])]]]

UnmarshalPrograms(w) ==
    [n \in DOMAIN w |->
        [workflow |-> w[n].workflow, params |-> w[n].params,
         body |-> [i \in DOMAIN w[n].body |-> decodeNode(w[n].body[i])]]]

(***************************************************************************)
(* The digest: the hashed text as nested tuples.  Sorted lists are sets.   *)
(***************************************************************************)
RECURSIVE encodeValue(_)
encodeValue(v) ==
    CASE v.k = "ref"    -> <<"ref", v.path>>
      [] v.k = "lit"    -> <<"lit", v.v>>
      [] v.k = "object" -> <<"obj", {<<v.fields[i][1], encodeValue(v.fields[i][2])>> : i \in DOMAIN v.fields}>>
      [] v.k = "template" -> <<"tmpl", [i \in DOMAIN v.parts |-> encodeValue(v.parts[i])]>>

RECURSIVE encodeExpr(_)
encodeExpr(e) ==
    CASE e.k = "binop" -> <<"binop", e.op, encodeExpr(e.x), encodeExpr(e.y)>>
      [] e.k = "not"   -> <<"not", encodeExpr(e.x)>>
      [] OTHER         -> <<"leaf", encodeValue(e)>>

encodeArgs(args) == {<<key, encodeValue(args[key])>> : key \in DOMAIN args}

RECURSIVE encodeNode(_)
encodeNode(n) ==
    LET Nodes(ns) == [i \in DOMAIN ns |-> encodeNode(ns[i])]
    IN  CASE n.k = "invoke" -> <<n.callee[1], n.bind, Tail(n.callee), IF n.whole THEN "!doc" ELSE "",
                                 IF n.project THEN "!value" ELSE "", encodeArgs(n.args)>>
          [] n.k = "let"    -> <<"let", n.bind, encodeValue(n.val)>>
          [] n.k = "return" -> <<"return", encodeValue(n.val)>>
          [] n.k = "branch" -> <<"branch", encodeExpr(n.cond), Nodes(n.then), Nodes(n.else)>>
          [] n.k = "fork"   -> <<"fork", [i \in DOMAIN n.branches |-> <<n.branches[i].bind, Nodes(n.branches[i].nodes)>>]>>
          [] n.k = "loop"   -> <<"loop", IF n.parallel THEN "par" ELSE "", n.var, encodeValue(n.coll), Nodes(n.body)>>
          [] n.k \in {"while", "retry"} -> <<n.k, encodeExpr(n.cond), n.limit, Nodes(n.body)>>
          [] n.k = "approval" -> <<"approval", n.bind, Range(n.redact), encodeArgs(n.args)>>

Digest(p) == <<p.workflow, p.params, [i \in DOMAIN p.body |-> encodeNode(p.body[i])]>>

(***************************************************************************)
(* InvocationBounds: callee -> how often a run may call it at most.        *)
(***************************************************************************)
satMul(a, b) == Min({a * b, MaxInt})
satAdd(a, b) == Min({a + b, MaxInt})

Count(f, x) == IF x \in DOMAIN f THEN f[x] ELSE 0

\* Mutant: of two nodes in a row the one that calls more often counts.
LargerCount(f, g) == [x \in DOMAIN f \cup DOMAIN g |-> Max({Count(f, x), Count(g, x)})]

mergeSum(f, g) == [x \in DOMAIN f \cup DOMAIN g |-> satAdd(Count(f, x), Count(g, x))]
mergeMax(f, g) == [x \in DOMAIN f \cup DOMAIN g |-> Max({Count(f, x), Count(g, x)})]

RECURSIVE boundsOf(_, _)
boundsOf(nodes, factor) ==
    LET Of(n) ==
          CASE n.k = "invoke" -> n.callee :> factor
            [] n.k \in {"while", "retry"} -> boundsOf(n.body, satMul(factor, effectiveMax(n)))
            [] n.k = "loop"   -> boundsOf(n.body, satMul(factor, MaxLoopIterations))
            [] n.k = "branch" -> mergeMax(boundsOf(n.then, factor), boundsOf(n.else, factor))
            [] n.k = "fork"   -> Through(LAMBDA f, b : mergeSum(f, boundsOf(b.nodes, factor)), <<>>, n.branches)
            [] OTHER          -> <<>>
    IN  Through(LAMBDA f, n : mergeSum(f, Of(n)), <<>>, nodes)

InvocationBounds(p) == boundsOf(p.body, 1)
=============================================================================
