------------------------------ MODULE LangLower -----------------------------
(***************************************************************************)
(* A workflow's two projections (internal/lang/lower): the resource steps  *)
(* that effect analysis, plan and validation read (lower.go), and the      *)
(* execution IR that runs (exec.go).  Both are made from the tree of       *)
(* LangParser, neither from the other.                                     *)
(*                                                                         *)
(* A step id is a sequence of strings: freshID's base_1 is base \o <<"1">>.*)
(* Of a reference's interpolation prefix only the step it starts at is     *)
(* kept, <<>> for the input and loop variables; of a step's `with` the     *)
(* steps its values read.  A callee is <<"tool", name, op, ...>>,          *)
(* <<"agent", name>>, <<"workflow", name>> or <<"approval", bind>>.        *)
(***************************************************************************)
EXTENDS LangSyntax

CONSTANT Templates  \* string literal -> its parts: a path for ${a.b}, <<>> for prose

Digit == <<"0", "1", "2", "3", "4", "5", "6", "7", "8", "9">>
Str(i) == Digit[i + 1]

Path(ref) == [i \in DOMAIN ref.c |-> ref.c[i].s]
Args(call) == Tail(call.c)
Leaf(call) == Last(Path(call.c[1]))
Literal(e) == e.k \in {"string", "int", "float", "bool"}

(* interpTokenRE on a string literal.                                      *)
Parts(e) == LET text == IF e.v = <<>> THEN "" ELSE e.v[1][2]
            IN  IF e.k = "string" /\ text \in DOMAIN Templates THEN Templates[text] ELSE <<>>
Tokens(e) == SelectSeq(Parts(e), LAMBDA p : p # <<>>)

applyCallee(call, workflows) ==
    LET path == Path(call.c[1])
    IN  CASE Len(path) >= 2         -> <<"tool">> \o path
          [] path[1] \in workflows  -> <<"workflow", path[1]>>
          [] OTHER                  -> <<"agent", path[1]>>

isWholeDocumentCall(args) == Len(args) = 1 /\ args[1].s = ""

callArgKey(i, arg, whole) ==
    IF whole \/ arg.s = "" THEN <<"arg0", "arg1", "arg2", "arg3">>[IF whole THEN 1 ELSE i] ELSE arg.s

Params(wd) == [i \in DOMAIN wd.c[1].c |-> wd.c[1].c[i].s]
Header(wd, name) == SelectSeq(wd.c[2].c, LAMBDA f : f.s = name)
Body(wd) == wd.c[3].c
ApprovalField(st, name) == SelectSeq(st.c[1].c, LAMBDA f : f.s = name)
With(st) == LET f == ApprovalField(st, "with") IN IF f = <<>> THEN <<>> ELSE f[1].c[1].c
RedactKeys(st) ==
    LET f == ApprovalField(st, "redactKeys")
    IN  IF f = <<>> THEN <<>> ELSE [i \in DOMAIN f[1].c[1].c |-> f[1].c[1].c[i].v[1][2]]

(***************************************************************************)
(* Steps.  w is the workflowLowerer: steps so far, roots (name -> step it  *)
(* starts at), used ids, whether inside control flow, and diagnostics.     *)
(***************************************************************************)

diag(w) == [w EXCEPT !.bad = TRUE]
Reserve(w, id) == [w EXCEPT !.used = @ \cup {id}]
SetRoot(w, name, id) == [w EXCEPT !.roots = (name :> id) @@ @]

freshID(w, base) ==
    IF base \notin w.used THEN base
    ELSE CHOOSE c \in {Append(base, Str(i)) : i \in 1..9} :
            c \notin w.used /\ \A i \in 1..9 : Append(base, Str(i)) = c =>
                                 \A j \in 1..(i - 1) : Append(base, Str(j)) \in w.used

(* An argument list being lowered: the lowerer, the steps hoisted out of   *)
(* the arguments (with those that templates wait for), and the steps read. *)
Reads(a, head) ==
    LET id == IF head \in DOMAIN a.w.roots THEN a.w.roots[head] ELSE <<>>
    IN  [a EXCEPT !.w = IF head \in DOMAIN @.roots THEN @ ELSE diag(@),
                  !.refs = IF id = <<>> THEN @ ELSE @ \cup {id}]

resolveTemplatePath(a, path) ==
    LET b == Reads(a, path[1])
    IN  IF path[1] \in DOMAIN a.w.roots /\ a.w.roots[path[1]] # <<>>
        THEN [b EXCEPT !.needs = @ \cup {a.w.roots[path[1]]}] ELSE b

Hoisted(w) == [w |-> w, needs |-> {}, refs |-> {}]

RECURSIVE lowerArg(_, _, _, _)
lowerCall(w, id, call, pred) ==
    LET args == Args(call)
        whole == Len(call.c[1].c) = 1 /\ Leaf(call) \notin w.workflows /\ isWholeDocumentCall(args)
        a == Through(LAMBDA acc, i : lowerArg(acc, args[i].c[1], id \o <<"arg", Str(i - 1)>>, pred),
                      Hoisted(w), [i \in DOMAIN args |-> i])
        step == [id |-> id, callee |-> applyCallee(call, w.workflows), whole |-> whole,
                 needs |-> pred \cup a.needs, refs |-> a.refs, synthetic |-> w.synthetic]
    IN  [a.w EXCEPT !.steps = Append(@, step)]

HoistCall(a, e, base, pred) ==
    LET id == freshID(a.w, base)
    IN  [w |-> lowerCall(Reserve(a.w, id), id, e, pred), needs |-> a.needs \cup {id}, refs |-> a.refs \cup {id}]

ParentOf(base) == SubSeq(base, 1, Len(base) - 2)

lowerArg(a, e, base, pred) ==
    CASE e.k = "ref"    -> Reads(a, e.c[1].s)
      [] e.k = "string" -> Through(resolveTemplatePath, a, Tokens(e))
      [] e.k = "call"   -> HoistCall(a, e, base, pred)
      [] e.k = "object" ->
            Through(LAMBDA acc, i :
                        lowerArg(acc, e.c[i].c[1], ParentOf(base) \o <<e.c[i].s, "arg", Str(i - 1)>>, pred),
                     a, [i \in DOMAIN e.c |-> i])
      [] Literal(e)     -> a
      [] OTHER          -> [a EXCEPT !.w = diag(@)]

(* The value of a return: strings are not templates here.                  *)
RECURSIVE lowerValue(_, _, _, _)
lowerValue(w, e, base, pred) ==
    CASE e.k = "ref"    -> Reads(Hoisted(w), e.c[1].s).w
      [] e.k = "call"   -> HoistCall(Hoisted(w), e, Append(base, Leaf(e)), pred).w
      [] e.k = "object" -> Through(LAMBDA acc, f : lowerValue(acc, f.c[1], Append(base, f.s), pred), w, e.c)
      [] Literal(e)     -> w
      [] OTHER          -> diag(w)

RootOf(w, e) == IF e.c[1].s \in DOMAIN w.roots THEN w.roots[e.c[1].s] ELSE <<>>

(* At the top level a binding is a step of its own name or an alias.       *)
lowerAssign(w, st, pred) ==
    LET e == st.c[1]
    IN  CASE e.k = "call" -> SetRoot(lowerCall(w, <<st.s>>, e, pred), st.s, <<st.s>>)
          [] e.k = "ref"  -> SetRoot(Reads(Hoisted(w), e.c[1].s).w, st.s, RootOf(w, e))
          [] OTHER        -> diag(w)

lowerControlAssign(w, st, pred) ==
    LET e == st.c[1]
        id == freshID(w, <<st.s>>)
    IN  CASE e.k = "call" -> SetRoot(lowerCall(Reserve(w, id), id, e, pred), st.s, id)
          [] e.k = "ref"  -> SetRoot(Reads(Hoisted(w), e.c[1].s).w, st.s, RootOf(w, e))
          [] Literal(e)   -> w
          [] OTHER        -> diag(w)

ExprStep(w, st, pred) ==
    LET id == freshID(w, <<Leaf(st.c[1])>>)
    IN  IF st.c[1].k = "call" THEN lowerCall(Reserve(w, id), id, st.c[1], pred) ELSE diag(w)

(* The bodies of if, for, while and retry: every arm's calls become steps, *)
(* in order; an approval inside is passed over.                            *)
RECURSIVE lowerControlStmts(_, _, _)
ControlStmt(w, st, pred) ==
    CASE st.k = "assign"   -> lowerControlAssign(w, st, pred)
      [] st.k = "expr"     -> ExprStep(w, st, pred)
      [] st.k = "parallel" -> Through(LAMBDA v, b : lowerControlAssign(v, b, pred), w, st.c)
      [] st.k = "if"       -> Through(LAMBDA v, arm : lowerControlStmts(v, arm.c, pred), w, Tail(st.c))
      [] st.k \in {"for", "parallel for"} -> lowerControlStmts(SetRoot(w, st.s, <<>>), st.c[2].c, pred)
      [] st.k \in {"while", "retry"}      -> lowerControlStmts(w, st.c[2].c, pred)
      [] st.k = "return"   -> lowerValue(w, st.c[1], <<"return">>, pred)
      [] OTHER             -> w
lowerControlStmts(w, stmts, pred) == Through(LAMBDA v, st : ControlStmt(v, st, pred), w, stmts)

lowerApproval(w, st, pred) ==
    LET args == With(st)
        a == Through(LAMBDA acc, i : lowerArg(acc, args[i].c[1], <<st.s, "arg", Str(i - 1)>>, pred),
                      Hoisted(w), [i \in DOMAIN args |-> i])
        step == [id |-> <<st.s>>, callee |-> <<"approval", st.s>>, whole |-> FALSE,
                 needs |-> pred \cup a.needs, refs |-> a.refs, synthetic |-> w.synthetic]
    IN  SetRoot([a.w EXCEPT !.steps = Append(@, step)], st.s, <<st.s>>)

(* lowerBody's frontier: the steps the next statement waits for.           *)
TopStmt(b, st) ==
    LET w == b.w
        pred == b.frontier
    IN  CASE st.k = "assign" ->
                [w |-> lowerAssign(w, st, pred), frontier |-> IF st.c[1].k = "call" THEN {<<st.s>>} ELSE pred]
          [] st.k = "expr" ->
                [w |-> ExprStep(w, st, pred),
                 frontier |-> IF st.c[1].k = "call" THEN {freshID(w, <<Leaf(st.c[1])>>)} ELSE pred]
          [] st.k = "parallel" ->
                LET made == {<<st.c[i].s>> : i \in {j \in DOMAIN st.c : st.c[j].c[1].k = "call"}}
                IN  [w |-> Through(LAMBDA v, a : lowerAssign(v, a, pred), w, st.c),
                     frontier |-> IF made = {} THEN pred ELSE made]
          [] st.k = "approval" -> [w |-> lowerApproval(w, st, pred), frontier |-> {<<st.s>>}]
          [] st.k = "return"   -> [b EXCEPT !.w = lowerValue(@, st.c[1], <<"return">>, pred)]
          [] OTHER -> [b EXCEPT !.w = [lowerControlStmts([w EXCEPT !.synthetic = TRUE], <<st>>, pred)
                                          EXCEPT !.synthetic = FALSE]]

TopNames(stmts) ==
    FlattenSeq([i \in DOMAIN stmts |->
        CASE stmts[i].k = "assign"   -> <<stmts[i].s>>
          [] stmts[i].k = "parallel" -> [j \in DOMAIN stmts[i].c |-> stmts[i].c[j].s]
          [] OTHER                   -> <<>>])

reserveBindings(w, stmts) ==
    LET names == TopNames(stmts)
    IN  [w EXCEPT !.used = {<<names[i]>> : i \in DOMAIN names}, !.bad = @ \/ ~IsInjective(names)]

newEnv(wd) == [p \in Range(Params(wd)) |-> <<>>]

(* lowerer.workflow: the steps of one declaration.                         *)
LowerSteps(wd, workflows) ==
    LET w == [steps |-> <<>>, roots |-> newEnv(wd), used |-> {}, bad |-> FALSE,
              synthetic |-> FALSE, workflows |-> workflows]
        Lowered(b) == [steps |-> b.w.steps, bad |-> b.w.bad]
    IN  Lowered(Through(TopStmt, [w |-> reserveBindings(w, Body(wd)), frontier |-> {}], Body(wd)))

(***************************************************************************)
(* The execution IR.  Values at run time are tagged tuples: <<"nil">>,     *)
(* <<"bool", b>>, <<"num", tenths>>, <<"str", parts>>, <<"list", elems>>,  *)
(* <<"obj", fields>>.  x is the execLowerer: names in use, temporaries     *)
(* made, depth of parallel loops, diagnostics, and the nodes hoisted out   *)
(* of the statement being lowered (pre).                                   *)
(***************************************************************************)

NilValue == <<"nil">>
LitValue(e) ==
    CASE e.k = "bool"   -> <<"bool", e.s = "true">>
      [] e.k = "string" -> <<"str", <<<<"text", IF e.v = <<>> THEN "" ELSE e.v[1][2]>>>>>>
      [] OTHER -> <<"num", CASE e.s = "0" -> 0 [] e.s = "1" -> 10 [] e.s = "1.5" -> 15 [] e.s = "2" -> 20 [] OTHER -> 200>>

Lit(v) == [k |-> "lit", v |-> v]
Ref(path) == [k |-> "ref", path |-> path]

xdiag(x) == [x EXCEPT !.bad = TRUE]

RECURSIVE reserved(_)
reserved(stmts) ==
    UNION {CASE stmts[i].k = "assign"   -> {stmts[i].s}
             [] stmts[i].k = "parallel" -> {stmts[i].c[j].s : j \in DOMAIN stmts[i].c}
             [] stmts[i].k = "if"       -> UNION {reserved(stmts[i].c[j].c) : j \in 2..Len(stmts[i].c)}
             [] stmts[i].k \in {"for", "parallel for"} -> {stmts[i].s} \cup reserved(stmts[i].c[2].c)
             [] stmts[i].k \in {"while", "retry"}      -> reserved(stmts[i].c[2].c)
             [] OTHER -> {} : i \in DOMAIN stmts}

Temp == <<"_t0", "_t1", "_t2", "_t3", "_t4", "_t5">>
freshTemp(x) == CHOOSE i \in DOMAIN Temp :
    i > x.tempN /\ Temp[i] \notin x.used /\ \A j \in (x.tempN + 1)..(i - 1) : Temp[j] \in x.used

stringTemplateValue(e) ==
    LET Part(p) == IF p = <<>> THEN Lit(LitValue(e)) ELSE Ref(p)
    IN  IF Len(Parts(e)) = 1 THEN Ref(Parts(e)[1])
        ELSE [k |-> "template", parts |-> [i \in DOMAIN Parts(e) |-> Part(Parts(e)[i])]]

(* A value: <<its IR, the lowerer after it>>.                              *)
RECURSIVE xlowerValue(_, _)
lowerArgs(x, args, whole) ==
    LET Keyed(acc, i, r) == <<(callArgKey(i, args[i], whole) :> r[1]) @@ acc[1], r[2]>>
    IN  Through(LAMBDA acc, i : Keyed(acc, i, xlowerValue(acc[2], args[i].c[1])), <<<<>>, x>>, [i \in DOMAIN args |-> i])

lowerCallNode(x, bind, call) ==
    LET callee == applyCallee(call, x.workflows)
        whole == callee[1] = "agent" /\ isWholeDocumentCall(Args(call))
        Invoke(r) == <<[k |-> "invoke", bind |-> bind, callee |-> callee, args |-> r[1], whole |-> whole,
                        project |-> FALSE, call |-> call], r[2]>>
    IN  Invoke(lowerArgs(x, Args(call), whole))

ObjectValue(x, e) ==
    LET Field(acc, f, v) == <<Append(acc[1], <<f.s, v[1]>>), v[2]>>
        Object(r) == <<[k |-> "object", fields |-> r[1]], r[2]>>
    IN  Object(Through(LAMBDA acc, f : Field(acc, f, xlowerValue(acc[2], f.c[1])), <<<<>>, x>>, e.c))

xlowerValue(x, e) ==
    CASE e.k = "ref"    -> <<Ref(Path(e)), x>>
      [] Literal(e)     -> <<IF Tokens(e) # <<>> THEN stringTemplateValue(e) ELSE Lit(LitValue(e)), x>>
      [] e.k = "call"   -> LET Lifted(i, r) == <<Ref(<<Temp[i]>>), [r[2] EXCEPT !.pre = Append(@, r[1])]>>
                               Under(i) == Lifted(i, lowerCallNode([x EXCEPT !.tempN = i, !.used = @ \cup {Temp[i]}], Temp[i], e))
                           IN  Under(freshTemp(x))
      [] e.k = "object" -> ObjectValue(x, e)
      [] OTHER          -> <<Lit(NilValue), xdiag(x)>>

(* The hoisted nodes and the node they are for.                            *)
Hoist(r, node) == <<Append(r[2].pre, node), r[2]>>
WithNode(r) == Hoist(r, r[1])

(* Conditions: <<its IR, whether there are diagnostics>>.                  *)
lowerCondLeaf(e) ==
    CASE e.k = "ref" -> <<Ref(Path(e)), FALSE>>
      [] Literal(e)  -> <<Lit(LitValue(e)), FALSE>>
      [] OTHER       -> <<Lit(NilValue), TRUE>>

RECURSIVE lowerCond(_)
lowerCond(e) ==
    CASE e.k = "bin" ->
            LET Side(i) == IF e.s \in {"&&", "||"} THEN lowerCond(e.c[i]) ELSE lowerCondLeaf(e.c[i])
            IN  <<[k |-> "binop", op |-> e.s, x |-> Side(1)[1], y |-> Side(2)[1]], Side(1)[2] \/ Side(2)[2]>>
      [] e.k = "not" -> <<[k |-> "not", x |-> lowerCond(e.c[1])[1]], lowerCond(e.c[1])[2]>>
      [] e.k = "ref" \/ Literal(e) -> lowerCondLeaf(e)
      [] OTHER       -> <<Lit(<<"bool", FALSE>>), TRUE>>

xlowerAssign(x, st) ==
    LET e == st.c[1]
        Let(v) == <<<<[k |-> "let", bind |-> st.s, val |-> v]>>, x>>
    IN  CASE e.k = "call" -> WithNode(lowerCallNode([x EXCEPT !.pre = <<>>], st.s, e))
          [] e.k = "ref"  -> Let(Ref(Path(e)))
          [] Literal(e)   -> Let(Lit(LitValue(e)))
          [] OTHER        -> <<<<>>, xdiag(x)>>

lowerFork(x, st) ==
    LET Branch(acc, b, v) == <<Append(acc[1], [bind |-> b.s, nodes |-> v[1]]), v[2]>>
        Fork(r) == <<<<[k |-> "fork", branches |-> r[1]]>>, r[2]>>
    IN  Fork(Through(LAMBDA acc, b : Branch(acc, b, xlowerAssign(acc[2], b)), <<<<>>, x>>, st.c))

(* A statement: <<its nodes, the lowerer after it>>.                       *)
RECURSIVE lowerStmts(_, _)
lowerLoop(x, st) ==
    LET parallel == st.k = "parallel for"
        deep == IF parallel THEN 1 ELSE 0
        Loop(coll, body) ==
            <<Append(coll[2].pre, [k |-> "loop", var |-> st.s, coll |-> coll[1], parallel |-> parallel, body |-> body[1]]),
              [body[2] EXCEPT !.depth = @ - deep]>>
        Over(coll) == Loop(coll, lowerStmts([coll[2] EXCEPT !.depth = @ + deep], st.c[2].c))
    IN  Over(xlowerValue([x EXCEPT !.pre = <<>>], st.c[1]))

lowerBounded(x, st) ==
    LET cond == lowerCond(st.c[1])
        Bounded(body) ==
            <<<<[k |-> st.k, cond |-> cond[1], limit |-> LitValue(Node("int", st.s, <<>>, 0, <<>>))[2] \div 10,
                 body |-> body[1]]>>,
              IF cond[2] THEN xdiag(body[2]) ELSE body[2]>>
    IN  Bounded(lowerStmts(x, st.c[2].c))

lowerBranch(x, st) ==
    LET cond == lowerCond(st.c[1])
        Branch(then, else) == <<<<[k |-> "branch", cond |-> cond[1], then |-> then[1], else |-> else[1]]>>,
                                IF cond[2] THEN xdiag(else[2]) ELSE else[2]>>
        Else(then) == Branch(then, lowerStmts(then[2], IF Len(st.c) = 3 THEN st.c[3].c ELSE <<>>))
    IN  Else(lowerStmts(x, st.c[2].c))

lowerStmt(x, st) ==
    LET y == [x EXCEPT !.pre = <<>>]
    IN  CASE st.k = "assign"   -> xlowerAssign(x, st)
          [] st.k = "expr"     -> IF st.c[1].k # "call" THEN <<<<>>, xdiag(x)>>
                                  ELSE WithNode(lowerCallNode(y, "", st.c[1]))
          [] st.k = "parallel" -> lowerFork(x, st)
          [] st.k = "if"       -> lowerBranch(x, st)
          [] st.k \in {"for", "parallel for"} -> lowerLoop(x, st)
          [] st.k \in {"while", "retry"}      -> lowerBounded(x, st)
          [] st.k = "return"   -> IF x.depth > 0 THEN <<<<>>, xdiag(x)>>
                                  ELSE LET Return(r) == Hoist(r, [k |-> "return", val |-> r[1]])
                                       IN  Return(xlowerValue(y, st.c[1]))
          [] st.k = "approval" -> LET Ask(r) == Hoist(r, [k |-> "approval", bind |-> st.s, args |-> r[1], redact |-> RedactKeys(st)])
                                  IN  Ask(lowerArgs(y, With(st), FALSE))

lowerStmts(x, stmts) ==
    LET After(acc, r) == <<acc[1] \o r[1], r[2]>>
    IN  Through(LAMBDA acc, st : After(acc, lowerStmt(acc[2], st)), <<<<>>, x>>, stmts)

LowerExec(wd, workflows) ==
    LET x == [workflows |-> workflows, used |-> Range(Params(wd)) \cup reserved(Body(wd)),
              tempN |-> 0, depth |-> 0, bad |-> FALSE, pre |-> <<>>]
        Program(r) == [prog |-> [workflow |-> wd.s, params |-> Params(wd), body |-> r[1]], bad |-> r[2].bad]
    IN  Program(lowerStmts(x, Body(wd)))
=============================================================================
