----------------------------- MODULE LangMeaning ----------------------------
(***************************************************************************)
(* What a .agent workflow says: a reference that evaluates the tree itself,*)
(* as its author reads it.  Statements run in order, a call is made where  *)
(* it is written, its arguments from left to right before it, a workflow   *)
(* call is the value its body returns.  No step, no node, no temporary and *)
(* no wire form is involved; only the arithmetic of values is shared with  *)
(* ExecProgram.                                                            *)
(*                                                                         *)
(* s is the state of one workflow: env, the calls of the whole run so far, *)
(* out, done, err and depth.  An expression's meaning is <<value, state>>. *)
(***************************************************************************)
EXTENDS ExecProgram

Stuck(s) == s.done \/ s.err # ""
Raise(s, v) == [s EXCEPT !.err = v[2]]
Yield(v, s) == IF IsError(v) THEN <<NilValue, Raise(s, v)>> ELSE <<v, s>>
Assigned(s, name, v) == IF Stuck(s) THEN s ELSE [s EXCEPT !.env = (name :> v) @@ @]

WorkflowNamed(file, name) == CHOOSE d \in Range(file.c) : d.k = "workflow" /\ d.s = name
WorkflowNames(file) == {d.s : d \in {e \in Range(file.c) : e.k = "workflow"}}

(* The returns written anywhere in a body; are all of them {...}?          *)
RECURSIVE ReturnsIn(_)
ReturnsIn(st) ==
    IF st.k = "return" THEN {st.c[1]} ELSE IF st.k \in {"assign", "expr", "approval"} THEN {}
    ELSE UNION {ReturnsIn(st.c[i]) : i \in DOMAIN st.c}
BodyReturns(wd) == UNION {ReturnsIn(Body(wd)[i]) : i \in DOMAIN Body(wd)}
ReturnsObjects(wd) == \A e \in BodyReturns(wd) : e.k = "object"

(* The value of a workflow that ended: falling off the end is {} when its  *)
(* returns, if any, are objects, and nothing otherwise.                    *)
ResultValue(wd, s) == IF ~s.done /\ ReturnsObjects(wd) THEN Doc(<<>>) ELSE s.out

(* The parameter each argument is for: a named one its own, the others the *)
(* remaining parameters in order.                                          *)
ParamFor(params, args, i) ==
    LET taken == {args[j].s : j \in DOMAIN args}
        open == SelectSeq(params, LAMBDA p : p \notin taken)
    IN  IF args[i].s # "" THEN args[i].s ELSE open[Cardinality({j \in 1..i : args[j].s = ""})]

RECURSIVE Means(_, _, _)
RECURSIVE Does(_, _, _)
DoesAll(m, s, stmts) == Through(LAMBDA q, st : IF Stuck(q) THEN q ELSE Does(m, q, st), s, stmts)

(* The values of a list of arguments or fields, from left to right.        *)
MeansEach(m, s, args) ==
    Through(LAMBDA acc, a : IF Stuck(acc[2]) THEN acc
                             ELSE LET r == Means(m, acc[2], a.c[1]) IN <<Append(acc[1], r[1]), r[2]>>,
             <<<<>>, s>>, args)

Called(s, callee, input) == [s EXCEPT !.calls = Append(@, [callee |-> callee, input |-> input, depth |-> s.depth])]

Named(args, vals, KeyOf(_)) ==
    [key \in {KeyOf(i) : i \in DOMAIN args} |-> vals[CHOOSE i \in DOMAIN args : KeyOf(i) = key]]

CallWorkflow(m, s, name, args, vals) ==
    LET wd == WorkflowNamed(m.file, name)
        params == Params(wd)
        env == Named(args, vals, LAMBDA i : ParamFor(params, args, i))
        at == Called(s, <<"workflow", name>>, IF Len(params) = 1 THEN env[params[1]] ELSE Doc(env))
        end == DoesAll(m, [at EXCEPT !.env = env, !.depth = @ + 1, !.out = NilValue], Body(wd))
        back == [s EXCEPT !.calls = end.calls, !.err = end.err]
    IN  IF end.err # "" THEN <<NilValue, back>> ELSE <<ResultValue(wd, end), back>>

Positions == <<"arg0", "arg1", "arg2", "arg3">>

MeansCall(m, s, e) ==
    LET path == Path(e.c[1])
        args == Args(e)
        got == MeansEach(m, s, args)
        doc == Doc(Named(args, got[1], LAMBDA i : IF args[i].s = "" THEN Positions[i] ELSE args[i].s))
        tool == Len(path) > 1
        input == IF ~tool /\ Len(args) = 1 /\ args[1].s = "" THEN got[1][1] ELSE doc
        at == Called(got[2], IF tool THEN <<"tool">> \o path ELSE <<"agent", path[1]>>, input)
    IN  IF Stuck(got[2]) THEN <<NilValue, got[2]>>
        ELSE IF ~tool /\ path[1] \in WorkflowNames(m.file) THEN CallWorkflow(m, got[2], path[1], args, got[1])
        ELSE <<Answer(m, at.calls), at>>

(* A string with ${} tokens, in an argument or a value that is returned.   *)
MeansString(s, e) ==
    LET Piece(p) == IF p = <<>> THEN LitValue(e) ELSE resolvePath(s.env, p)
        pieces == [i \in DOMAIN Parts(e) |-> Piece(Parts(e)[i])]
    IN  IF Len(pieces) = 1 THEN Yield(pieces[1], s)
        ELSE Yield(IF FirstError(pieces) # <<>> THEN FirstError(pieces)[1]
                   ELSE <<"str", FlattenSeq([i \in DOMAIN pieces |-> stringify(pieces[i])])>>, s)

Means(m, s, e) ==
    CASE e.k = "ref"    -> Yield(resolvePath(s.env, Path(e)), s)
      [] e.k = "string" /\ Tokens(e) # <<>> -> MeansString(s, e)
      [] e.k = "call"   -> MeansCall(m, s, e)
      [] e.k = "object" -> LET got == MeansEach(m, s, e.c)
                           IN  IF Stuck(got[2]) THEN <<NilValue, got[2]>>
                               ELSE <<Doc(Named(e.c, got[1], LAMBDA i : e.c[i].s)), got[2]>>
      [] OTHER -> <<LitValue(e), s>>

(* A condition: a truth value or an error.                                 *)
RECURSIVE Holds(_, _)
Holds(env, e) ==
    LET Value(x) == IF x.k = "ref" THEN resolvePath(env, Path(x)) ELSE LitValue(x)
        Side(i) == Holds(env, e.c[i])
    IN  CASE e.k = "bin" /\ e.s \in {"&&", "||"} ->
                IF IsError(Side(1)) \/ Side(1)[2] = (e.s = "||") THEN Side(1) ELSE Side(2)
          [] e.k = "bin" /\ e.s \notin {"&&", "||"} -> Compare(e.s, Value(e.c[1]), Value(e.c[2]))
          [] e.k = "not" -> IF IsError(Side(1)) THEN Side(1) ELSE <<"bool", ~Side(1)[2]>>
          [] OTHER -> IF IsError(Value(e)) THEN Value(e) ELSE <<"bool", truthy(Value(e))>>

(* Names bound inside a body go with it; what was there before keeps its   *)
(* new value.                                                              *)
Leave(s, before) == [s EXCEPT !.env = [n \in DOMAIN before.env |-> @[n]]]

DoesFor(m, s, st) ==
    LET apart == st.k = "parallel for"
        One(q, item) == IF Stuck(q) THEN q
                        ELSE DoesAll(m, Assigned(IF apart THEN [q EXCEPT !.env = s.env] ELSE q, st.s, item), st.c[2].c)
        Out(end) == IF apart THEN [end EXCEPT !.env = s.env] ELSE Leave(end, s)
        Over(got) ==
            LET items == IF got[1] = NilValue THEN <<"list", <<>>>> ELSE got[1]
            IN  CASE Stuck(got[2]) -> got[2]
                  [] ~Stuck(got[2]) /\ items[1] # "list" -> Raise(got[2], Error("type"))
                  [] ~Stuck(got[2]) /\ items[1] = "list" /\ Len(items[2]) > MaxLoopIterations -> Raise(got[2], Error("items"))
                  [] OTHER -> Out(Through(One, got[2], items[2]))
    IN  Over(Means(m, s, st.c[1]))

RECURSIVE DoesWhile(_, _, _, _)
DoesWhile(m, s, st, left) ==
    LET c == Holds(s.env, st.c[1])
    IN  IF Stuck(s) \/ left = 0 THEN s
        ELSE IF IsError(c) THEN Raise(s, c)
        ELSE IF c[2] THEN DoesWhile(m, DoesAll(m, s, st.c[2].c), st, left - 1) ELSE s

RECURSIVE DoesRetry(_, _, _, _)
DoesRetry(m, s, st, left) ==
    LET q == DoesAll(m, s, st.c[2].c)
        c == Holds(q.env, st.c[1])
    IN  IF left = 0 THEN Raise(s, Error("exhausted"))
        ELSE IF Stuck(q) THEN q
        ELSE IF IsError(c) THEN Raise(q, c)
        ELSE IF c[2] THEN q ELSE DoesRetry(m, q, st, left - 1)

Limit(st) == Min({LitValue(Node("int", st.s, <<>>, 0, <<>>))[2] \div 10, MaxLoopIterations})

DoesParallel(m, s, st) ==
    LET Branch(acc, b) ==
            IF Stuck(acc.s) THEN acc
            ELSE LET r == Means(m, [acc.s EXCEPT !.env = s.env], b.c[1]) IN [s |-> r[2], got |-> (b.s :> r[1]) @@ acc.got]
        end == Through(Branch, [s |-> s, got |-> <<>>], st.c)
    IN  [end.s EXCEPT !.env = end.got @@ s.env]

DoesApproval(m, s, st) ==
    LET args == With(st)
        Asked(got) ==
            LET doc == Doc(Named(args, got[1], LAMBDA i : IF args[i].s = "" THEN Positions[i] ELSE args[i].s))
                at == Called(got[2], <<"approval", st.s>>, doc)
            IN  IF Stuck(got[2]) THEN got[2] ELSE Assigned(at, st.s, Answer(m, at.calls))
    IN  Asked(MeansEach(m, s, args))

DoesIf(m, s, st) ==
    LET c == Holds(s.env, st.c[1])
        arm == IF c[2] THEN st.c[2].c ELSE IF Len(st.c) = 3 THEN st.c[3].c ELSE <<>>
    IN  IF IsError(c) THEN Raise(s, c) ELSE DoesAll(m, s, arm)

Does(m, s, st) ==
    CASE st.k = "assign"   -> LET r == Means(m, s, st.c[1]) IN Assigned(r[2], st.s, r[1])
      [] st.k = "expr"     -> Means(m, s, st.c[1])[2]
      [] st.k = "return"   -> LET r == Means(m, s, st.c[1])
                              IN  IF Stuck(r[2]) THEN r[2] ELSE [r[2] EXCEPT !.out = r[1], !.done = TRUE]
      [] st.k = "if"       -> DoesIf(m, s, st)
      [] st.k \in {"for", "parallel for"} -> DoesFor(m, s, st)
      [] st.k = "while"    -> DoesWhile(m, s, st, Limit(st))
      [] st.k = "retry"    -> DoesRetry(m, s, st, Limit(st))
      [] st.k = "parallel" -> DoesParallel(m, s, st)
      [] st.k = "approval" -> DoesApproval(m, s, st)

(* The calls and the output document of a run.  A workflow that returns    *)
(* anything but object literals has its value under "value".               *)
Meaning(file, answers, name, input) ==
    LET wd == WorkflowNamed(file, name)
        params == Params(wd)
        m == [file |-> file, answers |-> answers]
        env == IF Len(params) = 1 THEN params[1] :> input
               ELSE [p \in Range(params) |-> IF p \in DOMAIN input[2] THEN input[2][p] ELSE NilValue]
        start == [env |-> env, calls |-> <<>>, out |-> NilValue, done |-> FALSE, err |-> "", depth |-> 0]
        End(s) == [calls |-> s.calls,
                   out |-> CASE s.err # "" -> Error(s.err)
                             [] s.err = "" /\ ReturnsObjects(wd) -> ResultValue(wd, s)
                             [] OTHER -> Doc("value" :> ResultValue(wd, s))]
    IN  End(DoesAll(m, start, Body(wd)))
=============================================================================
