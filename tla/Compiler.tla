------------------------------ MODULE Compiler ------------------------------
(***************************************************************************)
(* From a .agent source to a run: the file is parsed and checked           *)
(* (internal/lang), its graph validated (internal/spec), the change        *)
(* planned (internal/plan), applied with its programs pinned               *)
(* (internal/execir), and a workflow run.  The author may edit the file    *)
(* after an apply and go round again.                                      *)
(***************************************************************************)
EXTENDS LangParser, LangCheck, Validate, PlanRisk, LangMeaning

CONSTANTS
    Sources,    \* the files an author may start from
    Versions,   \* the files of one project, that the author edits into one another
    Started,    \* the workflows an operator starts; others are called
    Inputs,     \* the documents a run may be given
    Answers,    \* the answers, in turn, that its calls may get
    MaxEdits

VARIABLES
    source,     \* the file now
    stage,      \* how far it has come
    unit,       \* what it compiles to: [file, graph, execs]
    plan,       \* the plan of the last `plan`
    applied,    \* the deployed rows
    pinned,     \* the deployed programs, in their wire form
    before,     \* ghost: what was deployed before the last apply
    run,        \* the last run: its workflow, input and answers, the calls it made and its outcome
    edits

vars == <<source, stage, unit, plan, applied, pinned, before, run, edits>>

NoUnit == [file |-> Nil, graph |-> <<>>, execs |-> <<>>]
NoPlan == [ops |-> {}, rows |-> <<>>, risks |-> {}, bounds |-> <<>>]
NoRun == [name |-> "", input |-> NilValue, answers |-> <<>>, did |-> [calls |-> <<>>, out |-> NilValue]]
NotDeployed == [rows |-> <<>>, wire |-> <<>>]

Init ==
    /\ source \in Sources \cup Versions
    /\ stage = "edited"
    /\ unit = NoUnit /\ plan = NoPlan
    /\ applied = <<>> /\ pinned = <<>> /\ before = NotDeployed
    /\ run = NoRun
    /\ edits = 0

(* Parse and Check: diagnostics of either refuse the file.                 *)
Compiled(p) ==
    LET Unit(checked) == IF checked.bad THEN NoUnit
                         ELSE [file |-> p.file, graph |-> checked.graph, execs |-> checked.execs]
    IN  IF p.errors THEN NoUnit ELSE Unit(Check(p.file))

Compile ==
    /\ stage = "edited"
    /\ unit' = Compiled(Parse(source))
    /\ stage' = IF unit' = NoUnit THEN "refused" ELSE "checked"
    /\ UNCHANGED <<source, plan, applied, pinned, before, run, edits>>

ValidateGraph ==
    /\ stage = "checked"
    /\ stage' = IF ResolveReferences(unit.graph) THEN "valid" ELSE "refused"
    /\ UNCHANGED <<source, unit, plan, applied, pinned, before, run, edits>>

Plan ==
    /\ stage = "valid"
    /\ plan' = ComputePlan(unit.graph, unit.execs, applied)
    /\ stage' = "planned"
    /\ UNCHANGED <<source, unit, applied, pinned, before, run, edits>>

(* apply does not ask effects.Check again: that is validate's and plan's.  *)
Apply ==
    /\ stage = "planned"
    /\ applied' = plan.rows
    /\ pinned' = MarshalPrograms(unit.execs)
    /\ before' = [rows |-> applied, wire |-> pinned]
    /\ stage' = "applied"
    /\ UNCHANGED <<source, unit, plan, run, edits>>

Ran(wire, answers, name, input) == Run(Machine(UnmarshalPrograms(wire), answers), name, input)

Execute(name, input, answers) ==
    /\ stage = "applied"
    /\ run' = [name |-> name, input |-> input, answers |-> answers, did |-> Ran(pinned, answers, name, input)]
    /\ stage' = "ran"
    /\ UNCHANGED <<source, unit, plan, applied, pinned, before, edits>>

Edit ==
    /\ stage = "applied" /\ edits < MaxEdits
    /\ source \in Versions /\ source' \in Versions \ {source}
    /\ stage' = "edited"
    /\ edits' = edits + 1
    /\ UNCHANGED <<unit, plan, applied, pinned, before, run>>

Done == stage \in {"ran", "refused"} /\ UNCHANGED vars

Next ==
    \/ Compile \/ ValidateGraph \/ Plan \/ Apply \/ Edit \/ Done
    \/ \E name \in Started \cap DOMAIN pinned, input \in Inputs, answers \in Answers : Execute(name, input, answers)

Spec == Init /\ [][Next]_vars

-----------------------------------------------------------------------------
(* The program that runs, lowered, rebound, projected, pinned and read     *)
(* back, makes the calls the author wrote, in order and with the same      *)
(* inputs, and returns what the author returned.                           *)
RunsAsWritten ==
    stage = "ran" =>
        run.did = Meaning(unit.file, run.answers, run.name, run.input)

(* A file that the checker accepted never reads a name that is not bound,  *)
(* whichever way its branches and loops go (the environments of types.go). *)
NoUnboundRead == stage = "ran" => run.did.out # Error("unbound")

(* The effects a call has: those of the operation, or of any operation the *)
(* agent may select.                                                       *)
EffectsOf(g, callee) ==
    CASE callee[1] = "tool"  -> ResolveOperationEffects(g, callee)
      [] callee[1] = "agent" -> UNION {ResolveOperationEffects(g, u) : u \in g.agents[callee[2]].grants}
      [] OTHER               -> {}

(* When effects.Check accepts the graph, whatever a run does, in the       *)
(* workflow itself or in one it calls, was permitted by the policy of the  *)
(* workflow that was started and is covered by its effects clause: the     *)
(* bound is computed from the resource steps, the run made from the        *)
(* execution IR.                                                           *)
PerformedWasPermitted ==
    stage = "ran" /\ Permitted(unit.graph) =>
        LET g == unit.graph
            pol == lookupPolicy(g, g.workflows[run.name].policy)
            clause == Header(WorkflowNamed(unit.file, run.name), "effects")
            performed == UNION {EffectsOf(g, run.did.calls[i].callee) : i \in DOMAIN run.did.calls}
        IN  (\E t \in DOMAIN g.tools : toolHasDeclaredEffects(g.tools[t])) =>
            \A e \in performed :
                /\ identCovered(pol.permit \cup pol.withApproval, e)
                /\ clause # <<>> => identCovered({Path(p) : p \in Range(clause[1].c[1].c)}, e)

(* A run never calls an operation or a workflow more often than the plan's *)
(* invocation bounds said (analyze.go).                                    *)
WithinInvocationBounds ==
    stage = "ran" =>
        LET own == SelectSeq(run.did.calls, LAMBDA c : c.depth = 0 /\ c.callee[1] # "approval")
        IN  \A i \in DOMAIN own :
                Cardinality({j \in DOMAIN own : own[j].callee = own[i].callee}) <= Count(plan.bounds[run.name], own[i].callee)

(* A plan without changes means that nothing changed: what was deployed    *)
(* before would have run the same (workflow_hash.go folds the program's    *)
(* digest into the row).                                                   *)
SilentPlanRunsSame ==
    stage = "ran" /\ plan.ops = {} =>
        Ran(before.wire, run.answers, run.name, run.input) = run.did

(* What a run does that no run of the previous deployment could have done  *)
(* was in the plan's effect deltas: a new effect, also one that an agent   *)
(* could not choose before and now can, which must be of high severity.    *)
(* The capability rows of the plan are not consulted.                      *)
WideningWasReported ==
    stage = "ran" =>
        LET g == unit.graph
            old == collectIdents(graphFromApplied(before.rows))
            Known(key) == key \in DOMAIN old
            Told(key, sevs) == \E r \in plan.risks : r.cat = "effect_delta" /\ r.what = key /\ r.sev \in sevs
            Key(e, uses) == IF e = Unknown THEN <<"unknown", uses>> ELSE <<"effect", e>>
        IN  \A i \in DOMAIN run.did.calls :
                LET callee == run.did.calls[i].callee
                IN  /\ callee[1] = "tool" =>
                        \A e \in ResolveOperationEffects(g, callee) :
                            Known(Key(e, callee)) \/ Told(Key(e, callee), {"medium", "high"})
                    /\ callee[1] = "agent" =>
                        \A u \in g.agents[callee[2]].grants : \A e \in ResolveOperationEffects(g, u) :
                            (Known(Key(e, u)) /\ old[Key(e, u)]) \/ Told(Key(e, u), {"high"})
=============================================================================
