------------------------------ MODULE Validate ------------------------------
(***************************************************************************)
(* The validation of a project graph's references                          *)
(* (internal/spec: refindex.go, resolve.go, workflow_graph.go,             *)
(* workflow_calls.go): what is named exists, the steps of a workflow are   *)
(* an acyclic graph in which a step reads only its predecessors, and       *)
(* workflows call each other without recursion and not too deeply.         *)
(***************************************************************************)
EXTENDS Effects

CONSTANT MaxWorkflowNesting

BuiltinPresets == {"strict", "permissive", "shell_safe"}

(* RefIndex: what the agents and workflows of a graph name.                *)
AgentTools(g, n) == {ToolOf(u) : u \in g.agents[n].grants}
Callees(g, wf, kind) ==
    LET steps == g.workflows[wf].steps
    IN  {steps[i].callee[2] : i \in {j \in DOMAIN steps : steps[j].callee[1] = kind}}

PolicyExists(g, name) == name = "" \/ name \in DOMAIN g.policies \/ name \in BuiltinPresets

(***************************************************************************)
(* The steps of one workflow.                                              *)
(***************************************************************************)
Ids(steps) == {steps[i].id : i \in DOMAIN steps}
stepIndexByID(steps, id) == CHOOSE i \in DOMAIN steps : steps[i].id = id /\ \A j \in 1..(i - 1) : steps[j].id # id

validateWorkflowStepErrors(steps) == Cardinality(Ids(steps)) = Len(steps)

(* StepAncestorIDs: the steps that come before one, over any number of     *)
(* needs.  Lowered steps declare their needs, even when they have none.    *)
RECURSIVE StepAncestorIDs(_, _)
StepAncestorIDs(steps, ids) ==
    LET more == ids \cup UNION {steps[stepIndexByID(steps, id)].needs : id \in ids \cap Ids(steps)}
    IN  IF more = ids THEN ids ELSE StepAncestorIDs(steps, more)

(* Steps flattened out of control flow are never executed from the graph   *)
(* and are left to the checker.                                            *)
validateWorkflowStepOrder(steps) ==
    \A i \in DOMAIN steps : ~steps[i].synthetic =>
        steps[i].refs \subseteq Ids(steps) \cap StepAncestorIDs(steps, steps[i].needs)

validateWorkflowGraph(steps) ==
    \A i \in DOMAIN steps : /\ steps[i].needs \subseteq Ids(steps)
                            /\ steps[i].id \notin StepAncestorIDs(steps, steps[i].needs)

(***************************************************************************)
(* Calls between workflows.                                                *)
(***************************************************************************)
RECURSIVE AtDepth(_, _, _)
AtDepth(g, entry, d) ==
    IF d = 0 THEN {entry}
    ELSE UNION {Callees(g, wf, "workflow") \cap DOMAIN g.workflows : wf \in AtDepth(g, entry, d - 1)}

(* A chain of calls longer than there are workflows repeats one.           *)
validateWorkflowCalls(g) ==
    \A entry \in DOMAIN g.workflows : AtDepth(g, entry, Cardinality(DOMAIN g.workflows)) = {}

validateWorkflowNestingDepth(g) == \A entry \in DOMAIN g.workflows : AtDepth(g, entry, MaxWorkflowNesting + 1) = {}

(* collectReferenceErrors finds nothing.                                   *)
ResolveReferences(g) ==
    /\ \A n \in DOMAIN g.agents : AgentTools(g, n) \subseteq DOMAIN g.tools /\ PolicyExists(g, g.agents[n].policy)
    /\ \A wf \in DOMAIN g.workflows :
        LET steps == g.workflows[wf].steps
        IN  /\ Callees(g, wf, "agent") \subseteq DOMAIN g.agents
            /\ Callees(g, wf, "tool") \subseteq DOMAIN g.tools
            /\ Callees(g, wf, "workflow") \subseteq DOMAIN g.workflows
            /\ PolicyExists(g, g.workflows[wf].policy)
            /\ validateWorkflowStepErrors(steps)
            /\ validateWorkflowStepOrder(steps)
            /\ validateWorkflowGraph(steps)
    /\ validateWorkflowCalls(g)
    /\ validateWorkflowNestingDepth(g)
=============================================================================
