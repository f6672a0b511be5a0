------------------------------- MODULE Effects ------------------------------
(***************************************************************************)
(* The effect bound of a project graph and its enforcement                 *)
(* (internal/effects, internal/spec/effects.go).                           *)
(*                                                                         *)
(* A graph g has g.workflows: name -> [steps, policy], g.agents: name ->   *)
(* [grants, policy], g.tools: name -> [ops: operation -> effects,          *)
(* approval] and g.policies: name -> [permit, withApproval, permissive,    *)
(* requireAll, requiredFor].  An operation and an effect are dotted names, *)
(* as sequences; "uses" is <<"tool", name>> \o operation.  A reached       *)
(* operation is [uses, auto]: auto when an agent chooses to call it.       *)
(***************************************************************************)
EXTENDS EffectPermits, FiniteSets

OperationOf(uses) == SubSeq(uses, 3, Len(uses))

toolHasDeclaredEffects(t) == \E op \in DOMAIN t.ops : t.ops[op] # {}

(* ResolveOperationEffects: a tool without declared effects, an operation  *)
(* it does not declare and an operation without effects are unknown.       *)
ResolveOperationEffects(g, uses) ==
    IF /\ ToolOf(uses) \in DOMAIN g.tools
       /\ OperationOf(uses) \in DOMAIN g.tools[ToolOf(uses)].ops
       /\ g.tools[ToolOf(uses)].ops[OperationOf(uses)] # {}
    THEN g.tools[ToolOf(uses)].ops[OperationOf(uses)]
    ELSE {Unknown}

(***************************************************************************)
(* The walk: w is [seen, reached]; seen holds what was entered, so that a  *)
(* cycle of calls ends.                                                    *)
(***************************************************************************)
addReached(w, uses, auto) == [w EXCEPT !.reached = @ \cup {[uses |-> uses, auto |-> auto]}]

Enter(w, key) == [w EXCEPT !.seen = @ \cup {key}]

(* An agent that is not declared may do anything.                          *)
walkAgent(g, w, name) ==
    LET key == <<"agent", name>>
        grants == IF name \in DOMAIN g.agents THEN g.agents[name].grants ELSE {<<"tool", "?">>}
    IN  IF key \in w.seen THEN w
        ELSE [Enter(w, key) EXCEPT !.reached = @ \cup {[uses |-> u, auto |-> TRUE] : u \in grants}]

RECURSIVE walkWorkflow(_, _, _)
\* Mutant: what a called workflow does is not counted.
ShallowStep(g, w, step) ==
    CASE step.callee[1] = "tool"  -> addReached(w, step.callee, FALSE)
      [] step.callee[1] = "agent" -> walkAgent(g, w, step.callee[2])
      [] OTHER                    -> w

walkStep(g, w, step) ==
    LET callee == step.callee
    IN  CASE callee[1] = "tool"     -> addReached(w, callee, FALSE)
          [] callee[1] = "agent"    -> walkAgent(g, w, callee[2])
          [] callee[1] = "workflow" -> walkWorkflow(g, w, callee[2])
          [] OTHER                  -> w

walkWorkflow(g, w, name) ==
    LET key == <<"workflow", name>>
    IN  IF key \in w.seen \/ name \notin DOMAIN g.workflows THEN w
        ELSE FoldLeft(LAMBDA v, step : walkStep(g, v, step), Enter(w, key), g.workflows[name].steps)

newWalker == [seen |-> {}, reached |-> {}]

boundWorkflow(g, name) == walkWorkflow(g, newWalker, name).reached
boundAgent(g, name) == walkAgent(g, newWalker, name).reached

(* finish: the effects of what was reached, with their occurrences.        *)
Bound(g, reached) ==
    UNION {{[ident |-> e, uses |-> r.uses, auto |-> r.auto] : e \in ResolveOperationEffects(g, r.uses)} : r \in reached}

Idents(bound) == {o.ident : o \in bound}

(***************************************************************************)
(* Check: the policy of every workflow, and of every agent no workflow     *)
(* uses, permits its bound.                                                *)
(***************************************************************************)
NoPolicy == [permit |-> {}, withApproval |-> {}, permissive |-> FALSE, requireAll |-> FALSE, requiredFor |-> {}]
lookupPolicy(g, name) == IF name \in DOMAIN g.policies THEN g.policies[name] ELSE NoPolicy

workflowAgentNames(g) ==
    {n \in DOMAIN g.agents : \E wf \in DOMAIN g.workflows : \E i \in DOMAIN g.workflows[wf].steps :
        g.workflows[wf].steps[i].callee = <<"agent", n>>}

Permitted(g) ==
    \/ \A t \in DOMAIN g.tools : ~toolHasDeclaredEffects(g.tools[t])
    \/ /\ \A n \in DOMAIN g.workflows :
            checkBound(g, Bound(g, boundWorkflow(g, n)), lookupPolicy(g, g.workflows[n].policy))
       /\ \A n \in DOMAIN g.agents \ workflowAgentNames(g) :
            checkBound(g, Bound(g, boundAgent(g, n)), lookupPolicy(g, g.agents[n].policy))
=============================================================================
