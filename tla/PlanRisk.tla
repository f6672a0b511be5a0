------------------------------ MODULE PlanRisk ------------------------------
(***************************************************************************)
(* What `terfyn plan` tells a reviewer (internal/plan): the operations     *)
(* that bring the deployed rows to the desired ones (planner.go,           *)
(* workflow_hash.go), the risks of the changed resources (risk.go) and how *)
(* the authority of the project moves (effects.go).                        *)
(*                                                                         *)
(* A row is [json, exec, hash]: of the resource's JSON the fields of the   *)
(* graph, for a workflow the digest of its program too.  A risk is [cat,   *)
(* sev, on, what].  Wording, order and the policy linter are left out.     *)
(***************************************************************************)
EXTENDS ExecProgram, Effects

HardAgentMaxIterations == 2     \* 32 in the code: the default ceiling

(***************************************************************************)
(* Rows and operations.                                                    *)
(***************************************************************************)
NoDigest == <<>>

\* Mutant: the program is left out of a workflow's hash.
ResourceRow(json, digest) == [json |-> json, exec |-> digest, hash |-> <<json>>]

Row(json, digest) ==
    [json |-> json, exec |-> digest, hash |-> IF digest = NoDigest THEN <<json>> ELSE <<json, digest>>]

RowIds(g) ==
    {<<"agent", n>> : n \in DOMAIN g.agents} \cup {<<"tool", n>> : n \in DOMAIN g.tools}
    \cup {<<"policy", n>> : n \in DOMAIN g.policies} \cup {<<"workflow", n>> : n \in DOMAIN g.workflows}

desiredRows(g, execs) ==
    [id \in RowIds(g) |->
        CASE id[1] = "agent"    -> Row(g.agents[id[2]], NoDigest)
          [] id[1] = "tool"     -> Row(g.tools[id[2]], NoDigest)
          [] id[1] = "policy"   -> Row(g.policies[id[2]], NoDigest)
          [] id[1] = "workflow" -> Row(g.workflows[id[2]], Digest(execs[id[2]]))]

Changed(old, new) == old.hash # new.hash /\ ~(old.json = new.json /\ new.exec = NoDigest)

Operations(desired, applied) ==
    {<<"create", id>> : id \in DOMAIN desired \ DOMAIN applied}
    \cup {<<"update", id>> : id \in {i \in DOMAIN desired \cap DOMAIN applied : Changed(applied[i], desired[i])}}
    \cup {<<"delete", id>> : id \in DOMAIN applied \ DOMAIN desired}

NamesOf(applied, kind) == {id[2] : id \in {i \in DOMAIN applied : i[1] = kind}}
graphFromApplied(applied) ==
    LET Of(kind) == [n \in NamesOf(applied, kind) |-> applied[<<kind, n>>].json]
    IN  [agents |-> Of("agent"), tools |-> Of("tool"), policies |-> Of("policy"), workflows |-> Of("workflow")]

(***************************************************************************)
(* The risks of one changed resource.  old is None for a new one.          *)
(***************************************************************************)
None == <<>>
When(p, items) == IF p THEN items ELSE {}

effectiveCeiling(v) == IF v <= 0 THEN MaxInt ELSE v
policyIterCeiling(pol) == IF pol.maxIterations > 0 THEN pol.maxIterations ELSE HardAgentMaxIterations

NewPolicyRisk(id, new) ==
    When(new.maxCost > 0, {Risk("safety", "low", id, <<"cost">>)})
    \cup When(new.maxWall > 0, {Risk("safety", "low", id, <<"wall">>)})
    \cup When(new.requiredFor # {}, {Risk("safety", "low", id, <<"approvals">>)})
    \cup IF policyIterCeiling(new) > HardAgentMaxIterations
         THEN {Risk("budget_relaxation", "high", id, <<"iterations">>)}
         ELSE When(new.maxIterations > 0, {Risk("safety", "low", id, <<"iterations">>)})

summarizePolicyRisk(id, old, new) ==
    IF old = None THEN NewPolicyRisk(id, new)
    ELSE LET o == old[1]
         IN  When(effectiveCeiling(new.maxCost) > effectiveCeiling(o.maxCost), {Risk("budget_relaxation", "high", id, <<"cost">>)})
             \cup When(effectiveCeiling(new.maxWall) > effectiveCeiling(o.maxWall), {Risk("budget_relaxation", "high", id, <<"wall">>)})
             \cup When(policyIterCeiling(new) > policyIterCeiling(o), {Risk("budget_relaxation", "high", id, <<"iterations">>)})
             \cup approvalRemovals(id, o, new)
             \cup addEffectPermitWidening(id, o, new)

toolHasSideEffects(g, uses) == ToolOf(uses) \in DOMAIN g.tools /\ g.tools[ToolOf(uses)].sideEffects
toolSurfaceItem(g, id, uses) ==
    Risk("tool_surface_change", IF toolHasSideEffects(g, uses) THEN "high" ELSE "medium", id, uses)

summarizeAgentRisk(g, id, old, new) ==
    LET before == IF old = None THEN {} ELSE old[1].grants
    IN  IF old = None THEN When(new.model # <<>>, {Risk("safety", "low", id, <<"model">>)}) \cup {toolSurfaceItem(g, id, u) : u \in new.grants}
        ELSE When(new.model # old[1].model, {Risk("model_change", "medium", id, <<"model">>)})
             \cup {toolSurfaceItem(g, id, u) : u \in new.grants \ before}

(* EffectiveToolDecision: does the tool need an approval under a policy.   *)
(* requiredFor counts by the tool's prefix.                                *)
EffectiveToolDecision(g, pol, tool) ==
    /\ ~pol.permissive
    /\ \/ pol.requireAll
       \/ \E u \in pol.requiredFor : ToolOf(u) = tool
       \/ tool \notin DOMAIN g.tools
       \/ g.tools[tool].approval

AnyPolicyRequires(g, tool) == \E p \in DOMAIN g.policies : EffectiveToolDecision(g, g.policies[p], tool)

(* The old decision is taken under the policies, and when one of them asks *)
(* for an approval with the safety, of the desired graph.                  *)
addToolSafetyRisk(g, id, old) ==
    LET requires == AnyPolicyRequires(g, id[2])
        now == requires \/ g.tools[id[2]].approval
        before == old # None /\ (requires \/ old[1].approval)
    IN  When(now /\ ~before, {Risk("safety", "medium", id, <<"approval">>)})

summarizeRisks(g, desired, applied, ops) ==
    UNION {LET id == op[2]
               old == IF id \in DOMAIN applied THEN <<applied[id].json>> ELSE None
           IN  CASE op[1] = "delete"    -> {}
                 [] op[1] # "delete" /\ id[1] = "policy" -> summarizePolicyRisk(id, old, desired[id].json)
                 [] op[1] # "delete" /\ id[1] = "agent"  -> summarizeAgentRisk(g, id, old, desired[id].json)
                 [] op[1] # "delete" /\ id[1] = "tool"   -> addToolSafetyRisk(g, id, old)
                 [] OTHER -> {} : op \in ops}

(***************************************************************************)
(* Authority: what the desired graph can reach that the deployed cannot.   *)
(***************************************************************************)
GraphBound(g) ==
    UNION ({Bound(g, boundWorkflow(g, n)) : n \in DOMAIN g.workflows} \cup {Bound(g, boundAgent(g, n)) : n \in DOMAIN g.agents})

(* identKey: a known effect by its name, an unknown one by its operation.  *)
identKey(o) == IF o.ident = Unknown THEN <<"unknown", o.uses>> ELSE <<"effect", o.ident>>
collectIdents(g) ==
    LET bound == GraphBound(g)
    IN  [k \in {identKey(o) : o \in bound} |-> \E o \in bound : identKey(o) = k /\ o.auto]

\* Mutant: only an effect that was never there before is a change.
NewEffectItems(desired, deployed) ==
    {Risk("effect_delta", IF desired[k] THEN "high" ELSE "medium", None, k) : k \in DOMAIN desired \ DOMAIN deployed}

effectDeltaItems(desired, deployed) ==
    LET widened == {k \in DOMAIN desired : k \notin DOMAIN deployed \/ (desired[k] /\ ~deployed[k])}
    IN  {Risk("effect_delta", IF desired[k] THEN "high" ELSE "medium", None, k) : k \in widened}

capabilityDeltaItems(g, before) ==
    UNION {LET old == IF n \in DOMAIN before.agents THEN before.agents[n].grants ELSE {}
           IN  {Risk("capability_delta", "high", <<"agent", n>>, u) : u \in g.agents[n].grants \ old} :
               n \in DOMAIN g.agents}

(* compareAuthority: the two lines of the summary.                         *)
compareAuthority(effects, caps) ==
    When(caps # {} \/ \E r \in effects : r.sev = "high", {Risk("authority_widening", "high", None, <<"autonomous">>)})
    \cup When(\E r \in effects : r.sev = "medium", {Risk("authority_widening", "medium", None, <<"static">>)})

attachEffectAuthority(g, applied) ==
    LET before == graphFromApplied(applied)
        effects == effectDeltaItems(collectIdents(g), collectIdents(before))
        caps == capabilityDeltaItems(g, before)
    IN  effects \cup caps \cup compareAuthority(effects, caps)

ComputePlan(g, execs, applied) ==
    LET desired == desiredRows(g, execs)
        ops == Operations(desired, applied)
    IN  [ops |-> ops, rows |-> desired,
         risks |-> summarizeRisks(g, desired, applied, ops) \cup attachEffectAuthority(g, applied),
         bounds |-> [n \in DOMAIN execs |-> InvocationBounds(execs[n])]]
=============================================================================
