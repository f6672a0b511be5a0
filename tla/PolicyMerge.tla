---------------------------- MODULE PolicyMerge ----------------------------
(***************************************************************************)
(* The policy in force inside nested workflow calls: policy.StricterOf and   *)
(* the merge of policy specs (internal/policy/stricter.go), and what an      *)
(* operator may decide at a gate under a policy (internal/policy/hitl.go,    *)
(* hitl_edit.go).                                                            *)
(*                                                                           *)
(* The gate is on one operation of one tool, so a policy's hitl block is its *)
(* entry for that tool and its switch map.  An absent policy, execution or   *)
(* hitl block is the record with every field unset: the code treats the two  *)
(* alike.  The wall-clock budget merges like the cost, which stands for both. *)
(* Argument paths are flat, so a denied argument and a denied path are one   *)
(* thing; an allowed one is not, since the two lists merge apart.            *)
(***************************************************************************)
EXTENDS Naturals, Sequences

CONSTANTS
  Op,           \* the operations of the gated tool
  GatedOp,      \* the operation at the gate
  Arg,          \* the paths of its arguments
  Policy,       \* the policies workflows may have
  NoEntry,      \* no hitl.interruptOn entry for the tool
  Plain,        \* an entry without a configuration
  HardAgentMaxIterations,
  MaxWorkflowNesting

VARIABLE frames   \* the call stack; a frame is [policy, inForce]

Decisions == {"approve", "reject", "edit", "switch"}

\* hitlDecisionNone, the deny-all sentinel.
DenyAll == "deny-all"

\* HitlInterruptConfig and PolicySpec, as far as they merge.
HitlEntry ==
  [decisions : SUBSET (Decisions \cup {DenyAll}), args : SUBSET Arg, paths : SUBSET Arg,
   denied : SUBSET Arg, tools : SUBSET Op, switch : [Op -> SUBSET Op]]
PolicySpec ==
  [cost : Nat, iters : Nat, entry : {NoEntry, Plain} \cup HitlEntry, switch : [Op -> SUBSET Op]]

ASSUME PolicyMergeAssumption ==
  /\ GatedOp \in Op /\ NoEntry # Plain /\ {NoEntry, Plain} \cap HitlEntry = {}
  /\ Policy \subseteq PolicySpec
  /\ HardAgentMaxIterations \in Nat \ {0} /\ MaxWorkflowNesting \in Nat

-----------------------------------------------------------------------------
(* The merge. *)

\* joinAllowList: an empty list is an unset one.
JoinAllowList(a, b) ==
  IF a = {} THEN b ELSE IF b = {} THEN a ELSE a \cap b

JoinAllowMap(f, g) == [o \in Op |-> JoinAllowList(f[o], g[o])]

\* unionStrings, for the denied lists.
UnionDenials(a, b) == a \cup b

DeclaresEdits(e) == e.args # {} \/ e.paths # {} \/ e.denied # {}

\* The decisions an entry permits when it lists none: approve and reject, edit
\* if it says something of edits, switch if sw says so.
DefaultDecisions(e, sw) ==
  {"approve", "reject"}
    \cup (IF e \notin {NoEntry, Plain} /\ DeclaresEdits(e) THEN {"edit"} ELSE {})
    \cup (IF sw THEN {"switch"} ELSE {})

\* effectiveDecisions: what an entry permits, whatever the operation.
EffectiveDecisions(e) ==
  IF e # Plain /\ e.decisions # {} THEN e.decisions
  ELSE DefaultDecisions(e, e # Plain /\ (e.tools # {} \/ \E o \in Op : e.switch[o] # {}))

\* Mutant: two sides that agree on nothing leave the list empty, that is unset.
PlainIntersection(a, b) == a \cap b

\* intersectDecisions.
IntersectDecisions(a, b) == IF a \cap b = {} THEN {DenyAll} ELSE a \cap b

\* mergeHitlConfigFields.
MergeFields(a, b) ==
  IF a = Plain THEN b ELSE IF b = Plain THEN a
  ELSE [decisions |-> {},
        args   |-> JoinAllowList(a.args, b.args),
        paths  |-> JoinAllowList(a.paths, b.paths),
        denied |-> UnionDenials(a.denied, b.denied),
        tools  |-> JoinAllowList(a.tools, b.tools),
        switch |-> JoinAllowMap(a.switch, b.switch)]

\* mergeHitlInterruptValue.
MergeEntry(a, b) ==
  IF a = Plain /\ b = Plain THEN Plain
  ELSE [MergeFields(a, b) EXCEPT
          !.decisions = IntersectDecisions(EffectiveDecisions(a), EffectiveDecisions(b))]

\* mergeStricterHitl, for the tool at the gate.
MergeStricterHitl(a, b) ==
  IF a = NoEntry THEN b ELSE IF b = NoEntry THEN a ELSE MergeEntry(a, b)

\* The tighter of two budgets; 0 is no budget.
Tighter(a, b) == IF b > 0 /\ (a = 0 \/ b < a) THEN b ELSE a

\* EffectiveMaxIterationsCeiling: 0 is the default.
IterationCeiling(n) == IF n > 0 THEN n ELSE HardAgentMaxIterations

\* Mutant: 0 is taken for no ceiling, as in the budgets.
MergeUnsetIterations(a, b) == Tighter(a, b)

\* The merged maxIterations, left unset at the default.
MergeIterations(a, b) ==
  LET c == IF IterationCeiling(a) <= IterationCeiling(b) THEN IterationCeiling(a) ELSE IterationCeiling(b)
  IN IF c = HardAgentMaxIterations THEN 0 ELSE c

\* mergeStricterPolicySpec.
MergeStricterPolicySpec(a, b) ==
  [cost   |-> Tighter(a.cost, b.cost),
   iters  |-> MergeIterations(a.iters, b.iters),
   entry  |-> MergeStricterHitl(a.entry, b.entry),
   switch |-> JoinAllowMap(a.switch, b.switch)]

-----------------------------------------------------------------------------
(* What an operator may decide under a policy. *)

Configured(p) == p.entry \notin {NoEntry, Plain}

\* resolveSwitchTargets.
SwitchTargets(p) ==
  p.switch[GatedOp] \cup (IF Configured(p) THEN p.entry.tools \cup p.entry.switch[GatedOp] ELSE {})

\* ResolveHitlReview, the decisions; the sentinel collapses to no decision.
ReviewDecisions(p) ==
  Decisions \cap (IF Configured(p) /\ p.entry.decisions # {} THEN p.entry.decisions
                  ELSE DefaultDecisions(p.entry, SwitchTargets(p) # {}))

\* ValidateHitlEdit of an edit that changes the argument x: deny wins.
MayEdit(p, x) ==
  /\ "edit" \in ReviewDecisions(p)
  /\ Configured(p) /\ x \in (p.entry.args \cup p.entry.paths) \ p.entry.denied

\* ApplyHitlDecision of a switch to the operation t.
MaySwitch(p, t) == "switch" \in ReviewDecisions(p) /\ t \in SwitchTargets(p)

-----------------------------------------------------------------------------
(* Workflow calls. *)

Top == frames[Len(frames)]

StackInit == \E p \in Policy : frames = <<[policy |-> p, inForce |-> p]>>

\* The root is at depth 0.
DepthAllowed == Len(frames) <= MaxWorkflowNesting

\* InvokeWorkflow of a callee with policy p.
InvokeWorkflow(p) ==
  /\ DepthAllowed
  /\ frames' = Append(frames, [policy |-> p, inForce |-> MergeStricterPolicySpec(Top.inForce, p)])

\* The callee returns; the caller's evaluator is its own.
Return == Len(frames) > 1 /\ frames' = SubSeq(frames, 1, Len(frames) - 1)

StackNext == (\E p \in Policy : InvokeWorkflow(p)) \/ Return

StackSpec == StackInit /\ [][StackNext]_frames

-----------------------------------------------------------------------------
(* Properties. *)

OnStack == {frames[i].policy : i \in DOMAIN frames}

\* The stack is within the nesting limit, and the decisions of the policy in
\* force are decisions or the sentinel.
StackTypeOK ==
  /\ Len(frames) \in 1 .. MaxWorkflowNesting + 1
  /\ Configured(Top.inForce) => Top.inForce.entry.decisions \subseteq Decisions \cup {DenyAll}

\* At a gate under policies that all have an entry for the tool, approve, reject
\* and edit are allowed exactly if every policy on the stack allows them, however
\* deep the calls: nothing both sides forbid comes back (issue 357).  And an
\* argument that some policy on the stack denies cannot be edited (deny wins over
\* every list of another policy).
ReviewNeverWidens ==
  /\ (\A p \in OnStack : p.entry # NoEntry) =>
       \A d \in Decisions \ {"switch"} :
         d \in ReviewDecisions(Top.inForce) <=> \A p \in OnStack : d \in ReviewDecisions(p)
  /\ \A p \in OnStack, x \in Arg : Configured(p) /\ x \in p.entry.denied => ~MayEdit(Top.inForce, x)

\* The budget and the iteration ceiling in force are the tightest of the stack,
\* an unset iteration ceiling counting as the default (issue 522).
TightestCeilings ==
  /\ \A p \in OnStack : p.cost > 0 => Top.inForce.cost \in 1 .. p.cost
  /\ Top.inForce.cost \in {p.cost : p \in OnStack}
  /\ \A p \in OnStack : IterationCeiling(Top.inForce.iters) <= IterationCeiling(p.iters)
  /\ \E p \in OnStack : IterationCeiling(Top.inForce.iters) = IterationCeiling(p.iters)

\* What the design document says of edits, that the allowances intersect.
EditsIntersect ==
  \A x \in Arg : MayEdit(Top.inForce, x) => \A p \in OnStack : p.entry # NoEntry => MayEdit(p, x)

\* What effectiveDecisions says of switch: the merge is never more permissive
\* than a side.
SwitchWithinSides ==
  "switch" \in ReviewDecisions(Top.inForce)
    => \A p \in OnStack : p.entry # NoEntry => "switch" \in ReviewDecisions(p)

=============================================================================
