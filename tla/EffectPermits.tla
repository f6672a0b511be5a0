---------------------------- MODULE EffectPermits ----------------------------
(***************************************************************************)
(* What the effect lists of one policy let through                         *)
(* (internal/effects/enforce.go, internal/spec/effects.go), and what the   *)
(* plan says of a change of them and of the required approvals             *)
(* (internal/plan/risk.go).                                                *)
(*                                                                         *)
(* An effect is a dotted name, as a sequence.  An occurrence is [ident,    *)
(* uses, auto]: an effect of the operation uses.                           *)
(***************************************************************************)
EXTENDS Naturals, Sequences, SequencesExt

Unknown == <<"?">>      \* an effect nothing is known of

EffectCovers(declared, candidate) == IsPrefix(declared, candidate)
identCovered(list, ident) == \E p \in list : EffectCovers(p, ident)

ToolOf(uses) == uses[2]

witnessingRequiresApproval(g, pol, uses) ==
    /\ ~pol.permissive
    /\ \/ pol.requireAll
       \/ uses \in pol.requiredFor
       \/ ToolOf(uses) \notin DOMAIN g.tools
       \/ g.tools[ToolOf(uses)].approval

\* An effect behind an approval may be permitted only as such.
Accepts(g, pol, o) ==
    /\ o.ident # Unknown
    /\ \/ identCovered(pol.withApproval, o.ident)
       \/ identCovered(pol.permit, o.ident) /\ ~witnessingRequiresApproval(g, pol, o.uses)

checkBound(g, bound, pol) == \A o \in bound : Accepts(g, pol, o)

-----------------------------------------------------------------------------
Risk(cat, sev, id, what) == [cat |-> cat, sev |-> sev, on |-> id, what |-> what]

policyAnyEffectPermits(pol) == pol.permit \cup pol.withApproval
policyUnattendedEffectPermits(pol) == {e \in pol.permit : ~identCovered(pol.withApproval, e)}

addEffectPermitWidening(id, old, new) ==
    LET Fresh(permits, before) == {e \in permits : ~identCovered(before, e)}
    IN  {Risk("effect_permit_widening", "high", id, e) :
            e \in Fresh(policyUnattendedEffectPermits(new), policyUnattendedEffectPermits(old))
                  \cup Fresh(policyAnyEffectPermits(new), policyAnyEffectPermits(old))}

approvalRemovals(id, old, new) == {Risk("approval_removal", "high", id, u) : u \in old.requiredFor \ new.requiredFor}
=============================================================================
