------------------------------- MODULE Invoker -------------------------------
(***************************************************************************)
(* The suspension slot of engineInvoker (internal/engine/execir_invoker.go) *)
(* and the seed a resume loads back into it.  One run presents at most one  *)
(* suspension cause: a direct gate (a tool call or an approval of the root  *)
(* program) or the frame of one suspended subworkflow.  The two fields      *)
(* a.pending and a.nested exclude each other - setPendingIfFirst refuses    *)
(* when either is set and setNestedIfFirst clears the other - so they are   *)
(* one record here, and so are pendingSeed and nestedSeed.                  *)
(*                                                                          *)
(* A slot is [kind, leaf, inner]: the CallSite key the cause is anchored to *)
(* (a leaf <<n, k>>, the k-th leaf of node n's program) and, for a nested   *)
(* frame, how many leaves of the callee's body its memo holds (ExecMemo).   *)
(***************************************************************************)
EXTENDS Naturals

CONSTANT NoLeaf    \* the anchor of an empty slot

NoSlot == [kind |-> "none", leaf |-> NoLeaf, inner |-> 0]

\* PendingHitlState, anchored to leaf by ExecKey.
DirectGate(leaf) == [kind |-> "direct", leaf |-> leaf, inner |-> 0]

\* nestedSuspension / NestedRunState: the callee's memo (a prefix of its
\* body, which runs in order) and the gate it stopped at.
NestedFrame(leaf, inner) == [kind |-> "nested", leaf |-> leaf, inner |-> inner]

\* First suspend wins; a racing second gate is dropped and asks again on resume.
SetPendingIfFirst(slot, leaf) ==
  IF slot.kind = "none" THEN DirectGate(leaf) ELSE slot

\* A frame preempts a direct gate; a second frame is refused.
NestedRefused(slot) == slot.kind = "nested"

\* setNestedIfFirst.
SetNestedIfFirst(slot, leaf, inner) ==
  IF NestedRefused(slot) THEN slot ELSE NestedFrame(leaf, inner)

\* Mutant: a claim that does not compare keys.
ClaimsAny(seed, leaf, nested) == seed.kind # "none"

\* claimPending (direct gates) and claimNestedSeed followed by the child's own
\* claimPending (gates of a callee): the seed answers exactly its own key.
ClaimsPending(seed, leaf, nested) ==
  /\ seed.kind = (IF nested THEN "nested" ELSE "direct")
  /\ seed.leaf = leaf

=============================================================================
