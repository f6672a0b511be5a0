----------------------------- MODULE MCExecGraph -----------------------------
(* Small graphs for ExecGraph.                                              *)
EXTENDS ExecGraph

CONSTANTS a, b, g, u, v, w

\* A step a with a deadline, a gate g behind it, a gated subworkflow call v
\* behind the gate, another, w, and one without a gate, u, next to all of them,
\* and a step b that joins g and w: v and w may meet in one attempt, where the
\* second to pause is refused.
MixedNode == {a, b, g, u, v, w}
MixedNeeds ==
  [n \in MixedNode |->
     CASE n = g -> {a} [] n = v -> {g} [] n = b -> {g, w} [] OTHER -> {}]
MixedGated == {<<g, 1>>, <<v, 2>>, <<w, 1>>, <<w, 2>>}
MixedTimed == {<<a, 1>>}

\* A subworkflow call behind a step, next to a gate behind another step.
LateNode == {a, b, g, w}
LateNeeds == [n \in LateNode |-> CASE n = w -> {a} [] n = g -> {b} [] OTHER -> {}]
LateGated == {<<g, 1>>, <<w, 2>>}

\* A gate next to a subworkflow call whose second leaf has a deadline.
BesideNode == {g, w}
BesideNeeds == [n \in BesideNode |-> {}]
BesideGated == {<<g, 1>>}
BesideTimed == {<<w, 2>>}
=============================================================================
