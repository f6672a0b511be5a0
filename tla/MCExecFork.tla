----------------------------- MODULE MCExecFork -----------------------------
(* Small fork/join programs for ExecFork.                                   *)
EXTENDS ExecFork

\* Three branches on two slots: the first runs an inner fork with a gate and
\* then a gated call, the second is one gated call, the third a call of a
\* subworkflow whose second leaf is gated.
MixedInner == [b \in 1..3 |-> IF b = 1 THEN 2 ELSE 0]
MixedSub == {<<3, 0>>}
MixedGated == {<<<<1, 2>>, 1>>, <<<<1, 0>>, 1>>, <<<<2, 0>>, 1>>, <<<<3, 0>>, 2>>}

\* The first of two branches ends in a subworkflow call instead.
NestInner == [b \in 1..2 |-> IF b = 1 THEN 1 ELSE 0]
NestSub == {<<1, 0>>}
NestGated == {<<<<1, 0>>, 2>>, <<<<2, 0>>, 1>>}

\* Two plain calls.
PlainInner == [b \in 1..2 |-> 0]
PlainSub == {}
PlainGated == {}
=============================================================================
