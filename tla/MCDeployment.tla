---------------------------- MODULE MCDeployment ----------------------------
EXTENDS Deployment, TLC

\* A project and a tool: two configurations share their manifest, the third
\* has no tool.
MCResource == {"project", "tool"}
MCTools == {"tool"}
MCConfig == {[project |-> 1, tool |-> 1], [project |-> 2, tool |-> 1], [project |-> 1, tool |-> 0]}

\* The processes may be exchanged.
MCSymmetry == Permutations(Process)
=============================================================================
