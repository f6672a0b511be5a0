--------------------------- MODULE MCRunLifecycle ---------------------------
EXTENDS RunLifecycle, TLC
CONSTANTS p1, p2, p3
Symmetry == Permutations(Proc)
=============================================================================
