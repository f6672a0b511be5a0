SPECIFICATION Spec
CONSTANTS
  p1 = p1
  p2 = p2
  p3 = p3
  Proc = {p1, p2, p3}
  Run = {1}
  Gates = 2
  Decision = {"approve", "reject", "none", "auto"}
SYMMETRY Symmetry
CHECK_DEADLOCK FALSE
INVARIANTS IndInv SingleExecutor EffectOnce
PROPERTIES FinishedStays
