SPECIFICATION Spec
CONSTANTS
  Writer = {w1, w2}
  Runner = {r1}
  Config <- MCConfig
  Grants <- MCGrants
  Root = "main"
  Callee = "sub"
  NoFile = NoFile
  Torn = Torn
INVARIANTS ResumedFromPin UndisturbedFromPin
