SPECIFICATION Spec
CONSTANTS
  Process = {p1, p2}
  Resource <- MCResource
  Tools <- MCTools
  Config <- MCConfig
  Absent = 0
  NoConfig = NoConfig
  Run = {r1}
INVARIANTS SurvivingRunsHydrate OneConfigPerRun
PROPERTIES PlanIsExact
SYMMETRY MCSymmetry
