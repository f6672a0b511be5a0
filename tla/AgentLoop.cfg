SPECIFICATION FairSpec
CONSTANTS
  Steps = {"a", "p", "t"}
  Kind <- ThreeSteps
  MaxIter = 2
  Budget = 4
  Deadline = 1
  Prices = {1}
  MaxCalls = 2
INVARIANTS BudgetHolds FailsClosed
PROPERTIES StepsEnd
