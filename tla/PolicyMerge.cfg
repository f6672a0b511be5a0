SPECIFICATION StackSpec
CONSTANTS
  Op <- MCOp
  GatedOp = "pay"
  Arg <- MCArg
  Policy <- MCPolicies
  NoEntry = NoEntry
  Plain = Plain
  HardAgentMaxIterations = 3
  MaxWorkflowNesting = 2
INVARIANTS ReviewNeverWidens TightestCeilings
