SPECIFICATION Spec
CONSTANTS
  Call = {c1}
  Transport = {"native", "stdio", "mcphttp", "http"}
  MaxAttempts = 2
  MaxLines = 3
  MaxUnread = 1
  MaxBody = 2
  Cost = {0, 2}
  Budget = 1
INVARIANTS
  OwnAnswer
  AnsweredNotRepeated
  Audited
  FinishedQuiet
  OutcomeHonest
PROPERTY
  CallsEnd
