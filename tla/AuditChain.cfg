SPECIFICATION ChainSpec
CONSTANTS
  Process = {p1, p2}
  RunId = {r1}
  Data = {d1, d2}
  MaxRows = 3
  MaxLegacy = 1
  MaxEdits = 2
INVARIANTS WrittenVerifies VerifiedIsWritten
