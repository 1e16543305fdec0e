SPECIFICATION Spec
CHECK_DEADLOCK FALSE
CONSTANTS
  Codes <- GateCodes
  Look <- GateLook
  Digits <- GateDigits
  Passes <- GatePasses
  Slots = {1, 2}
  MaxStarts = 2
  MaxOthers = 2
INVARIANTS VerdictIsTrue CardIsRecorded
PROPERTIES ExitIsTrue
