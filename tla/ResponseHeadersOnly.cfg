CONSTANTS
  Cap = 3
  MaxLen = 2
  MaxChunks = 1
  MaxSends = 2
SPECIFICATION Spec
CHECK_DEADLOCK FALSE
INVARIANT
  ModeAEvaluatesFullBody
