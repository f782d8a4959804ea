CONSTANTS
  Cap = 3
  MaxLen = 2
  MaxChunks = 2
  MaxSends = 2
SPECIFICATION Spec
CHECK_DEADLOCK FALSE
INVARIANTS
  TypeOK
  PhasesOnce
  NeverBlocksLate
  EvaluationCoversBody
  ModeAHoldsBytes
  FailedStartStops
  PinnedLengthExact
