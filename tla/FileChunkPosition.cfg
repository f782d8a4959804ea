CONSTANTS
  Readers = {r1, r2}
  FileSize = 4
  MaxStart = 2
  MaxLength = 3
  BufSize = 2
SPECIFICATION Spec
CHECK_DEADLOCK FALSE
INVARIANT
  OwnPosition
