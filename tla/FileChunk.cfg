CONSTANTS
  Readers = {r1, r2}
  FileSize = 4
  MaxStart = 2
  MaxLength = 3
  BufSize = 2
SPECIFICATION FairSpec
CHECK_DEADLOCK FALSE
INVARIANTS
  TypeOK
  AccountedExactly
  AloneReadsRange
  HandlesClosed
PROPERTY
  EventuallyReturned
