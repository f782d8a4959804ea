CONSTANTS
  Threads = {t1}
  Files = {f1}
  MaxEdits = 1
  MaxLoads = 2
SPECIFICATION Spec
INVARIANT
  MtimeInvalidates
