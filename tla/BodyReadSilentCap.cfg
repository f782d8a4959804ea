CONSTANTS
  Threads = {t1}
  MaxEntity = 5
  ChunkSize = 2
  CapSetting = 0
  DefaultCap = 3
  DWordSize = 16
SPECIFICATION Spec
INVARIANT
  CapNotSilent
