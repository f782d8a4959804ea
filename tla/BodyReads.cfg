CONSTANTS
  Threads = {t1, t2, t3}
  MaxEntity = 5
  ChunkSize = 2
  CapSetting = 3
  DefaultCap = 4
  DWordSize = 5
SPECIFICATION FairSpec
INVARIANTS
  TypeOK
  SingleReader
  BodyIsPrefix
  AnsweredOnce
  TransactionLive
  BufferBounded
  ForwardedIntact
  ForwardedInspected
PROPERTIES
  EventuallyAnswered
  ImplementsBodyPhase
