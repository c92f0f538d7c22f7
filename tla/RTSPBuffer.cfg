SPECIFICATION Spec
CONSTANTS
  SeqSpace = 5
  TSSpace = 16
  MaxTimestampDelta = 3
  MaxBufferSize = 2
  MaxFlushBatch = 2
  ChanCap = 2
  StaleAge = 1
  MaxPackets = 4
  Inputs <- MCInputs
  Nil = Nil
INVARIANTS
  TypeOK
  OrderIndexesBuffer
  AtMostOnce
  SteadyClock
  InOrderOrStale
PROPERTIES
  LossIsAccounted
  FlushComesDown
  ImplementsResequencer
