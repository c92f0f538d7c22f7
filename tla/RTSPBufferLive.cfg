SPECIFICATION FairSpec
CONSTANTS
  SeqSpace = 4
  TSSpace = 8
  MaxTimestampDelta = 3
  MaxBufferSize = 3
  MaxFlushBatch = 2
  ChanCap = 2
  StaleAge = 0
  MaxPackets = 3
  Inputs <- MCBurst
  Nil = Nil
PROPERTIES
  EventuallyLeaves
  ShutdownCompletes
