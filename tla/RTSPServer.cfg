SPECIFICATION FairSpec
CONSTANTS
  OpusFrame = 3
  AACFrame = 4
  TSSpace = 16
  ErrorCodes = {1}
  MaxTaken = 2
  Sessions = {s1, s2}
  MaxPlays = 2
  MaxSwitches = 1
  MaxHeard = 9
  DecodeSizes = {0, 3}
  StartTS = {14}
INVARIANTS
  TypeOK
  OneLateDummy
  ConverterAlive
  ClientsCounted
  SamplesFit
  AudioClock
PROPERTIES
  StopCompletes
CHECK_DEADLOCK FALSE
