SPECIFICATION FairSpec
CONSTANTS
  Readers = {udp, track}
  Reusing = {udp}
  Relays = {viewer}
  PktCap = 2
  RtpCap = 1
  BufferSize = 1
  Cells = {c1, c2, c3}
  MaxPackets = 2
INVARIANTS
  CopiesIntact
PROPERTIES
  RelayNeverGoesBack
  ReaderGoesOn
CHECK_DEADLOCK FALSE
