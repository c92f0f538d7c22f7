SPECIFICATION FairSpec
CONSTANTS
  Clients = {a, b}
  Talkers = {a, b}
  Room = Room
  Server = Server
  ChanCap = 1
  MaxMessages = 4
INVARIANTS
  SilentLossBounded
PROPERTIES
  ImplementsMailbox
  AcceptedIsHandled
CHECK_DEADLOCK FALSE
