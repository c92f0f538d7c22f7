SPECIFICATION Spec
CONSTANTS
  Initiator = a
  Other = b
  Clients = {a, b}
  Room = Room
  None = None
  MaxConns = 4
  MaxCandidates = 0
  MaxOffers = 0
  MaxRefusals = 0
  MaxFailures = 2
INVARIANTS
  NothingHalfOpen
CHECK_DEADLOCK FALSE
