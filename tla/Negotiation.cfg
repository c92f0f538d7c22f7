SPECIFICATION Spec
CONSTANTS
  Initiator = a
  Other = b
  Clients = {a, b}
  Room = Room
  None = None
  MaxConns = 3
  MaxCandidates = 1
  MaxOffers = 1
  MaxRefusals = 1
  MaxFailures = 1
INVARIANTS
  CandidatesOnce
CHECK_DEADLOCK FALSE
