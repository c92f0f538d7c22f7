SPECIFICATION FairSpec
CONSTANTS
  Peers = {p1, p2}
  Initiated = {p1}
  Offering = {p2}
  Conns = {c1, c2}
  Workers = {w1, w2}
  OBSTracks = {o1}
  MaxViewers = 3
  MaxEvents = 3
  None = None
INVARIANTS
  TypeOK
  HandlersAccounted
PROPERTIES
  SuccessorIsKept
  LostIsForgotten
CHECK_DEADLOCK FALSE
