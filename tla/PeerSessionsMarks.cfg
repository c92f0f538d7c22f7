SPECIFICATION Spec
CONSTANTS
  Peers = {p1}
  Initiated = {p1}
  Offering = {p1}
  Conns = {c1, c2}
  Workers = {w1, w2}
  OBSTracks = {o1}
  MaxViewers = 3
  MaxEvents = 3
  None = None
INVARIANTS
  StreamIsOffered
CHECK_DEADLOCK FALSE
