SPECIFICATION Spec
CONSTANTS
  v1 = v1
  v2 = v2
  w = w
  u1 = u1
  u2 = u2
  s1 = s1
  s2 = s2
  s3 = s3
  offer = offer
  None = None
  Tracks <- SameTracks
  SSRCs <- SameSSRCs
  KindOf <- SameKind
  SSRCOf <- SameSSRC
  UDPTracks = {}
  PLITracks = {v1, v2}
  Contents <- NoContents
  SDPs = {}
  MaxRequests = 1
INVARIANTS
  TypeOK
  SlotsConsistent
  KeyframeHandlers
PROPERTIES
  ImplementsSlots
CHECK_DEADLOCK FALSE
