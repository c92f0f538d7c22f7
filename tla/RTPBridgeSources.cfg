SPECIFICATION FairSpec
CONSTANTS
  v1 = v1
  v2 = v2
  w = w
  u1 = u1
  u2 = u2
  s1 = s1
  s2 = s2
  s3 = s3
  offer = offer
  None = None
  Tracks <- Sources
  SSRCs <- SourcesSSRCs
  KindOf <- SourcesKind
  SSRCOf <- SourcesSSRC
  UDPTracks <- SourcesUDP
  PLITracks = {w}
  Contents <- AnyContents
  SDPs = {offer}
  MaxRequests = 1
INVARIANTS
  StreamMatchesServer
  ParametersDieWithLastTrack
PROPERTIES
  ServedStreamGoesOn
  SilentSourceYields
  KeyframeRequested
CHECK_DEADLOCK FALSE
