SPECIFICATION Spec
CONSTANTS
  SeqSpace = 16
  NackBitmapSize = 2
  RestartGap = 5
  MaxDelay = 8
  MaxJump = 7
  MaxSent = 18
  MaxArrivals = 5
  Nil = Nil
INVARIANTS
  HolesAreAsked
PROPERTIES
  AsksOnlyForMissing
CHECK_DEADLOCK FALSE
