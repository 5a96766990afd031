CONSTANTS
  None = None
  Early = Early
  Late = Late
  Token = {Early, Late}
  Calendar <- FallBack
  MaxClock = 4
  MaxOutside = 6
SPECIFICATION FairSpec
INVARIANTS
  TypeOK
  OpenIsOwned
PROPERTIES
  NoBlindRepeat
  Settles
CHECK_DEADLOCK FALSE
