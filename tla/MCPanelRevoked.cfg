CONSTANTS
  Sub <- Subs
  None = None
  MaxOutside = 4
SPECIFICATION FairSpec
PROPERTIES
  RevokedCleared
CHECK_DEADLOCK FALSE
