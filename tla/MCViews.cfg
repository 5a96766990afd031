CONSTANTS
  wide = wide
  narrow = narrow
  Question <- Choices
  None = None
  MaxOutside = 7
SPECIFICATION FairSpec
INVARIANTS
  TypeOK
  SettledAnswersQuestion
PROPERTIES
  Refines
  NoBlindWrite
  Converges
CHECK_DEADLOCK FALSE
