CONSTANTS
  Sub <- Subs
  None = None
  MaxOutside = 4
SPECIFICATION FairSpec
INVARIANTS
  TypeOK
  SealedUntilProof
  SubscriptionsKnown
PROPERTIES
  ShowsLatest
CHECK_DEADLOCK FALSE
