CONSTANTS
  gate = gate
  lobby = lobby
  Station <- Stations
  Value <- Values
  Plans <- Changes
  Initial = "old"
  MaxJobs = 2
  Capacity = 1
  RowBudget = 1
  MaxOutside = 3
SPECIFICATION FairSpec
INVARIANTS
  TypeOK
  OutcomeOnRecord
  WithdrawnNeverSent
PROPERTIES
  NeverRepeated
  Settles
CHECK_DEADLOCK FALSE
