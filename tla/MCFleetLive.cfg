SPECIFICATION LiveSpec
CONSTANTS
  ana = ana
  gate = gate
  lobby = lobby
  card = card
  code = code
  NoPin = NoPin
  None = None
  User <- Users
  Station <- Stations
  Card <- Cards
  Pin <- NoPins
  MaxRevision = 3
  Unmanaged <- NoRecords
  Newcomers <- Users
  Resolutions <- SafeResolutions
  MaxExternal = 0
  MaxFaults = 2
PROPERTIES
  DeletionCompletes
  RemovalCompletes
CHECK_DEADLOCK FALSE
