SPECIFICATION Spec
CONSTANTS
  ana = ana
  gate = gate
  lobby = lobby
  card = card
  code = code
  NoPin = NoPin
  None = None
  User <- Users
  Station <- Stations
  Card <- Cards
  Pin <- NoPins
  MaxRevision = 3
  Unmanaged <- NoRecords
  Newcomers <- Users
  Resolutions <- AllResolutions
  MaxExternal = 0
  MaxFaults = 0
INVARIANT NoRetiredOwnCard
CHECK_DEADLOCK FALSE
