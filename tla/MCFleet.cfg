SPECIFICATION Spec
CONSTANTS
  ana = ana
  gate = gate
  lobby = lobby
  card = card
  code = code
  NoPin = NoPin
  None = None
  User <- Users
  Station <- Stations
  Card <- NoCards
  Pin <- Pins
  MaxRevision = 3
  Unmanaged <- NoRecords
  Newcomers <- Users
  Resolutions <- AllResolutions
  MaxExternal = 0
  MaxFaults = 0
INVARIANTS
  NoForgottenCredential
  BindingAccounted
  SyncedIsTrue
  RetiredLoads
SYMMETRY Symmetry
CHECK_DEADLOCK FALSE
