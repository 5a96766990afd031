SPECIFICATION Spec
CONSTANTS
  ana = ana
  ben = ben
  gate = gate
  card = card
  NoPin = NoPin
  None = None
  User <- Users
  Station <- Stations
  Card <- Cards
  Pin <- Pins
  MaxRevision = 2
  Unmanaged <- BensRecord
  Newcomers <- OnlyAna
  Resolutions <- AllResolutions
  MaxExternal = 1
  MaxFaults = 0
CHECK_DEADLOCK FALSE
INVARIANTS
  UniqueOnDevice
  BindingAccounted
PROPERTY NoSilentOverwrite
