SPECIFICATION Spec
CONSTANTS
  ana = ana
  ben = ben
  gate = gate
  card = card
  NoPin = NoPin
  None = None
  User <- Users
  Station <- Stations
  Card <- Cards
  Pin <- Pins
  MaxRevision = 2
  Unmanaged <- NoRecords
  Newcomers <- Users
  Resolutions <- AllResolutions
  MaxExternal = 0
  MaxFaults = 1
INVARIANTS
  TypeOK
  NoForgottenCredential
  ExclusiveCredential
  OwnedOnDevice
  SyncedIsTrue
PROPERTIES
  JournaledWrites
  CredentialsInCustody
SYMMETRY Symmetry
CHECK_DEADLOCK FALSE
