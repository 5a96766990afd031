CONSTANTS
  first = first
  second = second
  Worker <- Workers
  NoTask = NoTask
  MaxVersion = 3
  MaxFaults = 3
SPECIFICATION FairSpec
INVARIANTS
  TypeOK
  Scheduled
  SingleWorker
  DetachedQuiet
  FinalInventory
PROPERTY EditsServed
