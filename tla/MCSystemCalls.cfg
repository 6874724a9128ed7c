SPECIFICATION FairSpec
CONSTANTS
  MaxCalls = 2
  Faults = TRUE
INVARIANTS
  TypeOK
  ResultTellsStatus
  CommandWritesWhereTold
  NoChildLeft
PROPERTIES
  CallReturns
CHECK_DEADLOCK FALSE
