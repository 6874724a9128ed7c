SPECIFICATION FairSpec
CONSTANTS
  Threads = {t1, t2, t3}
  Caller = Caller
  Nobody = Nobody
  Faults = TRUE
INVARIANTS
  MutualExclusion
  BlockHasOneOwner
  FlagTellsTheTruth
PROPERTIES
  StartDoesNotBlock
  EveryThreadEnds
CHECK_DEADLOCK FALSE
