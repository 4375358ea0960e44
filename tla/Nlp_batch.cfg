SPECIFICATION FairSpec
CONSTANTS
  MaxAttempts = 3
  MaxConf = 2
  BatchSize = 2
CHECK_DEADLOCK FALSE
INVARIANTS
  TypeOK DefaultsAddNoConfidence CombinedIsWhole OutageStoresNothing RequestsBounded EveryPostCounted
PROPERTIES
  BatchEnds
