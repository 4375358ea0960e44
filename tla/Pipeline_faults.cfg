SPECIFICATION Spec
CONSTANTS
  Workers = {w1, w2}
  Urls = {u1}
  Verdicts = {neg, pos}
  None = None
  NumSources = 2
  BatchSize = 1
  StaleLimit = 1
  MaxRetries = 1
  N8nConfigured = FALSE
  MaxTriggers = 1
  MaxManual = 1
  MaxRepeats = 1
  MaxFaults = 1
  MaxPending = 1
SYMMETRY Symmetry
INVARIANTS
  IdsAreStored CacheIsOfAnAnalysis AnalysesFromDistinctWorkers NoDoubleAnalysis
PROPERTIES
  OnlyTheseStepsOrphanPosts OnlyRivalsChangeALabel
