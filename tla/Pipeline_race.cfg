SPECIFICATION Spec
CONSTANTS
  Workers = {w1, w2}
  Urls = {u1, u2}
  Verdicts = {neg, pos}
  None = None
  NumSources = 1
  BatchSize = 2
  StaleLimit = 2
  MaxRetries = 1
  N8nConfigured = TRUE
  MaxTriggers = 2
  MaxManual = 0
  MaxRepeats = 0
  MaxFaults = 0
  MaxPending = 1
SYMMETRY Symmetry
INVARIANTS
  TypeOK CopiesFromDistinctWorkers StaleOnlyByFault
PROPERTIES
  LifecycleSpec
