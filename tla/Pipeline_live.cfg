SPECIFICATION FairSpec
CONSTANTS
  Workers = {w1, w2}
  Urls = {u1, u2}
  Verdicts = {neg}
  None = None
  NumSources = 1
  BatchSize = 2
  StaleLimit = 1
  MaxRetries = 1
  N8nConfigured = TRUE
  MaxTriggers = 1
  MaxManual = 0
  MaxRepeats = 0
  MaxFaults = 1
  MaxPending = 1
PROPERTIES
  AnalysedEventuallyCached
  StoredEventuallyAnalysed
