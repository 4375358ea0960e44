SPECIFICATION FairSpec
CONSTANTS
  Workers = {w1}
  Urls = {u1}
  Verdicts = {neg, pos}
  None = None
  NumSources = 1
  BatchSize = 1
  StaleLimit = 1
  MaxRetries = 1
  N8nConfigured = TRUE
  MaxTriggers = 1
  MaxManual = 0
  MaxRepeats = 0
  MaxFaults = 0
  MaxPending = 1
PROPERTIES
  ReportAfterCycle
