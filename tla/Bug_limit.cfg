SPECIFICATION Spec
CONSTANTS
  MaxAttempts = 3
  MaxConf = 1
  BatchSize = 2
CHECK_DEADLOCK FALSE
PROPERTIES
  SoftLimitEndsBatch
