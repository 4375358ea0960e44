SPECIFICATION Spec
CONSTANTS
  MaxReports = 2
  MaxCutOff = 2
  MaxPosts = 2
  Private <- MCPrivate
  MaxShown = 2
  MaxFound = 1
  MaxScrapes = 2
  MaxAttempts = 3
INVARIANTS
  TypeOK FailuresArePaid BrowsersAreAccounted TextOfItsUrl OnlyTheseLoseAText OnlyTheLimitSkipsSources
PROPERTIES
  NothingAfterTheLimit
