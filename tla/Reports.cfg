SPECIFICATION Spec
CONSTANTS
  Verdicts = {alert, calm}
  AlertVerdicts = {alert}
  Topics = {t1, t2}
  None = None
  AlertLimit = 1
  MaxPosts = 2
  MaxAnalyses = 3
INVARIANTS
  TypeOK LaterPartsCoverEarlier SharesAddUp SummaryIsClassified
