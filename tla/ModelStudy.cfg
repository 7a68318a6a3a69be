SPECIFICATION Spec
CONSTANTS
  None = None
  Bad = Bad
  Raised = Raised
  Bins = 10
  Thresholds = {30, 50, 70}
  MinSegment = 2
  MinGroup = 2
  MaxGroups = 2
  MaxSearchTrain = 2
  MaxSearchValidation = 2
  Studies <- MCStudies
  GroupRank <- MCGroupRank
  ConfidenceThreshold = 60
  Amounts = {10, 25}
  MinSampleSize = 2
  MaxOutcomes = 5
INVARIANTS BuildersAgree NoLeakage SelectionsAgree ReportsAgree BenchmarkIsDeployed PromotionPays
CHECK_DEADLOCK FALSE
