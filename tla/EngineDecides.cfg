SPECIFICATION Spec
CONSTANTS
  None = None
  Applicants <- MCApplicants
  Buckets = {0, 4}
  BucketCount = 5
  Routings = {None, 2}
  ConfidenceThreshold = 60
  Snapshot <- MCSnapshot
  Significant <- MCSignificant
  DefaultProbability <- MCDefaultProbability
CHECK_DEADLOCK FALSE
INVARIANTS TypeOK OutagesAreReviewed FallbackOnlyAtTheExtremes OutageNeverHelps BetterCreditNeverHurts ApprovalNeedsCompliance ExplanationNamesFailures
