SPECIFICATION Spec
CONSTANTS
  None = None
  Apps = {a1}
  Workers = {w1, w2}
  Sources = {"CREDIT_BUREAU", "BANK_ANALYZER"}
  Outcomes = {"DATA", "TIMEOUT"}
  Verdict <- MCVerdict
  MLRequested = TRUE
  NumericEvidence <- MCNumericEvidence
  Faults = {"duplicate", "worker_lost", "child_lost", "early_redelivery", "stall", "timeout", "exception", "commit_lost", "mark_error"}
  MaxFaults = 5
CHECK_DEADLOCK FALSE
SYMMETRY WorkerSymmetry
INVARIANTS TypeOK OneDecision DecisionFollowsEvidence AuditExplainsRow ConfidenceIsAudited
PROPERTY ImplementsLifecycle
