SPECIFICATION FairSpec
CONSTANTS
  None = None
  Apps = {a1}
  Workers = {w1, w2}
  Sources = {"CREDIT_BUREAU", "BANK_ANALYZER"}
  Outcomes = {"DATA", "TIMEOUT"}
  Verdict <- MCVerdict
  MLRequested = FALSE
  NumericEvidence <- MCNumericEvidence
  Faults = {"duplicate", "worker_lost", "stall", "timeout", "exception", "commit_lost"}
  MaxFaults = 4
CHECK_DEADLOCK FALSE
INVARIANT NotOrphaned
PROPERTY EventuallyDecided
