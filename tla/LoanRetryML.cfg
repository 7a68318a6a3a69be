SPECIFICATION Spec
CONSTANTS
  None = None
  Apps = {a1}
  Workers = {w1, w2}
  Sources = {"CREDIT_BUREAU", "BANK_ANALYZER"}
  Outcomes = {"DATA", "TIMEOUT"}
  Verdict <- MCVerdict
  MLRequested = TRUE
  NumericEvidence <- MCNumericEvidence
  Faults = {"worker_lost"}
  MaxFaults = 1
CHECK_DEADLOCK FALSE
INVARIANT CrashTransparent
