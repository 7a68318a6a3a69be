SPECIFICATION FairSpec
CONSTANTS
  None = None
  Apps = {a1}
  Workers = {w1, w2}
  Sources = {"CREDIT_BUREAU", "BANK_ANALYZER"}
  Outcomes = {"DATA", "TIMEOUT"}
  Verdict <- MCVerdict
  MLRequested = FALSE
  NumericEvidence <- MCNumericEvidence
  Faults = {"child_lost"}
  MaxFaults = 1
CHECK_DEADLOCK FALSE
PROPERTY EventuallyDecided
