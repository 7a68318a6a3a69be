SPECIFICATION Spec
CONSTANTS
  None = None
  Apps = {a1}
  Workers = {w1, w2}
  Sources = {"CREDIT_BUREAU", "BANK_ANALYZER"}
  Outcomes = {"DATA", "TIMEOUT"}
  Verdict <- MCVerdict
  MLRequested = FALSE
  NumericEvidence <- MCNumericEvidence
  Faults = {"duplicate", "exception"}
  MaxFaults = 2
CHECK_DEADLOCK FALSE
PROPERTY DecisionIsFinal
