SPECIFICATION FairSpec
CONSTANTS
  None = None
  Requests = {r1}
  Keys = {k1}
  Payloads = {p1}
  Pollers = {w1}
  Limit = 1
  MaxSendFailures = 0
  MaxCrashes = 0
  MaxDbErrors = 1
CHECK_DEADLOCK FALSE
PROPERTY EventuallySent
