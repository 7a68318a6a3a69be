SPECIFICATION FairSpec
CONSTANTS
  Callers = {c1, c2}
  Threshold = 2
  MaxRetries = 1
  MaxDowns = 4
  MaxAborts = 1
CHECK_DEADLOCK FALSE
INVARIANTS TypeOK OpensOnlyOnOutage OpenIsDated
PROPERTY HalfOpenIsSettled
