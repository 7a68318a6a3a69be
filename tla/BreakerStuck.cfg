SPECIFICATION FairSpec
CONSTANTS
  Callers = {c1, c2}
  Threshold = 2
  MaxRetries = 1
  MaxDowns = 2
  MaxAborts = 0
CHECK_DEADLOCK FALSE
PROPERTY OpenExpires
