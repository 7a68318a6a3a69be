SPECIFICATION FairSpec
CONSTANTS
  None = None
  Requests = {r1, r2}
  Keys = {k1, k2}
  Payloads = {p1, p2}
  Pollers = {w1, w2}
  Limit = 2
  MaxSendFailures = 1
  MaxCrashes = 1
  MaxDbErrors = 1
CHECK_DEADLOCK FALSE
INVARIANTS TypeOK OneApplicationPerKey AnswersAreTrue ConflictsAreReal SentOnce NothingLost
PROPERTY EventuallySent
