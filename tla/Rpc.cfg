SPECIFICATION FairSpec
CONSTANTS
  c1 = c1
  c2 = c2
  w1 = w1
  w2 = w2
  NULL = NULL
  Clients = {c1, c2}
  Workers = {w1, w2}
  MaxCalls = 2
  MaxSockets = 2
  MaxRuns = 2
INVARIANTS
  ReplyMatches
  NothingLost
PROPERTIES
  CallServed
  QuietStopReturns
CHECK_DEADLOCK FALSE
