SPECIFICATION FairSpec
CONSTANTS
  c1 = c1
  c2 = c2
  w1 = w1
  w2 = w2
  NULL = NULL
  Clients = {c1, c2}
  Workers = {w1, w2}
  MaxCalls = 2
  MaxSockets = 2
  MaxRuns = 2
PROPERTY StopReturns
CHECK_DEADLOCK FALSE
