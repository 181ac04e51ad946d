SPECIFICATION FairSpec
CONSTANTS
  Contexts = {1, 2}
  None = None
  CpuThreads = 2
  PollThreads = 1
  Apps <- MCApps
INVARIANTS
  RefExact
  NeverConcurrentWithItself
  NoStrandedNet
  PushFindsQueue
PROPERTIES
  QueuedServed
  StopReturns
