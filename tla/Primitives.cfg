SPECIFICATION MCSpec
CONSTANTS
  t1 = t1
  t2 = t2
  t3 = t3
  n1 = n1
  n2 = n2
  n3 = n3
  n4 = n4
  Threads = {t1, t2, t3}
  Resource = 1
  MaxTokens = 3
  PipeSize = 2
  Poppers = {t1, t3}
  Walkers = {t2}
  Nodes = {n1, n2, n3, n4}
  NULL = NULL
  Number = 2
INVARIANTS
  MutexSound
  NoPhantomGrant
  IInv
  NoStrandedSleeper
  ListSound
  EntriesAccounted
PROPERTIES
  NotifyReturns
  ImplementsCounting
  FdImplementsCounting
  ListImplementsDeque
SYMMETRY NodeSymmetry
