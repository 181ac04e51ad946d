SPECIFICATION FairSpec
CONSTANTS
  t1 = t1
  t2 = t2
  t3 = t3
  a = a
  b = b
  Threads = {t1, t2, t3}
  Items = {a, b}
  Capacity = 2
INVARIANTS
  IInv
  NoMutualBlock
PROPERTIES
  CallsServed
  TimedCallReturns
