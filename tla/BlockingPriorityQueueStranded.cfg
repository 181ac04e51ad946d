SPECIFICATION FairSpec
CONSTANTS
  t1 = t1
  t2 = t2
  t3 = t3
  Threads = {t1, t2, t3}
  Priorities = {1}
  Ops = {"push", "pop", "top"}
  MaxLen = 2
PROPERTIES
  PopServed
