SPECIFICATION Spec
CONSTANTS
  a = a
  z = z
  NULL = NULL
  Ids = {a, z}
  Size <- MCSize
  HeaderLen = 2
  Cpu <- OneCpu
  Capacity = 3
  Timeouts = {"none", "zero", "some"}
  MaxSends <- MCSends
  MaxConnects = 2
INVARIANT BodyComplete
CHECK_DEADLOCK FALSE
