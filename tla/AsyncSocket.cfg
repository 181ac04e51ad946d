SPECIFICATION FairSpec
CONSTANTS
  a = a
  z = z
  NULL = NULL
  Ids = {a, z}
  Size <- MCSize
  HeaderLen = 2
  Cpu <- OneCpu
  Capacity = 3
  Timeouts = {"zero", "some"}
  MaxSends <- MCSends
  MaxConnects = 2
INVARIANTS
  DeliveredExact
  MsgPresent
PROPERTIES
  TimedCallReturns
  PeerCloseNoticed
  ExchangeCompletes
CHECK_DEADLOCK FALSE
