SPECIFICATION Spec
CONSTANTS
  Contexts = {1}
  None = None
  CpuThreads = 1
  PollThreads = 1
  Apps <- MCAppStopsNet
INVARIANTS
  NoFatal
