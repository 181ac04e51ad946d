SPECIFICATION MCSpec
CONSTANTS
  kSmallBufferSize = 2
  Ints <- MCInts
  Blobs <- MCBlobs
  MaxCalls = 3
  FileSystems <- MCFileSystems
  OptionSets <- MCOptionSets
  MAX_CRAWL_DEPTH = 2
  MaxPages = 2
  RLimit = 2
  Texts <- MCTexts
  Jobs <- MCJobs
  MaxItems = 5
  Plans <- MCPlans
  YYINITDEPTH = 2
  YYMAXDEPTH = 9
INVARIANTS
  BufferIntact
  
  LockedWhenToldSo
  ScannerExact
  ParserExact
  LinesExact
  AStyleExact
  CommonExact
  LeetExact
CHECK_DEADLOCK FALSE
