SPECIFICATION FairSpec
CHECK_DEADLOCK FALSE
CONSTANTS
  FileId = {1, 17}
  UINT32 = 16
  MaxLines = 3
PROPERTY EveryLineHandled
