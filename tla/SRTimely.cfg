SPECIFICATION FairSpec
CHECK_DEADLOCK FALSE
CONSTANTS
  WINDOW_SIZE = 2
  MAX_RETRIES = 2
  NumChunks = 4
  MaxFaults = 2
  Timely = TRUE
  NoData = NoData
  Chunk <- MCChunk
  FileData <- MCFile
INVARIANTS
  AbortNeedsLosses
PROPERTIES
  ArrivesDespiteLoss
