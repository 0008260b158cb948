SPECIFICATION FairSpec
CONSTANTS
  WINDOW_SIZE = 2
  MAX_RETRIES = 2
  NumChunks = 3
  MaxFaults = 1
  Timely = TRUE
  NoData = NoData
  Chunk <- MCChunk
  FileData <- MCFile
CHECK_DEADLOCK FALSE
INVARIANTS
  FailureNeedsLosses
