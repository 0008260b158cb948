SPECIFICATION CorruptSpec
CHECK_DEADLOCK FALSE
CONSTANTS
  WINDOW_SIZE = 2
  MAX_RETRIES = 1
  NumChunks = 3
  MaxFaults = 1
  Timely = FALSE
  NoData = NoData
  Chunk <- MCChunk
  FileData <- MCFile
INVARIANTS
  DamageContained
PROPERTY OnlyDamageMisleads
