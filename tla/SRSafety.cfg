SPECIFICATION Spec
CHECK_DEADLOCK FALSE
CONSTANTS
  WINDOW_SIZE = 2
  MAX_RETRIES = 1
  NumChunks = 4
  MaxFaults = 2
  Timely = FALSE
  NoData = NoData
  Chunk <- MCChunk
  FileData <- MCFile
INVARIANTS
  TypeOK
  Inv
  DeliveredIntact
  AckedIsHeld
  DoneMeansDelivered
  WindowsOverlap
  SlotFree
  CountersExact
  LoopsAgree
PROPERTIES
  NoRegress
  OnlyUnackedSent
  KeepsPromise
