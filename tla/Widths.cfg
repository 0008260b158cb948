SPECIFICATION Spec
CHECK_DEADLOCK FALSE
CONSTANTS
  UINT16 = 256
  UINT32 = 1024
  CHUNK_SIZE = 16
  MaxSize = 1023
  ByteMax = 15
  MaxTotal = 1050
  MAX_FILES = 1024
  FILE_INFO = 297
  DATA_LEN = 65536
  TIMEOUT_MS = 3
  MAX_RETRIES = 3
  WORD = 64
  MaxTime = 14
  MaxAge = 14
  MaxSet = 3
INVARIANTS
  ChunksTile
  EveryByteSent
  FoldExact
  SingleByteSeen
  NeverTruncated
  TimeoutsPaced
  OnlyTimedOutSent
