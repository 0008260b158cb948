SPECIFICATION FairSpec
CONSTANTS
  Client = {c1, c2}
  NoFd = NoFd
  Hash = {h1}
  MAX_CLIENTS = 2
  MAX_FILES = 1
  MaySplit = FALSE
  MAX_SHARED_FILES = 1
  MaxShares = 2
CHECK_DEADLOCK FALSE
PROPERTIES
  CommandAnswered
  DepartedForgotten
