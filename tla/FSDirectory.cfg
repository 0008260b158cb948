SPECIFICATION Spec
CHECK_DEADLOCK FALSE
CONSTANTS
  Client = {c1, c2, c3}
  NoFd = NoFd
  Hash = {h1}
  MAX_CLIENTS = 2
  MAX_FILES = 2
  MaySplit = TRUE
  MAX_SHARED_FILES = 2
  MaxShares = 2
SYMMETRY MCSymmetry
INVARIANTS
  TypeOK
  TablesConsistent
  RegisteredKeepsSlot
  ListedIsServed
  FileIdsNeverReused
  LocationLeadsToOwner
  RepliesInStep
PROPERTY KeepsDirectory
