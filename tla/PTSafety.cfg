SPECIFICATION Spec
CHECK_DEADLOCK FALSE
CONSTANTS
  Ann = Ann
  Bob = Bob
  Cy = Cy
  Doc = Doc
  Pic = Pic
  Nil = Nil
  PartA = PartA
  PartB = PartB
  Peer = {Ann, Bob, Cy}
  Path = {Doc}
  Chunk = {PartA, PartB}
  NoData = NoData
  NoFile = NoFile
  None = None
  Table <- SameNameTable
  Disk0 <- SameNameDisk
  NewContent <- MCContent
  Getter = {Ann, Cy}
  Quitter = {}
  Editor = {Bob, Cy}
  Writable = {Doc}
  WINDOW_SIZE = 2
  MAX_RETRIES = 1
  MaxGets = 2
  MaxFaults = 1
  Timely = FALSE
INVARIANTS TypeOK SenderSound
PROPERTY SavedAsShared
