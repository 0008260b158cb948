SPECIFICATION FairSpec
CHECK_DEADLOCK FALSE
CONSTANTS
  Ann = Ann
  Bob = Bob
  Cy = Cy
  Doc = Doc
  Pic = Pic
  Nil = Nil
  PartA = PartA
  PartB = PartB
  Peer = {Ann, Bob, Cy}
  Path = {Doc, Pic, Nil}
  Chunk = {PartA, PartB}
  NoData = NoData
  NoFile = NoFile
  None = None
  Table <- OneOwnerTable
  Disk0 <- OneOwnerDisk
  NewContent <- MCContent
  Getter = {Ann, Cy}
  Quitter = {}
  Editor = {}
  Writable = {Doc, Pic, Nil}
  WINDOW_SIZE = 1
  MAX_RETRIES = 1
  MaxGets = 2
  MaxFaults = 0
  Timely = TRUE
PROPERTY GetEnds
