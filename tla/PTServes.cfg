SPECIFICATION FairSpec
CHECK_DEADLOCK FALSE
CONSTANTS
  Ann = Ann
  Bob = Bob
  Cy = Cy
  Doc = Doc
  Pic = Pic
  Nil = Nil
  PartA = PartA
  PartB = PartB
  Peer = {Ann, Bob}
  Path = {Doc, Pic, Nil}
  Chunk = {PartA, PartB}
  NoData = NoData
  NoFile = NoFile
  None = None
  Table <- OneOwnerTable
  Disk0 <- OneOwnerDisk
  NewContent <- MCContent
  Getter = {Ann, Bob}
  Quitter = {Ann}
  Editor = {}
  Writable = {Doc, Nil}
  WINDOW_SIZE = 2
  MAX_RETRIES = 1
  MaxGets = 2
  MaxFaults = 1
  Timely = TRUE
INVARIANT AckedByPeer
PROPERTIES GetSaves OwnerFreed
