SPECIFICATION FairSpec
CONSTANTS
  Descs = {0, 1, 2, 3, 4}
  End = End
  Requests <- SmallRequests
  QueueNum = 5
  SectorSize = 2
  ImageLen = 4
  OffMod = 16
  LenMod = 16
  Lens = {0, 1, 2}
  Sectors = {0, 1, 2, 7, 8}
  BufSizes = {0, 2}
INVARIANTS
  DataInPlace
  StatusTruthful
  TransferInBounds
  UsedLenExact
PROPERTIES
  Terminates
CHECK_DEADLOCK FALSE
