CONSTANTS
  FdCount = 1
  InodeCount = 2
  Obj = {o1, o2}
  RootObj = root
  NoObj = nil
  FILE_BLOCK_SIZE = 2
  Word = 3
  IntLimit = 3
  Server = {1}
  MaxBlocks = 1
  NoPool = nopool
  Name = {a}
  Call = {c1, c2}
  Requests <- RaceRequests
  Regions <- OneBlockRegions
  Exclusion = "none"
  NoReq = noreq
SPECIFICATION FairSpec
CONSTRAINT CopiesBounded
INVARIANTS TypeOK SizeCovered WriteStaysInList
PROPERTY CallsReturn
CHECK_DEADLOCK FALSE
