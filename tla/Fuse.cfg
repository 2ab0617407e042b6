CONSTANTS
  FdCount = 1
  InodeCount = 2
  Obj = {o1, o2, o3}
  RootObj = root
  NoObj = nil
  FILE_BLOCK_SIZE = 2
  Word = 4
  IntLimit = 4
  Server = {1}
  MaxBlocks = 1
  NoPool = nopool
  Name = {a, b}
  Call = {c1, c2}
  Requests <- FuseRequests
  Regions <- OneBlockRegions
  Exclusion = "names"
  NoReq = noreq
  Handle = {h1, h2}
  Closed = closed
  NoHandle = nohandle
SPECIFICATION FuseSpec
SYMMETRY MCSymmetry
INVARIANT DescriptorsOwned
CHECK_DEADLOCK FALSE
