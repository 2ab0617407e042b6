CONSTANTS
  FdCount = 1
  InodeCount = 2
  Obj = {o1, o2, o3, o4}
  RootObj = root
  NoObj = nil
  FILE_BLOCK_SIZE = 2
  Word = 4
  IntLimit = 4
  Server = {1}
  MaxBlocks = 1
  NoPool = nopool
  Name = {a, b}
  Call = {c1, c2}
  Requests <- NameRequests
  Regions <- OneBlockRegions
  Exclusion = "calls"
  NoReq = noreq
SPECIFICATION Spec
SYMMETRY MCSymmetry
INVARIANT InodeAssertion
CHECK_DEADLOCK FALSE
