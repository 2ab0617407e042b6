CONSTANTS
  FdCount = 1
  InodeCount = 3
  Obj = {o1, o2, o3}
  RootObj = root
  NoObj = nil
  FILE_BLOCK_SIZE = 2
  Word = 8
  IntLimit = 4
  Server = {1,2}
  MaxBlocks = 2
  NoPool = nopool
  Name = {a, b}
  Call = {c1, c2}
  Requests <- FileRequests
  Regions <- MCRegions
  Exclusion = "names"
  NoReq = noreq
SPECIFICATION Spec
CONSTRAINT ReliableOnly
SYMMETRY MCSymmetry
INVARIANTS NoSharedBlock BlocksConserved NoInodeLeak DentriesResolve
  TransfersOwnTheirBlocks
CHECK_DEADLOCK FALSE
