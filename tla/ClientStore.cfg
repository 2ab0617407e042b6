CONSTANTS
  FdCount = 1
  InodeCount = 3
  Obj = {o1, o2}
  RootObj = root
  NoObj = nil
  FILE_BLOCK_SIZE = 2
  Word = 8
  IntLimit = 4
  Server = {1}
  MaxBlocks = 2
  NoPool = nopool
  Name = {a, b}
  Call = {c1, c2}
  Requests <- BlockRequests
  Regions <- TwoBlocks
  Exclusion = "files"
  NoReq = noreq
  Socket = {c1, c2}
  SocketOf <- OwnSocket
  Blank = blank
  NoFile = nofile
  Torn = torn
  NoWrite = nowrite
SPECIFICATION SpongeSpec
CONSTRAINT ReliableOnly
SYMMETRY MCSymmetry
PROPERTIES StoreSpec ReadReturnsFile
CHECK_DEADLOCK FALSE
