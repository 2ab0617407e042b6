CONSTANTS
  FdCount = 1
  InodeCount = 3
  Obj = {o1, o2}
  RootObj = root
  NoObj = nil
  FILE_BLOCK_SIZE = 2
  Word = 8
  IntLimit = 4
  Server = {1}
  MaxBlocks = 2
  NoPool = nopool
  Name = {a}
  Call = {c1}
  Requests <- CrossingRequests
  Regions <- TwoBlocks
  Exclusion = "calls"
  NoReq = noreq
  Socket = {k1}
  SocketOf <- OneSocket
  Blank = blank
  NoFile = nofile
  Torn = torn
  NoWrite = nowrite
SPECIFICATION SpongeSpec
CONSTRAINT ReliableOnly
PROPERTY ReadReturnsFile
CHECK_DEADLOCK FALSE
