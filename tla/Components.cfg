CONSTANTS
  FdCount = 3
  InodeCount = 3
  Obj = {o1, o2, o3}
  RootObj = root
  NoObj = nil
  FILE_BLOCK_SIZE = 4
  Word = 64
  Server = {1}
  MaxBlocks = 3
  NoPool = none
  Addresses = {0, 5}
  Lengths = {0, 2, 7, 12}
  MaxOffset = 13
  MaxLength = 14
  CqNums = {2, 3}
  QP_NUMBER = 3
  PeerNodes = {1, 2, 3}
  Callers = {c1, c2}
  Requests <- MixedRequests
  Cells = 4
  Page = 2
  SendPoolSize = 2
  Threshold = 4
  WORKER_NUMBER = 2
  SignalWrap = 4
  OffsetWrap = 4
  MaxCalls = 2
  MaxFaults = 1
  Peers = {p1, p2}
  SignalPeriod = 3
  MAX_POST_LIST = 2
  QPS_MAX_DEPTH = 9
  MaxPosts = 10
  MaxLost = 1
  Idle = idle
SPECIFICATION PartsSpec
INVARIANTS
  ComponentTypes
  FdAccounting InodeAccounting NeverPopsEmptyHeap
  SpaceAccounting SpaceTestSuffices BlocksInsideRegion
  PlanIsExact PlanStaysInFile
  PeersUsable ClientReleases
  CompletionBalance TasksPinned QueueHandoff SmallTransferMoved
  ListFits
PROPERTIES FdPoolSpec InodePoolNext TransfersReturn BatchesReturn
CHECK_DEADLOCK FALSE
