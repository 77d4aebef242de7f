SPECIFICATION Live
CONSTANTS
  MaxAddr = 5
  PageSize = 2
  LeftAddrs = {0}
  MaxFaults = 1
  Requests <- MCRequests
  MaxReqs = 3
  DeferMax = 1
  TaskRead <- MCTaskRead
  MaxEth = 1
INVARIANTS
  TypeOK
  OneAnswerPending
  OkIsReal
  NoStrayWrite
  RepliesInOrder
CHECK_DEADLOCK FALSE
PROPERTIES
  EveryRequestAnswered
  TaskIsResumed
