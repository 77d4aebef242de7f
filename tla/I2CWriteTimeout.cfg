SPECIFICATION Spec
CONSTANTS
  MaxAddr = 5
  PageSize = 2
  LeftAddrs = {0}
  MaxFaults = 1
  Requests <- MCRequests
  MaxReqs = 1
  DeferMax = 1
  TaskRead <- MCTaskRead
  MaxEth = 1
INVARIANTS
  WriteTimeoutReported
CHECK_DEADLOCK FALSE
