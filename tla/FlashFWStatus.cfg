SPECIFICATION FlashFWSpec
CONSTANTS
  Requests <- FlashRequests
  CliLimit = 1
  SysI2C = FALSE
  Packets = 1
  MaxTries = 2
  MaxCalls = 2
INVARIANT OkMeansStored
CHECK_DEADLOCK FALSE
