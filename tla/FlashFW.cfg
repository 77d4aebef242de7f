SPECIFICATION FlashFWSpec
CONSTANTS
  Requests <- FlashRequests
  CliLimit = 1
  SysI2C = FALSE
  Packets = 2
  MaxTries = 4
  MaxCalls = 2
INVARIANTS
  RepliesAreOwn
  SuccessIsStored
CHECK_DEADLOCK FALSE
