SPECIFICATION LiveSpec
CONSTANTS
  Requests <- MCAllRequests
  CliLimit = 1
  SysI2C = TRUE
INVARIANT TypeOK
PROPERTY RequestEnds
