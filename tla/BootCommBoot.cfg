SPECIFICATION Spec
CONSTANTS
  Requests <- MCBootRequests
  CliLimit = 3
  SysI2C = FALSE
PROPERTY BootIntact
