SPECIFICATION Spec
CONSTANTS
  Requests <- MCFlashRequests
  CliLimit = 2
  SysI2C = FALSE
INVARIANT NobodyForgotten
PROPERTIES
  LateReplyDropped
  BootsIntactImage
