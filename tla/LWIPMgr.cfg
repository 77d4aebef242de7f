SPECIFICATION LWIPLive
CONSTANTS
  c1 = c1
  c2 = c2
  MaxLogs = 3
  MaxConns = 2
  MaxFails = 2
  MaxAsks = 2
  DeferMax = 2
  Peers <- MCPeers
INVARIANTS
  LWIPTypeOK
  NoneLostOrRepeated
  AnswerGoesToAsker
PROPERTIES
  SendingEnds
CHECK_DEADLOCK FALSE
