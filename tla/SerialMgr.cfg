SPECIFICATION SerialLive
CONSTANTS
  MaxMsgs = 4
  DeferMax = 2
  MaxLine = 2
INVARIANTS
  SerialTypeOK
  CutOnlyByTimeout
  NoneLostOrRepeated
  InOrder
  LineArrives
PROPERTIES
  DeferredIsHandledUnlessSkipped
