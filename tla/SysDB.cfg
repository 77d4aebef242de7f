SPECIFICATION SysDBLive
CONSTANTS
  DeferMax = 3
  RawWrites <- MCRawWrites
  MaxAsks = 2
  MaxMishaps = 1
INVARIANTS
  SysTypeOK
  RepliesAreTrue
  ChecksRepair
PROPERTIES
  SettingsSurvive
  AskedIsAnswered
CHECK_DEADLOCK FALSE
