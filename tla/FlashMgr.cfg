SPECIFICATION LiveSpec
CONSTANTS
  c1 = c1
  c2 = c2
  v1 = v1
  Blank = Blank
  Torn = Torn
  Chunks = {c1, c2}
  Versions = {v1}
  Offers <- MCOffers
  AppSectors = 2
  SectorSlots = 2
  MaxRetries = 1
  CommLimit = 1
INVARIANTS
  TypeOK
  OneStepPending
  AreaHoldsPackets
  MetadataHonest
PROPERTIES
  SuccessIsReal
  ImplementsStore
  ImplementsService
  SessionEnds
  JobEnds
