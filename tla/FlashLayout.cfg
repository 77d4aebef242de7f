SPECIFICATION Spec
CONSTANTS
  NumSectors = 24
  sectorArray <- MCSectorArray
  ApplSector = 6
  MaxImageSize <- MCMaxImageSize
  Sizes <- MCAccepted
INVARIANTS
  EndsInsideIffFits
  ErasesTheImage
