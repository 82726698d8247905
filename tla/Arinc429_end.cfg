CONSTANTS
  AdrBits = 2
  DatBits = 3
  AR_Nt = 2
SPECIFICATION ArincFairSpec
PROPERTY WordEnds
