CONSTANTS
  UartBits = 8
  Nt = 36
  Byte <- MCByte
  MaxSlip = 3
  SpiBits = 4
  SpiWord <- MCSpiWord
  Half = 2
  AdrBits = 2
  DatBits = 3
  AR_Nt = 2
  MilBits = 5
  HalfBit = 25
  MilWord <- MCMilWord
SPECIFICATION LinksSpec
PROPERTIES UartIsLink SpiIsTwoLinks WordArrives MilWordsArrive
