CONSTANTS
  MilBits = 16
  HalfBit = 25
  MilWord <- MilSample
SPECIFICATION MilFairSpec
INVARIANT OkIsOfAWord
