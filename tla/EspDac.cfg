SPECIFICATION Spec
CONSTANTS
  FullScale = 16
  Samples <- MCSamples
  WordBits = 6
  BlockSamples = 2
  MaxBlocks = 2
  BASEFREQ = 400000
  MinBck = 2
  MaxBck = 15
  MinClkm = 5
  MaxClkm = 15
  MinBits = 16
  MaxBits = 19
  Rates = {80, 220, 441}
  Formats <- MCFormats
INVARIANTS   RateIsNearest
CHECK_DEADLOCK FALSE
