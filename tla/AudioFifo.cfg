SPECIFICATION FairSpec
CONSTANTS
  SPIRAMSIZE = 3
  SPIREADSIZE = 2
  FIFO_LOWMARK = 84
  ReadLens = {1, 3}
  WriteLens = {2, 3}
  MaxBytes = 6
INVARIANTS StreamIntact NoLostWakeup NeverBothAsleep RetriesBounded
PROPERTIES ChannelSpec WrittenIsRead WriteReturns
CHECK_DEADLOCK FALSE
