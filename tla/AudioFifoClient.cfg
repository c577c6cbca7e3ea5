SPECIFICATION ClientSpec
CONSTANTS
  SPIRAMSIZE = 3
  SPIREADSIZE = 2
  FIFO_LOWMARK = 84
  ReadLens = {3}
  WriteLens = {3}
  MaxBytes = 3
  ClientOps <- Ops
INVARIANTS FillIsConsistent
PROPERTIES CaughtIsForEver
CHECK_DEADLOCK FALSE
