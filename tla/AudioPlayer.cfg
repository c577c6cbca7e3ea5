SPECIFICATION FairSpec
CONSTANTS
  FifoSize = 4
  MaxBlock = 2
  Fds = {f1, f2, f3}
  NoFd = NoFd
  Types = {"MPEG", "AAC"}
  MaxOpens = 2
  MaxApi = 2
  MaxFailures = 1
  MaxBlocks = 2
INVARIANTS OneDecoderEach SocketsAccounted NoWriterStuck
PROPERTIES OpenPlays 
CHECK_DEADLOCK FALSE
