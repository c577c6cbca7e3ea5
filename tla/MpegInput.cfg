SPECIFICATION FairSpec
CONSTANTS
  Streams <- MCStreams
  BUFSIZE = 10
  MAD_BUFFER_GUARD = 2
  MAX_FRAME_SIZE = 7
  MaxBegin = 3
  MAD_BUFFER_MDLEN = 10
  NULL = NULL
  Sizes = {3, 5}
  Side = 2
  FrameCount = 4
  Fillers = 5
INVARIANTS StreamIntact FramesInOrder NoFrameWaits MainDataRight 
 
CHECK_DEADLOCK FALSE
