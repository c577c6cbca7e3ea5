SPECIFICATION FairSpec
CONSTANTS
  I2SDMABUFCNT = 3
  I2SDMABUFLEN = 2
  NULL = NULL
  MaxLost = 2
  MaxSamples = 8
  MaxUnderruns = 2
INVARIANTS QueueIsRun
PROPERTIES PlaysInOrder PushResumes
