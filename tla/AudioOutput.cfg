SPECIFICATION OutputSpec
CONSTANTS
  m_buffersize = 12
  m_outburst = 4
  WriteSizes = {2}
  ReadSizes = {4, 8}
  MaxBytes = 32
  Formats <- MCFormats
  BlockSamples = 4
  MaxBlocks = 4
  Closed = Closed
INVARIANTS  FormatFollows CursorsCount
PROPERTIES BlockIsSent ChannelSpec
CHECK_DEADLOCK FALSE
