CONSTANTS
  Chunks <- MCChunks
  MaxUnansweredEchoes = 1
  ChannelCapacity = 1
  MaxTunnels = 1
SPECIFICATION ConnSpec
PROPERTY DisconnectReturnsAlways
CHECK_DEADLOCK FALSE
