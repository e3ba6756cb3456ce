CONSTANTS
  Chunks <- MCChunks
  MaxUnansweredEchoes = 2
  ChannelCapacity = 2
  MaxTunnels = 2
SPECIFICATION ConnSpec
INVARIANTS
  ConnTypeOK
  
PROPERTIES
  DisconnectFromLoopReturns
  SilentServerIsDropped
  ReaderIsReleased
  
CHECK_DEADLOCK FALSE
