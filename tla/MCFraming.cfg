CONSTANTS
  Radix = 5
  ProtoVersion = 1
  AddressControl <- MCAddressControl
  LcpProtocol = 9
  RejectCode = 4
  CR = 2
  LF = 3
  Accepted <- MCAccepted
  Conversations <- MCConversations
  Streams <- MCStreams
  MaxUnansweredEchoes = 2
SPECIFICATION FramingSpec
INVARIANTS
  FramingTypeOK
  NoByteLost
  CutIndependent
  DeliveredAsSent
  
PROPERTIES
  HeldBackIsHandled
CHECK_DEADLOCK FALSE
