CONSTANTS
  IdModulus = 3
  None = None
  Malformed = Malformed
  Magics = {m1, m2}
  LcpFrames <- MCLcpFrames
  Addresses = {a0, a1}
  Unspecified = a0
  IpcpFrames <- MCIpcpFrames
SPECIFICATION AutomataSpec
INVARIANTS
  LcpTypeOK
  OfferedMagicIsOurs
  IpcpTypeOK
  
PROPERTIES
  DownIsAnnounced
  WantsFixedWhileUp
