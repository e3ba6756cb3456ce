CONSTANTS
  IdModulus = 2
  None = None
  Malformed = Malformed
  Magics = {m1}
  LcpFrames <- MCLcpFrames
  Addresses = {a0, a1}
  Unspecified = a0
  IpcpFrames <- MCIpcpFrames
  Challenges = {c1, c2}
  PeerChallenges = {p1, p2}
  Nonces = {n1, n2}
  PeerPackets <- MCPeerPackets
SPECIFICATION Spec
INVARIANT NeverPanics
CHECK_DEADLOCK FALSE
