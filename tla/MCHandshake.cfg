CONSTANTS
  IdModulus = 8
  None = None
  Malformed = Malformed
  Magics = {m1, m2}
  LcpFrames = {}
  Addresses = {a0, a1, a2}
  Unspecified = a0
  IpcpFrames = {}
  Challenges = {c1}
  PeerChallenges = {p1, p2, p3}
  Nonces = {n1}
  PeerPackets = {}
  ClientAddress = a1
  DnsAddress = a2
  NoiseBudget = 1
  Reauthentications = 2
SPECIFICATION HandshakeSpec
INVARIANTS
  BindingAccepted
  KeyAgreement
  LinkAgreement
  AddressAgreement
  NoFailure
PROPERTIES
  HandshakeCompletes
CHECK_DEADLOCK FALSE
