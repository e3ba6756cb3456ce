CONSTANTS
  MaxSessions = 2
  TunnelGatewayShown = TRUE
  Phys = Phys
  None = None
  MaxAttempts = 2
  MaxRestarts = 0
SPECIFICATION SessionSpec
INVARIANT SnapshotIsPhysical
CHECK_DEADLOCK FALSE
