CONSTANTS
  MaxSessions = 1
  TunnelGatewayShown = TRUE
  Phys = Phys
  None = None
  MaxAttempts = 2
  MaxRestarts = 0
SPECIFICATION SessionSpec
PROPERTY ConfirmedMeansEnded
CHECK_DEADLOCK FALSE
