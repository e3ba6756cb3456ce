CONSTANTS
  MaxSessions = 1
  TunnelGatewayShown = TRUE
  Phys = Phys
  None = None
  MaxAttempts = 2
  MaxRestarts = 1
SPECIFICATION SessionSpec
INVARIANTS
  SessionTypeOK
PROPERTIES
  UiCatchesUp
  DisconnectCompletes
  
  RouteComesBack
CHECK_DEADLOCK FALSE
