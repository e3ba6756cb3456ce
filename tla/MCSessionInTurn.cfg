CONSTANTS
  MaxSessions = 2
  TunnelGatewayShown = TRUE
  Phys = Phys
  None = None
  MaxAttempts = 2
  MaxRestarts = 0
SPECIFICATION InTurnSpec
INVARIANTS
  
  StatusIsCurrent
PROPERTIES
  DropIsShown
  RouteComesBack
CHECK_DEADLOCK FALSE
