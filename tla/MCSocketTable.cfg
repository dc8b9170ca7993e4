CONSTANTS
  Apps = {a1, a2}
  MAX_UTCP_SOCKETS = 2
  Ports = {7654}
  Clients = {c1, c2}
  Servers = {s1, s2}
  None = None
SPECIFICATION Spec
INVARIANTS
  FdsDistinct
  RightSocket
  Survives
PROPERTIES
  TickerRuns
  ConnectReturns
CHECK_DEADLOCK FALSE
