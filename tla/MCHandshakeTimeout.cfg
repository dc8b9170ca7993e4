CONSTANTS
  ListenFirst = TRUE
  Data <- ClientData
  MaxLoss = 1
  MaxDup = 0
  MaxTimeouts = 1
SPECIFICATION Spec
PROPERTIES
  TimeoutSends
CHECK_DEADLOCK FALSE
