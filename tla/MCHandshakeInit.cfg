CONSTANTS
  ListenFirst = TRUE
  Data <- ClientData
  MaxLoss = 0
  MaxDup = 1
  MaxTimeouts = 0
SPECIFICATION Spec
PROPERTIES
  InitBeforeAck
CHECK_DEADLOCK FALSE
