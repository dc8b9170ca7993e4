CONSTANTS
  ListenFirst = FALSE
  Data <- BothData
  MaxLoss = 1
  MaxDup = 1
  MaxTimeouts = 2
SPECIFICATION Spec
INVARIANTS
  TypeOK
  Synchronised
  AcceptedHasPeer
  HeadBehindTail
PROPERTIES
  BothEstablished
  AcceptFollows
CHECK_DEADLOCK FALSE
