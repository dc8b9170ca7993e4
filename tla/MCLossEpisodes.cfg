CONSTANTS
  MSS = 1
  IW = 6
  SSTHRESH_INIT = 9
  SEND_BUF_SIZE = 6
  DUPACK_MAX = 4
  TCP_MAXRXTSHIFT = 2
  CcChoices = {"tahoe", "reno", "new_reno", "lstm_reno"}
  StreamLen = 6
  ChunkMax = 6
  Windows = {0, 6}
  PeerData = TRUE
  ReplyDropped = TRUE
  MaxShift = 2
  MaxCwnd = 6
SPECIFICATION LossSpec
INVARIANTS
  WindowFloor
  RecoveryEnds

  
