CONSTANTS
  MSS = 2
  IW = 2
  SSTHRESH_INIT = 9
  SEND_BUF_SIZE = 5
  DUPACK_MAX = 4
  TCP_MAXRXTSHIFT = 2
  CcChoices = {"new_reno"}
  StreamLen = 6
  ChunkMax = 6
  Windows = {0, 1, 5}
  PeerData = TRUE
  ReplyDropped = FALSE
  MaxShift = 3
  MaxCwnd = 10
  HALF = 8
SPECIFICATION Spec
INVARIANTS
  BackoffInTable
