CONSTANTS
  MSS = 2
  IW = 1
  SSTHRESH_INIT = 4
  SEND_BUF_SIZE = 3
  DUPACK_MAX = 4
  TCP_MAXRXTSHIFT = 2
  CcChoices = {"new_reno", "reno"}
  StreamLen = 3
  ChunkMax = 3
  Windows = {3}
  PeerData = TRUE
  ReplyDropped = FALSE
  MaxShift = 2
  MaxCwnd = 4
  TCPTV_MIN = 2
  TCPTV_REXMTMAX = 6
  TCPTV_SRTTDFLT = 3
  tcp_backoff <- Backoff
  Timestamps = {FALSE, TRUE}
  Ages <- EchoAges
  MaxRtt = 2
SPECIFICATION TimedSpec
INVARIANTS
  EstimatorSane
  RtoCoversSample
  TimerAgrees
  TimedOnce
