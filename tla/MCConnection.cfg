CONSTANTS
  MSS = 2
  IW = 2
  SSTHRESH_INIT = 9
  SEND_BUF_SIZE = 3
  DUPACK_MAX = 4
  TCP_MAXRXTSHIFT = 3
  RECV_BUF_SIZE = 3
  WIN_UNIT = 1
  StreamLen = 4
  Chunks = {1, 4}
  ReadLens = {2}
  MaxFaults = 1
SPECIFICATION Spec
CHECK_DEADLOCK FALSE
PROPERTIES ImplementsByteStream TransferOrStall
