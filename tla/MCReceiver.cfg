\* A 5-byte ring that wraps and that windows in units of 2 do not divide, a
\* stream twice as long, reads shorter and longer than what waits; sequence
\* numbers modulo 10, which the stream passes.
CONSTANTS
  RECV_BUF_SIZE = 5
  MSS = 3
  WIN_UNIT = 2
  HALF = 5
  StreamLen = 10
  ReadMax = 5
SPECIFICATION FairLoopSpec
INVARIANTS
  OooAccounting
  Capacity
  StreamIntegrity
  AckOwed
  PromiseKept
  WindowReopens
  ListSorted
  BranchAgrees
PROPERTIES
  WindowNotRetracted
  QueueKeepsEnds
  ImplementsReceiver
  AckEventually
