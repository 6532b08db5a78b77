SPECIFICATION Spec
CONSTANTS
  NumLBs = 1
  FpsPerLB = 2
  QueueCap = 1
  MaxPackets = 3
  MaxFiles = 1
  Hashes <- MCHashes
PROPERTY StopReturns
CHECK_DEADLOCK FALSE
