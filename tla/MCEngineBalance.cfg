SPECIFICATION Spec
CONSTANTS
  NumLBs = 2
  FpsPerLB = 2
  QueueCap = 1
  MaxPackets = 4
  MaxFiles = 1
  Hashes <- EveryHash
INVARIANT EveryWorkerServes
CHECK_DEADLOCK FALSE
