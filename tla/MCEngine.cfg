SPECIFICATION Spec
CONSTANTS
  NumLBs = 2
  FpsPerLB = 2
  QueueCap = 1
  MaxPackets = 3
  MaxFiles = 2
  Hashes <- MCHashes
INVARIANTS
  TypeOK
  FlowsInOrder
  OnlyOneFile
  DrainedLosesNothing
PROPERTY StopReturnsUnlessStuck
CHECK_DEADLOCK FALSE
