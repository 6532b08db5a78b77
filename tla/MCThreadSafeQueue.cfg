\* Two producers and two consumers on a queue of one slot.
SPECIFICATION Spec
CONSTANTS
  p1 = p1
  p2 = p2
  c1 = c1
  c2 = c2
  Producers <- MCProducers
  Consumers <- MCConsumers
  MaxSize = 1
  CallsPerThread = 2
INVARIANTS TypeOK NoStrandedProducer NoStrandedConsumer NoSleepAfterShutdown
PROPERTIES ShutdownReleases ImplementsChannel
