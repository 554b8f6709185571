SPECIFICATION PagedSpec
CONSTANTS
  p1 = p1
  p2 = p2
  c1 = c1
  Producers <- MCProducers
  Consumers <- MCConsumers
  Threads <- MCThreads
  Words <- MCWords
  Values <- MCValues
  BucketOf <- MCBucketOf
  Frames = {"f1", "f2"}
  NoFrame = NoFrame
  PerProducer = 1
  QCap = 1
  MaxSeq = 9
  MaxInterrupts = 1
INVARIANT MutexWakeOwed
CHECK_DEADLOCK FALSE
