SPECIFICATION Spec
CONSTANTS
  p1 = p1
  p2 = p2
  c1 = c1
  Producers <- MCProducers
  Consumers <- MCConsumers
  Threads <- MCThreads
  Words <- MCWords
  Values <- MCValues
  BucketOf <- MCBucketOf
  Frames = {"f1"}
  NoFrame = NoFrame
  PerProducer = 1
  QCap = 1
  MaxSeq = 9
  MaxInterrupts = 1
INVARIANTS
  MutualExclusion
  MutexWakeOwed
  CondWakeOwed
  ItemsConserved
PROPERTY EventuallyDone
CHECK_DEADLOCK FALSE
