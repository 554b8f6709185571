SPECIFICATION FairSpec
CONSTANTS
  t1 = t1
  t2 = t2
  t3 = t3
  p1 = p1
  p2 = p2
  Threads <- MCThreads
  Procs <- MCProcs
  ProcOf <- MCProcOf
  SemInitial = 0
  MaxPosts = 2
INVARIANTS
  TypeOK
  MutualExclusion
  MutexWakePending
  SemWakePending
  PermitsConserved
PROPERTIES
  CancelEndsWait
  MutexHandedOn
\* All clients may sleep on a semaphore nobody posts.
CHECK_DEADLOCK FALSE
