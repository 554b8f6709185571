SPECIFICATION Spec
CONSTANTS
  c1 = c1 c2 = c2 t1 = t1 t2 = t2 t3 = t3 p1 = p1 p2 = p2 p3 = p3
  Idle = Idle
  None = None
  Cpus <- TwoCpus
  Threads <- ThreeThreads
  Procs <- TwoProcs
  MaxPid = 2
  Calls <- ExitCalls
SYMMETRY Symmetry
INVARIANTS
  EndedIsEnded
