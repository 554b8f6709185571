SPECIFICATION Spec
CONSTANTS
  t0 = t0
  t1 = t1
  t2 = t2
  sh = sh
  ch = ch
  p1 = p1
  None = None
  Threads = {t0, t1, t2}
  Procs = {sh, ch}
  ProcOf <- MCProcOf
  Shell = sh
  Pipes = {p1}
  Size = 2
  f0 = f0
  f1 = f1
  Fds = {f0, f1}
  ReadLengths = {1}
  WriteLengths = {2, 3}
  MaxPipes = 2
  Calls <- MCCalls
  MaxCalls <- MCMaxCalls
  HandleRaces = FALSE
INVARIANTS RefsExact SleepIsJustified
PROPERTIES GoneIsGone RefinesByteStream
SYMMETRY Symmetry
