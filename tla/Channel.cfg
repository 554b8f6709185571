SPECIFICATION Spec
CONSTANTS
  sv = sv cl = cl ch = ch c1 = c1 c2 = c2 s1 = s1 n1 = n1
  None = None
  Procs = {sv, cl, ch}
  Born = {sv, cl}
  Calls <- MCCalls
  Chans = {c1, c2}
  Surfs = {s1}
  Eps = {n1}
  HandleMax = 2
  QueueMax = 1
  AcceptMax = 1
  AncMax = 2
  MovesTwice = FALSE
  MaxCalls <- MCMaxCalls
INVARIANTS
  RefsExact
  PeerKnown
  SleepIsJustified
CHECK_DEADLOCK FALSE
