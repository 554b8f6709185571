SPECIFICATION Spec
CONSTANTS
  f1 = f1 v1 = v1 v2 = v2 n1 = n1
  Absent = Absent Empty = Empty Torn = Torn
  Files = {f1}
  Values = {v1, v2}
  Names = {n1}
  NBlocks = 7
  FreeMod = 16
  MaxOpen = 1
  MaxGen = 5
  MaxCrashes = 1
  MaxFaults = 1
  MaxPending = 2
INVARIANTS
  NamedIsIntact
  AllocatorExact
PROPERTY ImplementsAtomicVolume
SYMMETRY Symmetric
CHECK_DEADLOCK FALSE
