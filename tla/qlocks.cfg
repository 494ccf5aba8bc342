SPECIFICATION FairSpec
CONSTANTS
  Procs = {p1, p2, p3}
  Locks = {1, 2}
  None = None
INVARIANTS
  IInv
  MutualExclusion
PROPERTIES
  ImplementsFifoMutex
  NobodyWaitsForever
