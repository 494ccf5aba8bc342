SPECIFICATION FairSpec
CONSTANTS
  Procs = {p1, p2, p3}
  Rendezs = {r1, r2}
  None = None
INVARIANTS
  IInv
  NoWakeupPanic
  NoLostWakeup
  NoStrayWakeup
PROPERTY
  WokenEventually
