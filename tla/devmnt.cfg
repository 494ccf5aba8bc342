SPECIFICATION FairSpec
CONSTANTS
  Procs = {p1, p2, p3}
  Tags = {1, 2, 3}
  None = None
  MaxFree = 2
  MaxCalls = 3
  MaxIntr = 1
  Lucky = {p3}
  MayHangUp = TRUE
INVARIANTS
  ReplyIsOwn
  NoStaleTag
  OneReader
  SleepersAreAttended
PROPERTY
  EveryCallReturns
CHECK_DEADLOCK FALSE
