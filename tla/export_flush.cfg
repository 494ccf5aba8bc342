SPECIFICATION Spec
CONSTANTS
  Master = m
  Slaves = {s1, s2}
  Procs = {m, s1, s2}
  None = None
  Nil = None
  Nr_workbufs = 2
  Tags = {1, 2, 3}
  NOTAG = 0
  Rounds = 2
  Fids = {1, 2}
  Files = {root, x1, x2}
  Root = root
  Names = {"a", "b"}
  Loads <- MCFlushLoad
INVARIANT
  FlushIsKept
CHECK_DEADLOCK FALSE
