SPECIFICATION FairSpec
CONSTANTS
  Master = m
  Slaves = {s1, s2}
  Procs = {m, s1, s2}
  None = None
  Nil = None
  Nr_workbufs = 2
  Tags = {1, 2, 3}
  NOTAG = 0
  Rounds = 2
  Fids = {1, 2}
  Files = {root, x1, x2}
  Root = root
  Names = {"a", "b"}
  Loads <- MCLoads
INVARIANTS
  SlavesWorkApart
  AnsweredOnce
  FilesAreCounted
PROPERTY
  IsAnswered
CHECK_DEADLOCK FALSE
