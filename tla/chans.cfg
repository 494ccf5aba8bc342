SPECIFICATION Spec
CONSTANTS
  p1 = p1
  p2 = p2
  None = None
  Procs = {p1, p2}
  Chans = {0, 1, 2, 3, 4, 5, 6, 7, 8}
  Mheads = {m1, m2}
  Files <- MCFiles
  Dirs <- MCDirs
  Loads <- MCLoads
  DELTAFD = 1
  FdLimit = 2
  WriteSize = 2
INVARIANTS
  ChansAreCounted
  NamesResolve
  WritesApart
