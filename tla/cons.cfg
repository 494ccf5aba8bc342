SPECIFICATION FairSpec
CONSTANTS
  Readers = {c1, c2}
  BReaders = {}
  Writers = {k1}
  None = None
  Coalesce = FALSE
  Limit = 4
  High = 0
  MaxAtomic = 2
  Hdr = 1
  ReadSizes = {2}
  WriteSizes = {}
  MaxCalls = 3
  CtlUsers = {c1, c2}
  Keys = {"rune", "bs", "kill", "nl", "eof"}
  LineMax = 3
  CtlKeys = 1
INVARIANTS
  Delivered
  OneLineARead
  NoPartialLine
  RawNeedsCtl
PROPERTY
  LineIsRead
CHECK_DEADLOCK FALSE
