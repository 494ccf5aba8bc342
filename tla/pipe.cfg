SPECIFICATION FairSpec
CONSTANTS
  Readers = {r1, r2}
  BReaders = {r2}
  Writers = {w1, w2}
  None = None
  Coalesce = FALSE
  Limit = 4
  High = 0
  MaxAtomic = 2
  Hdr = 1
  ReadSizes = {1, 2}
  WriteSizes = {1, 3}
  MaxCalls = 2
INVARIANTS
  Accounting
  ReaderIsRemembered
  WriterIsRemembered
  Bounded
PROPERTIES
  ImplementsPipeChannel
  WriterGetsOn
  HangupIsNoticed
CHECK_DEADLOCK FALSE
