SPECIFICATION Spec
CONSTANTS
  Readers = {r1, r2}
  BReaders = {}
  Writers = {w1, i1}
  Printers = {i1}
  None = None
  Coalesce = TRUE
  Limit = 4
  High = 3
  MaxAtomic = 2
  Hdr = 1
  ReadSizes = {1, 3}
  WriteSizes = {0, 3}
  MaxCalls = 1
INVARIANT
  OpenKprintIsOpen
CHECK_DEADLOCK FALSE
