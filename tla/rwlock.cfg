SPECIFICATION RWFairSpec
CONSTANTS
  Users = {p1, p2, p3, p4}
  Free = Free
  Readers = Readers
INVARIANT
  RWExclusion
PROPERTIES
  WriterNotOvertaken
  EverybodyGetsIn
