SPECIFICATION FairSpec
CONSTANTS
  None = None
  MaxWrites = 2
  MaxDamages = 1
INVARIANTS
  EndsUnderstand
  AlertIsLast
PROPERTY
  HandshakeEnds
CHECK_DEADLOCK FALSE
