SPECIFICATION FairSpec
CONSTANTS
  Block = {x, nl}
  NewLine = nl
  MAX_LENGTH = 3
  MaxBytes = 6
  MaxSignals = 1
INVARIANTS
  TypeOK
  Lossless
PROPERTIES
  ImplementsReader
  CallReturns
CHECK_DEADLOCK FALSE
