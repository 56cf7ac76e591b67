SPECIFICATION Spec
CONSTANTS
  Asked <- MCAsked
  Lengths <- MCLengths
  UrlSize = 32
  GetSize = 32
  PathSize = 64
  NameSize = 9
INVARIANTS
  TypeOK
  WholeIsUnderstood
  CutIsLessOrCrash
  OverrunOnlyByDot
CHECK_DEADLOCK FALSE
