SPECIFICATION Spec
CONSTANTS
  Entry <- MCEntry
  Kind <- MCKind
  Size <- MCSize
  Dot = Dot
  DotDot = DotDot
  d = d
  u = u
  f = f
  g = g
  h = h
  MAX_LENGTH = 12
INVARIANTS
  TypeOK
  ReplyIsListing
  UnderrunOnlyWithoutFiles
  OverrunOnlyWhenLong
CHECK_DEADLOCK FALSE
