SPECIFICATION Spec
CONSTANTS
  Client = {c1, c2}
  NoClient = NoClient
  Name <- MCName
  Lower <- MCLower
  Word <- MCWord
  CR = "CR"
  Cuts = TRUE
  Request <- CutRequests
  InitDirs <- MCDirs
  InitFiles <- MCFiles
  ReadOnly <- MCReadOnly
  Unreadable <- MCSealed
  Unwritable <- MCSealed
  Random <- MCRandom
  FdLimit = 3
  FcloseNull = {"crash", "return"}
  MaxStarts = 1
  MaxKills = 1
SYMMETRY Symmetry
INVARIANTS
  EchoTells
  LeakedHaveSentNothing
PROPERTIES
  ImplementsStore
CHECK_DEADLOCK FALSE
