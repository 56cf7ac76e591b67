SPECIFICATION FairSpec
CONSTANTS
  Client = {c1, c2, c3}
  NoClient = NoClient
  Name <- MCName
  Lower <- MCLower
  Word <- MCWord
  CR = "CR"
  Cuts = TRUE
  Request <- QueueRequests
  InitDirs <- MCDirs
  InitFiles <- MCFiles
  ReadOnly <- MCReadOnly
  Unreadable <- MCSealed
  Unwritable <- MCSealed
  Random <- MCRandom
  FdLimit = 2
  FcloseNull = {"crash", "return"}
  MaxStarts = 1
  MaxKills = 1
PROPERTIES
  BacklogMoves
  LingerEnds
CHECK_DEADLOCK FALSE
