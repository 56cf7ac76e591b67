SPECIFICATION FairSpec
CONSTANTS
  Client = {c1, c2}
  NoClient = NoClient
  Name <- MCName
  Lower <- MCLower
  Word <- MCWord
  CR = "CR"
  Cuts = TRUE
  Request <- LiveRequests
  InitDirs <- MCDirs
  InitFiles <- MCFiles
  ReadOnly <- MCReadOnly
  Unreadable <- MCSealed
  Unwritable <- MCSealed
  Random <- MCRandom
  FdLimit = 2
  FcloseNull = {"crash", "return"}
  MaxStarts = 1
  MaxKills = 1
PROPERTIES
  Answered
CHECK_DEADLOCK FALSE
