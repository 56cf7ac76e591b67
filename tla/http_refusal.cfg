SPECIFICATION Spec
CONSTANTS
  Client = {c1, c2}
  NoClient = NoClient
  Name <- MCName
  Lower <- MCLower
  Word <- MCWord
  CR = "CR"
  Cuts = FALSE
  Request <- RefusalRequests
  InitDirs <- MCDirs
  InitFiles <- MCFiles
  ReadOnly <- MCReadOnly
  Unreadable <- MCSealed
  Unwritable <- MCSealed
  Random <- MCRandom
  FdLimit = 3
  FcloseNull = {"crash"}
  MaxStarts = 0
  MaxKills = 0
PROPERTIES
  PostIsRefused
CHECK_DEADLOCK FALSE
