SPECIFICATION FairSpec
CONSTANTS
  Client = {c1, c2}
  NoClient = NoClient
  Name <- MCName
  Block <- MCBlock
  NewLine <- MCNewLine
  MAX_LENGTH <- MCLength
  Source <- MCSource
  NoSource <- MCNoSource
  LocalFiles <- MCLocal
  LocalDirs <- MCLocalDirs
  Request <- LiveRequests
  StartDir <- MCStart
  InitDirs <- MCDirs
  InitFiles <- MCFiles
  ReadOnly <- MCReadOnly
  FcloseNull = {"crash", "return"}
  MaxCmds = 2
  MaxKills = 1
PROPERTIES
  QuitCompletes
  TransferEnds
  Answered
CHECK_DEADLOCK FALSE
