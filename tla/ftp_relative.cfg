SPECIFICATION Spec
CONSTANTS
  Client = {c1, c2}
  NoClient = NoClient
  Name <- MCName
  Block <- MCBlock
  NewLine <- MCNewLine
  MAX_LENGTH <- MCLength
  Source <- MCSource
  NoSource <- MCNoSource
  LocalFiles <- MCLocal
  LocalDirs <- MCLocalDirs
  Request <- RelativeRequests
  StartDir <- MCStart
  InitDirs <- MCDirs
  InitFiles <- MCFiles
  ReadOnly <- MCReadOnly
  FcloseNull = {"crash"}
  MaxCmds = 4
  MaxKills = 0
SYMMETRY Symmetry
INVARIANTS
  TypeOK
  WdDenotesCwd
  StallOnlyOnSilentErrno
CHECK_DEADLOCK FALSE
