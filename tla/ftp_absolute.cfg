SPECIFICATION Spec
CONSTANTS
  Client = {c1, c2}
  NoClient = NoClient
  Name <- MCName
  Block <- MCBlock
  NewLine <- MCNewLine
  MAX_LENGTH <- MCLength
  Source <- MCSource
  NoSource <- MCNoSource
  LocalFiles <- MCLocal
  LocalDirs <- MCLocalDirs
  Request <- AbsoluteRequests
  StartDir <- MCStart
  InitDirs <- MCDirs
  InitFiles <- MCFiles
  ReadOnly <- MCReadOnly
  FcloseNull = {"crash"}
  MaxCmds = 3
  MaxKills = 1
SYMMETRY Symmetry
INVARIANTS
  AbsoluteWd
CHECK_DEADLOCK FALSE
