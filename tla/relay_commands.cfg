SPECIFICATION RelaySpec
CONSTANTS
  N = 3
  Start <- ThreeChunks
  Records <- TwoRecords
  HeaderSize = 2
  MaxGarbage = 2
  CmdHeader = 1
  MaxField = 9
  CmdLengths = {3}
  NameChunks = {3}
  Characters = {"a", "b"}
  PlayerName <- ShortName
  GarbageNames <- Misread
  LineKinds = {"command", "joined"}
  LineSizes = {1, 3}
  MaxLines = 2
  MaxLinks = 1
  BufferSize = 4
INVARIANTS
  OnlyCommandsRun
CHECK_DEADLOCK FALSE
