SPECIFICATION FairRelaySpec
CONSTANTS
  N = 3
  Start <- ThreeChunks
  Records <- TwoRecords
  HeaderSize = 2
  MaxGarbage = 2
  CmdHeader = 1
  MaxField = 4
  CmdLengths = {3}
  NameChunks = {3}
  Characters = {"a", "b"}
  PlayerName <- ShortName
  GarbageNames <- Misread
  LineKinds = {"command"}
  LineSizes = {2}
  MaxLines = 1
  MaxLinks = 2
  BufferSize = 2
INVARIANTS
  TypeOK
  InStep
  FramesDelimited
  ChannelsInside
  NameIsThePlayers
PROPERTIES
  NameIsDelivered
  LinesAreRelayed
  ChunksAreProcessed
CHECK_DEADLOCK FALSE
