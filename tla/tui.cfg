SPECIFICATION FairSpec
CONSTANTS
  main = main  listener = listener  logger = logger  red = red  blue = blue
  Main <- main
  Listener <- listener
  Loggers <- OneLogger
  NoThread = NoThread
  Colours <- TwoColours
  NoColour = NoColour
  NoPair = NoPair
  MaxShort = 3
  ColourPairs = 3
  MaxMessages = 2
  Height = 1
  SignalAt = {"input"}
INVARIANTS
  TypeOK
  PairsAccounted
  OnlyWarningsDeadlock
PROPERTIES
  OperationsEnd
  DirtyIsDrawn
CHECK_DEADLOCK FALSE
