SPECIFICATION FairSpec
CONSTANTS
  main = main  listener = listener  logger = logger  red = red  blue = blue
  Main <- main
  Listener <- listener
  Loggers <- OneLogger
  NoThread = NoThread
  Colours <- OneColour
  NoColour = NoColour
  NoPair = NoPair
  MaxShort = 4
  ColourPairs = 4
  MaxMessages = 2
  Height = 1
  SignalAt <- AnyPlace
PROPERTIES
  SignalStopsLoops
CHECK_DEADLOCK FALSE
