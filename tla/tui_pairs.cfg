SPECIFICATION FairSpec
CONSTANTS
  main = main  listener = listener  logger = logger  red = red  blue = blue
  Main <- main
  Listener <- listener
  Loggers <- OneLogger
  NoThread = NoThread
  Colours <- OneColour
  NoColour = NoColour
  NoPair = NoPair
  MaxShort = 3
  ColourPairs = 2
  MaxMessages = 2
  Height = 1
  SignalAt = {}
PROPERTIES
  DefaultColourGiven
CHECK_DEADLOCK FALSE
