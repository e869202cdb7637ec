SPECIFICATION Spec
CONSTANTS
  c1 = c1  c2 = c2  f1 = f1  f2 = f2
  NoConn = NoConn
  NoFd = NoFd
  Conn <- TwoConns
  Fd <- TwoFds
  MaxClients = 2
  Lines = {"say"}
  PeerMessages = {}
  SigPipeKills = FALSE
  MaxPort = 1
  InitialPort = 1
  FreePorts = {1}
PROPERTIES
  CommandsReachAllConnected
