SPECIFICATION Spec
CONSTANTS
  c1 = c1  c2 = c2  f1 = f1  f2 = f2
  NoConn = NoConn
  NoFd = NoFd
  Conn <- TwoConns
  Fd <- TwoFds
  MaxClients = 1
  Lines = {"/quit", "/list", "say"}
  PeerMessages = {"PLAYERNAME"}
  SigPipeKills = TRUE
  MaxPort = 1
  InitialPort = 1
  FreePorts = {1}
INVARIANTS
  ClientsCannotStopServer
