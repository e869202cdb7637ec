SPECIFICATION FairSpec
CONSTANTS
  c1 = c1  c2 = c2  f1 = f1  f2 = f2
  NoConn = NoConn
  NoFd = NoFd
  Conn <- TwoConns
  Fd <- TwoFds
  MaxClients = 1
  Lines = {"/list", "/quit", "say"}
  PeerMessages = {"PLAYERNAME", "other"}
  SigPipeKills = TRUE
  MaxPort = 2
  InitialPort = 2
  FreePorts = {1}
PROPERTIES
  GoneClientsReaped
  ShutdownCompletes
