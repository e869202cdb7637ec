SPECIFICATION FairSpec
CONSTANTS
  s1 = s1  s2 = s2
  NoSock = NoSock
  Sock <- TwoSocks
INVARIANTS
  TypeOK
  ConnectedIsListenedTo
  SpawnFindsNoHandle
PROPERTIES
  ImplementsHandle
  SettledCleanupFinishes
