SPECIFICATION HFairSpec
CONSTANTS
  p1 = p1
  p2 = p2
  p3 = p3
  Pid <- MCPid
  Parent = Parent
  NoPid = NoPid
  Stranger = Stranger
  NoProcs <- MCNoProcs
  RestartCount = 1
  c1 = c1
  c2 = c2
  Client <- MCClient
  MaxFaults = 2
INVARIANTS
  HTypeOK
  OpenFindsConnection
  OwnerIsWaiting
PROPERTIES
  ShutdownDrains
  SignalledWindsDown
  ConnectionAccepted
