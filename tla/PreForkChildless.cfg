SPECIFICATION FairSpec
CONSTANTS
  p1 = p1
  p2 = p2
  p3 = p3
  Pid <- MCPid
  Parent = Parent
  NoPid = NoPid
  Stranger = Stranger
  NoProcs <- MCNoProcs
  RestartCount = 1
PROPERTY
  ChildlessParentEnds
