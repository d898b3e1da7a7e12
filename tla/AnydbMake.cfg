SPECIFICATION Spec
CONSTANTS
  si1 = si1
  si2 = si2
  Source <- MCSource
  Jar = Jar
  Module = Module
  Supplied = Supplied
  IcFile = IcFile
  Tool = Tool
  Whole = Whole
  Outputs = Outputs
  Ext = ".ii"
  MaxTime = 3
  MaxEdited <- MCMaxEdited
SYMMETRY SourceSymmetry
INVARIANTS
  TypeOK
  StaleIsSeen
  BuildIsComplete
  NoNeedlessWork
PROPERTY
  UpToDateIsLeftAlone
CHECK_DEADLOCK FALSE
