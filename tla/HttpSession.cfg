SPECIFICATION FairSpec
CONSTANTS
  HeadLen <- MCHeadLen
  MaxBody <- MCMaxBody
INVARIANTS
  TypeOK
  WholeBody
  OneAnswer
  AnsweredBeforeClose
PROPERTIES
  SessionEnds
  SessionShrinks
CHECK_DEADLOCK FALSE
