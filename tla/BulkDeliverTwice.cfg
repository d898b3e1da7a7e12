SPECIFICATION BSpec
CONSTANTS
  MaxNoRows = 3
  MaxRows = 4
INVARIANT
  SentOnce
