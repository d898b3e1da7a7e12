SPECIFICATION BSpec
CONSTANTS
  MaxNoRows = 3
  MaxRows = 4
INVARIANTS
  BTypeOK
  RowsArriveOnce
  DoneSendsAll
  BatchesCommitted
PROPERTY
  ImplementsRowQueue
