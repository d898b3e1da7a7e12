SPECIFICATION CSpec
CONSTANTS
  q1 = q1
  q2 = q2
  Query <- MCQuery
  NoRows = 2
  MaxSize = 5
INVARIANT
  FetchedAll
