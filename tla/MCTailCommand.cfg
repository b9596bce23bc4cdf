CONSTANTS
  Entries = 4
  MaxBatch = 2
  MaxNums = {0, 1, 3, 6, 7}
  Limit = 6
  MaxRetries = 2
SPECIFICATION FairSpec
CHECK_DEADLOCK FALSE
INVARIANTS
  TypeOK
  NewestWithoutGaps
  PrintedInOrder
  ErrorReported
PROPERTIES
  RunEnds
