CONSTANTS
  Entries = 3
  MaxBatch = 1
  MaxNums = {3}
  Limit = 6
  MaxRetries = 1
SPECIFICATION Spec
CHECK_DEADLOCK FALSE
INVARIANTS
  NoDuplicates
