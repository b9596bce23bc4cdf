CONSTANTS
  Entries = 1
  MaxBatch = 1
  MaxNums = {1}
  Limit = 6
  MaxRetries = 1
SPECIFICATION FairSpec
CHECK_DEADLOCK FALSE
PROPERTIES
  StopsOnCancel
