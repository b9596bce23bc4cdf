CONSTANTS
  LogTypes = {"DATA_ACCESS", "ADMIN_ACTIVITY"}
  Entry <- MCEntry
SPECIFICATION FairSpec
CHECK_DEADLOCK FALSE
INVARIANTS
  TypeOK
  StopReportsLoss
PROPERTIES
  StopTerminates
