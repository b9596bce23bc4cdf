CONSTANTS
  Symbols = {}
  Reqs = {r1, r2}
  Emails = {"alice", "robot"}
  LogTypes = {"UNSPECIFIED", "DATA_ACCESS"}
  LabelKeys = {"team"}
  LabelValues = {"default"}
  Workloads <- MCWorkloads
  MaxCrashes = 1
SPECIFICATION FairSpec
CHECK_DEADLOCK FALSE
PROPERTIES
  ImplementsService
  LogReturns
  StopEnds
INVARIANTS
  TypeOK
  FailCloseDurable
  OnlyVettedEntries
  AgentShutdownComplete
