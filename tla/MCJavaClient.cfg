CONSTANTS
  Reqs = {r1, r2}
  Emails = {"alice", "robot"}
  LogTypes = {"DATA_ACCESS"}
  LabelKeys = {"team"}
  LabelValues = {"default"}
  AgentLabels <- AllDefault
  Workloads <- MCWorkloads
SPECIFICATION Spec
SYMMETRY Symmetry
CHECK_DEADLOCK FALSE
PROPERTIES
  ImplementsService
INVARIANTS
  OnlyVettedEntries
