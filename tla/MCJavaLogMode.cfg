CONSTANTS
  Reqs = {r1, r2}
  Emails = {"alice", "robot"}
  LogTypes = {"DATA_ACCESS"}
  LabelKeys = {"team"}
  LabelValues = {"default"}
  AgentLabels <- AllDefault
  Workloads <- StricterRequest
SPECIFICATION Spec
CHECK_DEADLOCK FALSE
INVARIANT PersistedBeforeReturn
