CONSTANTS
  MaxReqs = 2
  MaxResps = 2
  Directives = {"AUDIT", "AUDIT_REQUEST_ONLY", "AUDIT_REQUEST_AND_RESPONSE"}
  ModePairs <- TwoModes
  HandlerModes = {"FAIL_CLOSE", "BEST_EFFORT"}
SPECIFICATION Spec
CHECK_DEADLOCK FALSE
INVARIANTS
  TypeOK
  LoggedOnce
  NoRequestForgotten
  SentAfterStored
  OwnContext
