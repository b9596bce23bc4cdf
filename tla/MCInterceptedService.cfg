CONSTANTS
  Symbols = {"/", "s", "t", "h", "x"}
  Emails = {"alice", "robot"}
  HeaderKeys = {"authorization", "x-jwt"}
  LogTypes = {"DATA_ACCESS"}
  LabelKeys = {"team"}
  LabelValues = {"default"}
  Interceptors <- MCInterceptors
  Methods <- MCMethods
  Requests <- MCRequests
  Setups <- MCSetups
SPECIFICATION ServiceSpec
CHECK_DEADLOCK FALSE
INVARIANTS
  ServiceTypeOK
  HandlerDecides
  FailsOpen
  AnsweredAfterStored
  RuleIsMostRelevant
  EntryOfItsCall
  ClientAsConfigured
  RuntimeAttribution
  RemoteStaysSecure
  PanicsOnlyWithoutMap
  FileModeHonoured
