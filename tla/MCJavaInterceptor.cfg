CONSTANTS
  Emails = {"alice"}
  HeaderKeys = {"authorization", "x-jwt"}
  Calls = {"a", "b"}
  Rules <- MCRules
  Specs <- MCSpecs
  Inputs <- MCInputs
  Earlier <- MCEarlier
  MaxMessages <- MCMessages
  MaxResponses <- MCResponses
SPECIFICATION Spec
CHECK_DEADLOCK FALSE
INVARIANTS
  TypeOK
  RequestsConserved
  AllButTheLast
  SentAfterStored
  RightSelector
PROPERTIES
  MessageHandled
  CloseHappens
