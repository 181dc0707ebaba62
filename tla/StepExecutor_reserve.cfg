SPECIFICATION Spec
CONSTANTS
  NoResponse = NoResponse
  NoExpr = NoExpr
  Malformed = Malformed
  NoId = NoId
  NoRule = NoRule
  WithBrowser = TRUE
  Ids <- ReserveIds
  Statuses <- StatusClasses
  Scenarios <- OneScenario
CHECK_DEADLOCK FALSE
INVARIANT HttpFailuresAreHandled
