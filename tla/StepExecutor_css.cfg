SPECIFICATION Spec
CONSTANTS
  NoResponse = NoResponse
  NoExpr = NoExpr
  Malformed = Malformed
  NoId = NoId
  NoRule = NoRule
  WithBrowser = TRUE
  Ids <- StepIds
  Statuses <- StatusClasses
  Scenarios <- AllScenarios
CHECK_DEADLOCK FALSE
INVARIANT CssMissIsNoFailure
