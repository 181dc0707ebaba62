SPECIFICATION FairRunSpec
CONSTANTS
  NoResponse = NoResponse
  NoExpr = NoExpr
  Malformed = Malformed
  NoId = NoId
  NoRule = NoRule
  WithBrowser = TRUE
  Ids <- StepIds
  Statuses <- StatusClasses
  Scenarios <- BrowserScenarios
CHECK_DEADLOCK FALSE
INVARIANTS RunTypeOK BrowserIsReady BrowserIsClosed ReportIsOutcome
PROPERTY ForwardRunsEnd
