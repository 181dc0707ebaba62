SPECIFICATION FairSpec
CONSTANTS
  NoResponse = NoResponse
  NoExpr = NoExpr
  Malformed = Malformed
  NoId = NoId
  NoRule = NoRule
  WithBrowser = TRUE
  Ids <- StepIds
  Statuses <- StatusClasses
  Scenarios <- AllScenarios
CHECK_DEADLOCK FALSE
INVARIANTS TypeOK CountersFollowVisits RetriesAreBounded FailureIsJust SuccessIsEarned BackoffIsReused
PROPERTIES ForwardScenariosEnd EndsOrJumps ImplementsWalk
